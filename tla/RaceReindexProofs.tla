------------------------- MODULE RaceReindexProofs -------------------------
(***************************************************************************)
(* Proofs about RaceReindex, for every chain, every list of old and new    *)
(* events and every position of the old pointer: neither pass leaves a     *)
(* gap, the hand-over leaves none, and no handler misses a row.            *)
(***************************************************************************)
EXTENDS RaceReindex, TLAPS

(***************************************************************************)
(* The inductive invariant.  As for one indexer, a turn has handled all    *)
(* below its batch and holds what the batch still lacks, but of the logs   *)
(* its own stage is in charge of.  What the two passes owe each other is   *)
(* that a turn of the back one ends below the pointer of the front one, so *)
(* that every old log it may need is stored; and that the front pointer    *)
(* has not moved since the back turn began when the two are compared, so   *)
(* that at the hand-over the new events are complete up to it.             *)
(***************************************************************************)
Below(S, n) == \A l \in canon \cap S : BlockOf[l] < n => l \in stored

InCharge ==
    {l \in KeptOld : stage \in {"front", "whole"}}
    \cup {l \in KeptDiff : stage \in {"back", "whole"}}

BatchEnd == IF loopBlock + BatchSize < endBlock THEN loopBlock + BatchSize ELSE endBlock

BaseInv ==
    /\ canon \subseteq Log /\ stored \subseteq Log /\ logs \subseteq Log
    /\ height \in Nat /\ final \in Nat /\ final <= height
    /\ frontFirst \in Nat /\ raceFirst \in Nat \cup {NoBlock}
    /\ synced \in BOOLEAN /\ frontSeen \in Nat
    /\ stage \in {"start", "back", "compare", "front", "whole"}
    /\ pc \in {"idle", "batch", "store"}
    /\ loopBlock \in Nat /\ endBlock \in Int

ChainInv ==
    /\ height - HeightOffset <= final
    /\ \A l \in canon : BlockOf[l] <= height
    /\ Causal(canon)

PointerInv ==
    /\ frontFirst - 1 <= final /\ Below(KeptOld, frontFirst)
    /\ raceFirst # NoBlock => raceFirst - 1 <= final /\ Below(KeptDiff, raceFirst)
    /\ synced => Below(KeptDiff, frontFirst)

StageInv ==
    /\ stage \in {"start", "compare"} => pc = "idle"
    /\ stage \in {"back", "compare"} => frontSeen = frontFirst
    /\ stage \in {"back", "compare", "front"} => ~synced
    /\ stage = "whole" => synced

TurnInv ==
    pc # "idle" =>
        /\ endBlock <= final
        /\ stage = "back" => endBlock < frontFirst
        /\ \A l \in canon \cap InCharge :
               BlockOf[l] < loopBlock /\ BlockOf[l] <= endBlock => l \in stored

BatchInv ==
    IF pc = "store"
    THEN /\ loopBlock <= endBlock
         /\ logs \subseteq canon
         /\ \A l \in logs : BlockOf[l] >= loopBlock /\ BlockOf[l] <= BatchEnd
         /\ \A l \in canon \cap InCharge :
                BlockOf[l] >= loopBlock /\ BlockOf[l] <= BatchEnd
                    => l \in stored \cup logs
    ELSE logs = {}

IInv == BaseInv /\ ChainInv /\ PointerInv /\ StageInv /\ TurnInv /\ BatchInv

-----------------------------------------------------------------------------
\* What the stage at work can have stored before a log: the front pass the
\* old logs, the back pass both, because the front one is ahead of it.
Reached == {l \in KeptOld \cup KeptDiff : stage = "front" => l \in KeptOld}

\* Every such log that is earlier than the next of the batch is stored.
LEMMA EarlierStored ==
    ASSUME IInv, pc = "store",
           NEW l \in Log, IsFirst(l, logs),
           NEW k \in canon \cap Reached, Before(k, l)
    PROVE  k \in stored
<1>1. BlockOf[k] \in Nat /\ BlockOf[l] \in Nat /\ IndexOf[k] \in Nat /\ IndexOf[l] \in Nat
  BY LogAssumption DEF IInv, BaseInv
<1>2. BlockOf[k] <= BlockOf[l]
  BY <1>1 DEF Before
<1>3. BatchEnd \in Int /\ BatchEnd <= endBlock /\ loopBlock \in Nat
  BY RaceAssumption DEF IInv, BaseInv, BatchInv, BatchEnd
<1>4. l \in logs /\ BlockOf[l] <= BatchEnd
  BY DEF IInv, BatchInv, IsFirst
<1>5. CASE k \in InCharge
  <2>1. CASE BlockOf[k] < loopBlock
    BY <1>1, <1>2, <1>3, <1>4, <1>5, <2>1 DEF IInv, BaseInv, TurnInv
  <2>2. CASE BlockOf[k] >= loopBlock
    <3>1. k \in stored \cup logs
      BY <1>1, <1>2, <1>3, <1>4, <1>5, <2>2 DEF IInv, BatchInv
    <3>2. ~ (k \in logs)
      BY <1>1 DEF IsFirst, Before
    <3>3. QED
      BY <3>1, <3>2
  <2>3. QED
    BY <1>1, <1>3, <2>1, <2>2
<1>6. CASE k \notin InCharge
  <2>1. stage = "back" /\ k \in KeptOld
    BY <1>6 DEF InCharge, Reached, IInv, BaseInv, StageInv
  <2>2. BlockOf[k] < frontFirst
    BY <1>1, <1>2, <1>3, <1>4, <2>1 DEF IInv, BaseInv, TurnInv
  <2>3. QED
    BY <2>1, <2>2 DEF IInv, PointerInv, Below
<1>7. QED
  BY <1>5, <1>6

\* The parser drops no log the stage is in charge of.
LEMMA InChargeParse ==
    ASSUME SourcesKept, IInv, pc = "store",
           NEW l \in Log, IsFirst(l, logs), l \in InCharge
    PROVE  Source[l] \subseteq stored
<1>1. l \in canon
  BY DEF IInv, BatchInv, IsFirst
<1>2. ASSUME NEW k \in Source[l]
      PROVE  k \in stored
  <2>1. k \in Log /\ Before(k, l) /\ k \in canon
    BY <1>1, LogAssumption DEF IInv, ChainInv, Causal
  <2>2. k \in Reached
    BY DEF SourcesKept, InCharge, Reached
  <2>3. QED
    BY <2>1, <2>2, EarlierStored
<1>3. QED
  BY <1>2

-----------------------------------------------------------------------------
LEMMA InitInv == Init => IInv
<1> SUFFICES ASSUME Init PROVE IInv
  OBVIOUS
<1> USE LogAssumption, RaceAssumption DEF Init
<1>1. BaseInv
  <2>1. MinBlock \in Nat /\ StartHeight \in Nat /\ HeightOffset \in Nat
    OBVIOUS
  <2>2. canon \subseteq Log /\ stored \subseteq Log
    BY DEF LogsIn
  <2>3. frontFirst \in Nat
    BY <2>1
  <2>4. /\ height \in Nat /\ final \in Nat /\ final <= height /\ frontSeen \in Nat
        /\ loopBlock \in Nat /\ endBlock \in Int
    BY <2>1
  <2>5. raceFirst = NoBlock /\ synced \in BOOLEAN /\ stage = "start" /\ pc = "idle" /\ logs = {}
    OBVIOUS
  <2>6. QED
    BY <2>2, <2>3, <2>4, <2>5 DEF BaseInv
<1>2. ChainInv
  <2>1. ASSUME NEW l \in canon, NEW k \in Source[l] \cup Refs[l]
        PROVE  k \in canon
    <3>1. l \in Log /\ k \in Log /\ Before(k, l) /\ BlockOf[l] <= StartHeight
      BY DEF LogsIn
    <3>2. BlockOf[k] \in Nat /\ BlockOf[k] <= BlockOf[l] /\ BlockOf[l] \in Nat
      BY <3>1 DEF Before
    <3>3. QED
      BY <3>1, <3>2 DEF LogsIn
  <2>2. QED
    BY <2>1 DEF ChainInv, Causal, LogsIn
<1>3. PointerInv
  BY DEF PointerInv, Below, KeptOld, LogsIn
<1>4. StageInv /\ TurnInv /\ BatchInv
  BY DEF StageInv, TurnInv, BatchInv
<1>5. QED
  BY <1>1, <1>2, <1>3, <1>4 DEF IInv

\* The chain only changes above its final blocks.
LEMMA ChainStep ==
    ASSUME IInv, Chain
    PROVE  /\ UNCHANGED <<stored, frontFirst, raceFirst, synced, stage, frontSeen,
                          pc, loopBlock, endBlock, logs>>
           /\ canon' \subseteq Log /\ height' \in Nat /\ final' \in Nat /\ final' <= height'
           /\ ChainInv' /\ final <= final'
           /\ \A l \in Log : BlockOf[l] <= final => (l \in canon <=> l \in canon')
<1> USE LogAssumption, RaceAssumption DEF IInv, BaseInv, ChainInv, Causal
<1>1. CASE ExtendChain
  <2> USE <1>1 DEF ExtendChain, Front!ExtendChain, Front!dbVars, Front!turnVars
  <2>1. PICK new \in SUBSET {l \in Log : BlockOf[l] = height + 1} :
            Causal(canon \cup new) /\ canon' = canon \cup new
    BY DEF Front!Causal
  <2>2. \A l \in new : l \in Log /\ BlockOf[l] = height + 1
    OBVIOUS
  <2>3. height' = height + 1 /\ final' = final /\ height + 1 - HeightOffset <= final
    OBVIOUS
  <2>4. \A l \in canon' : BlockOf[l] <= height'
    BY <2>1, <2>2, <2>3
  <2>5. Causal(canon)'
    BY <2>1
  <2>6. \A l \in Log : BlockOf[l] <= final => (l \in canon <=> l \in canon')
    BY <2>1, <2>2
  <2>7. QED
    BY <2>1, <2>2, <2>3, <2>4, <2>5, <2>6
<1>2. CASE Finalise
  BY <1>2 DEF Finalise, Front!Finalise, Front!dbVars, Front!turnVars
<1>3. CASE Reorganise
  <2> USE <1>3 DEF Reorganise, Front!Reorganise, Front!dbVars, Front!turnVars
  <2>1. PICK keep \in final .. height - 1 :
            height' = keep /\ canon' = {l \in canon : BlockOf[l] <= keep}
    OBVIOUS
  <2>2. keep \in Nat /\ final <= keep /\ final' = final /\ keep < height
    OBVIOUS
  <2>3. ASSUME NEW l \in canon', NEW k \in Source[l] \cup Refs[l]
        PROVE  k \in canon'
    <3>1. l \in canon /\ l \in Log /\ k \in Log /\ k \in canon /\ Before(k, l)
      BY <2>1
    <3>2. BlockOf[k] <= BlockOf[l] /\ BlockOf[l] <= keep
      BY <2>1, <3>1 DEF Before
    <3>3. QED
      BY <2>1, <2>2, <3>1, <3>2
  <2>4. Causal(canon)'
    BY <2>3
  <2>5. \A l \in Log : BlockOf[l] <= final => (l \in canon <=> l \in canon')
    BY <2>1, <2>2
  <2>6. \A l \in canon' : BlockOf[l] <= height'
    BY <2>1
  <2>7. QED
    BY <2>1, <2>2, <2>4, <2>5, <2>6
<1>4. QED
  BY <1>1, <1>2, <1>3 DEF Chain

\* Of the logs above them neither the pointers nor a turn under way say
\* anything.
LEMMA ChainPreserves ==
    ASSUME IInv, Chain
    PROVE  IInv'
<1>1. /\ UNCHANGED <<stored, frontFirst, raceFirst, synced, stage, frontSeen,
                     pc, loopBlock, endBlock, logs>>
      /\ canon' \subseteq Log /\ height' \in Nat /\ final' \in Nat /\ final' <= height'
      /\ ChainInv' /\ final <= final'
      /\ \A l \in Log : BlockOf[l] <= final => (l \in canon <=> l \in canon')
  BY ChainStep
<1>2. /\ final \in Nat /\ frontFirst \in Nat /\ raceFirst \in Nat \cup {NoBlock}
      /\ loopBlock \in Nat /\ endBlock \in Int /\ canon \subseteq Log /\ logs \subseteq Log
      /\ BlockOf \in [Log -> Nat]
  BY LogAssumption DEF IInv, BaseInv
<1>3. BaseInv'
  BY <1>1 DEF IInv, BaseInv
<1>4. PointerInv'
  <2>1. Below(KeptOld, frontFirst)' /\ frontFirst - 1 <= final'
    BY <1>1, <1>2 DEF IInv, PointerInv, Below
  <2>2. ASSUME raceFirst # NoBlock
        PROVE  Below(KeptDiff, raceFirst)' /\ raceFirst - 1 <= final'
    <3>1. raceFirst \in Nat /\ raceFirst - 1 <= final /\ Below(KeptDiff, raceFirst)
      BY <1>2, <2>2 DEF IInv, PointerInv
    <3>2. ASSUME NEW l \in canon' \cap KeptDiff, BlockOf[l] < raceFirst
          PROVE  l \in stored
      <4>1. l \in Log /\ BlockOf[l] \in Nat /\ BlockOf[l] <= final
        BY <1>1, <1>2, <3>1, <3>2
      <4>2. QED
        BY <1>1, <3>1, <3>2, <4>1 DEF Below
    <3>3. raceFirst' = raceFirst /\ stored' = stored
      BY <1>1
    <3>4. Below(KeptDiff, raceFirst)'
      BY <3>2, <3>3 DEF Below
    <3>5. raceFirst - 1 <= final'
      <4>1. final <= final' /\ final' \in Nat /\ final \in Nat
        BY <1>1, <1>2
      <4>2. QED
        BY <3>1, <4>1
    <3>6. QED
      BY <3>4, <3>5
  <2>3. ASSUME synced
        PROVE  Below(KeptDiff, frontFirst)'
    BY <1>1, <1>2, <2>3 DEF IInv, PointerInv, Below
  <2>4. QED
    BY <1>1, <2>1, <2>2, <2>3 DEF PointerInv, Below
<1>5. StageInv'
  BY <1>1 DEF IInv, StageInv
<1>6. TurnInv'
  <2>1. CASE pc = "idle"
    BY <1>1, <2>1 DEF TurnInv
  <2>2. CASE pc # "idle"
    <3>1. ASSUME NEW l \in canon' \cap InCharge, BlockOf[l] <= endBlock
          PROVE  l \in canon
      BY <1>1, <1>2, <2>2, <3>1 DEF IInv, TurnInv
    <3>2. InCharge' = InCharge
      BY <1>1 DEF InCharge
    <3>3. QED
      BY <1>1, <1>2, <2>2, <3>1, <3>2 DEF IInv, TurnInv
  <2>3. QED
    BY <2>1, <2>2
<1>7. BatchInv'
  <2>1. CASE pc = "store"
    <3>1. BatchEnd' = BatchEnd /\ BatchEnd \in Int /\ BatchEnd <= endBlock
      BY <1>1, <1>2, RaceAssumption DEF BatchEnd
    <3>2. endBlock <= final
      BY <2>1 DEF IInv, TurnInv
    <3>3. ASSUME NEW l \in Log, BlockOf[l] <= BatchEnd
          PROVE  l \in canon <=> l \in canon'
      BY <1>1, <1>2, <3>1, <3>2, <3>3
    <3>4. logs \subseteq canon'
      BY <1>2, <2>1, <3>3 DEF IInv, BatchInv
    <3>5. InCharge' = InCharge
      BY <1>1 DEF InCharge
    <3>6. QED
      BY <1>1, <1>2, <2>1, <3>1, <3>3, <3>4, <3>5 DEF IInv, BatchInv
  <2>2. CASE pc # "store"
    BY <1>1, <2>2 DEF IInv, BatchInv
  <2>3. QED
    BY <2>1, <2>2
<1>8. QED
  BY <1>1, <1>3, <1>4, <1>5, <1>6, <1>7 DEF IInv

-----------------------------------------------------------------------------
(* The steps of a turn, by their effect: each stage has them as those of   *)
(* its own instance of EventIndexer.                                       *)

Kept == <<chainVars, frontFirst, raceFirst, synced, stage, frontSeen, endBlock>>

\* A stage that begins has nothing fetched yet, starts where all it is in
\* charge of is stored, and ends at a final block.
LEMMA BeginPreserves ==
    ASSUME IInv, UNCHANGED <<chainVars, dbVars, logs>>, pc = "idle", pc' = "batch",
           stage' \in {"back", "front", "whole"},
           stage' = "whole" <=> synced,
           loopBlock' \in Nat, endBlock' \in Int, endBlock' <= final,
           frontSeen' \in Nat,
           stage' = "back" => endBlock' < frontFirst /\ frontSeen' = frontFirst,
           Below(InCharge', loopBlock')
    PROVE  IInv'
<1> USE DEF IInv, chainVars, dbVars
<1>1. BaseInv' /\ ChainInv' /\ PointerInv' /\ StageInv'
  BY DEF BaseInv, ChainInv, Causal, PointerInv, Below, StageInv
<1>2. TurnInv'
  BY DEF TurnInv, Below
<1>3. BatchInv'
  BY DEF BatchInv
<1>4. QED
  BY <1>1, <1>2, <1>3

LEMMA GetLogsPreserves ==
    ASSUME IInv, UNCHANGED <<Kept, stored, loopBlock>>,
           pc = "batch", pc' = "store", loopBlock <= endBlock,
           logs' = LogsIn(canon, loopBlock, BatchEnd)
    PROVE  IInv'
<1> USE LogAssumption, RaceAssumption DEF IInv, Kept, chainVars
<1>1. BaseInv' /\ ChainInv' /\ PointerInv' /\ StageInv'
  BY DEF BaseInv, ChainInv, Causal, PointerInv, Below, StageInv, LogsIn
<1>2. InCharge' = InCharge
  BY DEF InCharge
<1>3. TurnInv'
  BY <1>2 DEF TurnInv
<1>4. BatchEnd \in Int /\ BatchEnd' = BatchEnd
  BY DEF BaseInv, BatchEnd
<1>5. logs' = {l \in canon : BlockOf[l] >= loopBlock /\ BlockOf[l] <= BatchEnd}
  BY <1>4 DEF LogsIn, BaseInv
<1>6. BatchInv'
  BY <1>2, <1>4, <1>5 DEF BatchInv, BaseInv
<1>7. QED
  BY <1>1, <1>3, <1>6

\* A log leaves the batch: it is stored, was stored before, or concerns others.
LEMMA HandledPreserves ==
    ASSUME IInv, UNCHANGED <<Kept, loopBlock, pc>>, pc = "store",
           NEW l \in Log, logs' = logs \ {l},
           stored' = stored \/ stored' = stored \cup {l},
           l \in InCharge => l \in stored'
    PROVE  IInv'
<1> USE LogAssumption, RaceAssumption DEF IInv, Kept, chainVars
<1>1. BaseInv' /\ ChainInv' /\ PointerInv' /\ StageInv'
  BY DEF BaseInv, ChainInv, Causal, PointerInv, Below, StageInv
<1>2. InCharge' = InCharge /\ BatchEnd' = BatchEnd
  BY DEF InCharge, BatchEnd
<1>3. TurnInv'
  BY <1>2 DEF TurnInv
<1>4. BatchInv'
  BY <1>2 DEF BatchInv
<1>5. QED
  BY <1>1, <1>3, <1>4

\* The turn ends or is given up: the database alone counts.
LEMMA StopPreserves ==
    ASSUME IInv, UNCHANGED <<chainVars, dbVars, loopBlock, endBlock>>,
           pc' = "idle", logs' = {}, frontSeen' \in Nat,
           \/ stage' = "start"
           \/ stage' = "whole" /\ synced
           \/ stage' = "compare" /\ frontSeen' = frontFirst /\ ~synced
    PROVE  IInv'
BY DEF IInv, chainVars, dbVars, BaseInv, ChainInv, Causal, PointerInv, Below, StageInv,
       TurnInv, BatchInv

\* The pointer moves past a batch only when all of it is in the database.
LEMMA BatchDone ==
    ASSUME IInv, pc = "store", logs = {}
    PROVE  /\ BatchEnd \in Nat /\ BatchEnd <= endBlock /\ BatchEnd >= loopBlock
           /\ BatchEnd < endBlock => BatchEnd = loopBlock + BatchSize
           /\ Below(InCharge, BatchEnd + 1)
<1> USE LogAssumption, RaceAssumption DEF IInv, BaseInv
<1>1. /\ BatchEnd \in Nat /\ BatchEnd <= endBlock /\ BatchEnd >= loopBlock
      /\ BatchEnd < endBlock => BatchEnd = loopBlock + BatchSize
  BY DEF BatchEnd, BatchInv
<1>2. ASSUME NEW k \in canon \cap InCharge, BlockOf[k] < BatchEnd + 1
      PROVE  k \in stored
  <2>1. BlockOf[k] \in Nat /\ BlockOf[k] <= BatchEnd /\ BlockOf[k] <= endBlock
    BY <1>1, <1>2
  <2>2. CASE BlockOf[k] < loopBlock
    BY <2>1, <2>2 DEF TurnInv
  <2>3. CASE BlockOf[k] >= loopBlock
    BY <2>1, <2>3 DEF BatchInv
  <2>4. QED
    BY <2>1, <2>2, <2>3
<1>3. QED
  BY <1>1, <1>2 DEF Below

LEMMA PointerPreserves ==
    ASSUME IInv, UNCHANGED <<chainVars, stored, synced, stage, frontSeen, endBlock, logs>>,
           pc = "store", logs = {}, pc' = "batch",
           loopBlock' = loopBlock + BatchSize + 1,
           \/ /\ stage = "back"
              /\ raceFirst' = BatchEnd + 1 /\ frontFirst' = frontFirst
           \/ /\ stage \in {"front", "whole"}
              /\ frontFirst' = BatchEnd + 1 /\ raceFirst' = raceFirst
    PROVE  IInv'
<1> USE RaceAssumption DEF chainVars
<1>1. /\ BatchEnd \in Nat /\ BatchEnd <= endBlock /\ BatchEnd >= loopBlock
      /\ BatchEnd < endBlock => BatchEnd = loopBlock + BatchSize
      /\ Below(InCharge, BatchEnd + 1)
  BY BatchDone
<1>2. /\ endBlock <= final /\ final \in Nat /\ endBlock \in Int /\ loopBlock \in Nat
      /\ stage = "back" => endBlock < frontFirst
  BY DEF IInv, BaseInv, TurnInv
<1>3. BaseInv' /\ ChainInv' /\ StageInv'
  BY <1>1 DEF IInv, BaseInv, ChainInv, Causal, StageInv
<1>4. PointerInv'
  <2>1. CASE stage = "back"
    <3>1. /\ raceFirst' = BatchEnd + 1 /\ frontFirst' = frontFirst
          /\ raceFirst' - 1 <= final' /\ ~synced'
      BY <1>1, <1>2, <2>1 DEF IInv, StageInv
    <3>2. Below(KeptDiff, raceFirst)'
      BY <1>1, <2>1, <3>1 DEF Below, InCharge
    <3>3. QED
      BY <3>1, <3>2 DEF IInv, PointerInv, Below
  <2>2. CASE stage \in {"front", "whole"}
    <3>1. /\ frontFirst' = BatchEnd + 1 /\ raceFirst' = raceFirst
          /\ frontFirst' - 1 <= final'
      BY <1>1, <1>2, <2>2
    <3>2. Below(KeptOld, frontFirst)'
      BY <1>1, <2>2, <3>1 DEF Below, InCharge
    <3>3. synced' => Below(KeptDiff, frontFirst)'
      BY <1>1, <2>2, <3>1 DEF Below, InCharge, IInv, StageInv
    <3>4. QED
      BY <3>1, <3>2, <3>3 DEF IInv, PointerInv, Below
  <2>3. QED
    BY <2>1, <2>2
<1>5. InCharge' = InCharge
  BY DEF InCharge
<1>6. TurnInv'
  <2>1. ASSUME NEW l \in canon \cap InCharge, BlockOf[l] <= endBlock,
               BlockOf[l] < loopBlock + BatchSize + 1
        PROVE  l \in stored
    <3>1. l \in Log /\ BlockOf[l] \in Nat
      BY LogAssumption DEF IInv, BaseInv
    <3>2. BlockOf[l] < BatchEnd + 1
      BY <1>1, <1>2, <2>1, <3>1
    <3>3. QED
      BY <1>1, <3>2 DEF Below
  <2>2. stage' = "back" => endBlock' < frontFirst'
    BY <1>2
  <2>3. QED
    BY <1>2, <1>5, <2>1, <2>2 DEF TurnInv
<1>7. BatchInv'
  BY DEF BatchInv
<1>8. QED
  BY <1>3, <1>4, <1>6, <1>7 DEF IInv

-----------------------------------------------------------------------------
LEMMA BeginBackPreserves ==
    ASSUME IInv, BeginBack
    PROVE  IInv'
<1> DEFINE back == Back!FirstUnhandledBlock(StartBlock)
           limit == IF back + StepBlocks < frontFirst THEN back + StepBlocks ELSE frontFirst
<1> USE RaceAssumption
<1>1. /\ frontFirst \in Nat /\ frontFirst # NoBlock /\ pc = "idle" /\ ~synced
      /\ height \in Nat /\ final \in Nat
  BY DEF IInv, BaseInv, StageInv, BeginBack
<1>2. Front!FirstUnhandledBlock(NoBlock) = frontFirst
  BY <1>1 DEF Front!FirstUnhandledBlock
<1>3. back \in Nat /\ back # NoBlock /\ Below(KeptDiff, back)
  BY DEF Back!FirstUnhandledBlock, IInv, BaseInv, PointerInv, Below, KeptDiff, DiffStart
<1>4. limit \in Nat /\ limit <= frontFirst
  BY <1>1, <1>3
<1>5. frontSeen' = frontFirst /\ UNCHANGED <<frontFirst, synced>>
  BY <1>2 DEF BeginBack
<1>6. CASE back < frontFirst
  <2>1. Back!RunHistoric(back, limit - 1) /\ stage' = "back"
    BY <1>2, <1>6 DEF BeginBack
  <2>2. Back!FirstUnhandledBlock(back) = back
    BY DEF Back!FirstUnhandledBlock
  <2>3. /\ loopBlock' = back /\ pc' = "batch"
        /\ UNCHANGED <<chainVars, stored, raceFirst, logs>>
        /\ endBlock' = IF limit - 1 > height - HeightOffset
                       THEN height - HeightOffset ELSE limit - 1
    BY <1>1, <1>3, <1>4, <2>1, <2>2
    DEF Back!RunHistoric, Back!BeginTurn, Back!LastBlockToHandle,
        Back!chainVars, Back!dbVars, chainVars
  <2>4. endBlock' \in Int /\ endBlock' <= final /\ endBlock' < frontFirst
    BY <1>1, <1>4, <2>3 DEF IInv, ChainInv
  <2>5. Below(InCharge', loopBlock')
    BY <1>3, <2>1, <2>3 DEF InCharge, Below
  <2>6. QED
    BY <1>1, <1>3, <1>5, <2>1, <2>3, <2>4, <2>5, BeginPreserves DEF dbVars
<1>7. CASE ~ (back < frontFirst)
  <2>1. /\ stage' = "compare"
        /\ UNCHANGED <<chainVars, dbVars, turnVars>>
    BY <1>2, <1>5, <1>7 DEF BeginBack, dbVars
  <2>2. logs = {}
    BY <1>1 DEF IInv, BatchInv
  <2>3. QED
    BY <1>1, <1>5, <2>1, <2>2, StopPreserves DEF turnVars
<1>8. QED
  BY <1>6, <1>7

\* At the hand-over the new events are complete up to the front pointer,
\* which is still the one the back pass was compared with.
LEMMA SwitchPreserves ==
    ASSUME IInv, Switch
    PROVE  IInv'
<1> USE RaceAssumption DEF Switch, SwitchAt, chainVars, turnVars
<1>1. frontSeen = frontFirst /\ frontFirst \in Nat /\ pc = "idle" /\ logs = {}
  BY DEF IInv, BaseInv, StageInv, BatchInv
<1>2. Back!FirstUnhandledBlock(StartBlock) >= frontFirst
  BY <1>1
<1>3. Below(KeptDiff, frontFirst)
  <2>1. ASSUME NEW l \in canon \cap KeptDiff, BlockOf[l] < frontFirst
        PROVE  l \in stored
    <3>1. l \in Log /\ BlockOf[l] \in Nat
      BY LogAssumption DEF IInv, BaseInv
    <3>2. CASE raceFirst # NoBlock
      <4>1. raceFirst \in Nat /\ raceFirst >= frontFirst /\ Below(KeptDiff, raceFirst)
        BY <1>2, <3>2 DEF IInv, BaseInv, PointerInv, Back!FirstUnhandledBlock
      <4>2. QED
        BY <1>1, <2>1, <3>1, <4>1 DEF Below
    <3>3. CASE raceFirst = NoBlock
      <4>1. DiffStart \in Nat /\ DiffStart >= frontFirst
        BY <1>2, <3>3 DEF Back!FirstUnhandledBlock, DiffStart
      <4>2. QED
        BY <1>1, <2>1, <3>1, <4>1 DEF KeptDiff
    <3>4. QED
      BY <3>2, <3>3
  <2>2. QED
    BY <2>1 DEF Below
<1>4. BaseInv' /\ ChainInv' /\ StageInv' /\ TurnInv' /\ BatchInv'
  BY <1>1 DEF IInv, BaseInv, ChainInv, Causal, StageInv, TurnInv, BatchInv
<1>5. PointerInv'
  BY <1>3 DEF IInv, PointerInv, Below
<1>6. QED
  BY <1>4, <1>5 DEF IInv

LEMMA BeginFrontPreserves ==
    ASSUME IInv, BeginFront
    PROVE  IInv'
<1> USE RaceAssumption
<1>1. /\ frontSeen = frontFirst /\ frontFirst \in Nat /\ frontFirst # NoBlock
      /\ pc = "idle" /\ ~synced /\ logs = {} /\ height \in Nat /\ final \in Nat
  BY DEF IInv, BaseInv, StageInv, BatchInv, BeginFront
<1>2. CASE Front!LastBlockToHandle - frontSeen > NewBlocks
  <2>1. /\ Front!RunHistoric(frontFirst, frontFirst + StepBlocks) /\ stage' = "front"
        /\ UNCHANGED <<raceFirst, synced, frontSeen>>
    BY <1>1, <1>2 DEF BeginFront
  <2>2. Front!FirstUnhandledBlock(frontFirst) = frontFirst
    BY <1>1 DEF Front!FirstUnhandledBlock
  <2>3. /\ loopBlock' = frontFirst /\ pc' = "batch"
        /\ UNCHANGED <<chainVars, stored, frontFirst, logs>>
        /\ endBlock' = IF frontFirst + StepBlocks > height - HeightOffset
                       THEN height - HeightOffset ELSE frontFirst + StepBlocks
    BY <1>1, <2>1, <2>2
    DEF Front!RunHistoric, Front!BeginTurn, Front!LastBlockToHandle,
        Front!chainVars, Front!dbVars, chainVars
  <2>4. endBlock' \in Int /\ endBlock' <= final
    BY <1>1, <2>3 DEF IInv, ChainInv
  <2>5. Below(InCharge', loopBlock')
    BY <1>1, <2>1, <2>3 DEF InCharge, Below, IInv, PointerInv
  <2>6. QED
    BY <1>1, <2>1, <2>3, <2>4, <2>5, BeginPreserves DEF dbVars
<1>3. CASE ~ (Front!LastBlockToHandle - frontSeen > NewBlocks)
  BY <1>1, <1>3, StopPreserves DEF BeginFront, dbVars, turnVars
<1>4. QED
  BY <1>2, <1>3

LEMMA BackTurnPreserves ==
    ASSUME SourcesKept, IInv, BackTurn
    PROVE  IInv'
<1> USE DEF BackTurn, Back!chainVars, Back!dbVars, chainVars, dbVars, Kept
<1>1. /\ stage = "back" /\ frontSeen = frontFirst /\ ~synced /\ frontSeen \in Nat
      /\ UNCHANGED <<frontFirst, synced, frontSeen>>
      /\ Back!EndLoopBlock = BatchEnd
      /\ InCharge = KeptDiff
  BY DEF IInv, BaseInv, StageInv, Back!EndLoopBlock, BatchEnd, InCharge
<1>2. CASE Back!GetLogs /\ UNCHANGED stage
  BY <1>1, <1>2, GetLogsPreserves DEF Back!GetLogs, Back!LogsIn, LogsIn
<1>3. CASE Back!SetFirstUnhandledBlock /\ UNCHANGED stage
  BY <1>1, <1>3, PointerPreserves DEF Back!SetFirstUnhandledBlock
<1>4. ASSUME NEW l \in Log, Back!SkipLog(l), UNCHANGED stage PROVE IInv'
  <2>1. IsFirst(l, logs)
    BY <1>4 DEF Back!SkipLog, Back!IsFirst, IsFirst, Back!Before, Before
  <2>2. l \in InCharge => l \in stored
    BY <1>1, <1>4, <2>1, InChargeParse DEF Back!SkipLog, Back!Parses, Back!LogExists, KeptDiff
  <2>3. QED
    BY <1>1, <1>4, <2>2, HandledPreserves DEF Back!SkipLog
<1>5. ASSUME NEW l \in Log, Back!CommitLog(l), UNCHANGED stage PROVE IInv'
  BY <1>1, <1>5, HandledPreserves DEF Back!CommitLog
<1>6. CASE Back!EndTurn /\ stage' = "compare"
  <2>1. logs' = {}
    BY <1>6 DEF Back!EndTurn, IInv, BatchInv
  <2>2. QED
    BY <1>1, <1>6, <2>1, StopPreserves DEF Back!EndTurn
<1>7. ASSUME NEW l \in Log, Back!RejectLog(l), stage' = "start" PROVE IInv'
  BY <1>1, <1>7, StopPreserves DEF Back!RejectLog
<1>8. QED
  BY <1>2, <1>3, <1>4, <1>5, <1>6, <1>7

LEMMA FrontTurnPreserves ==
    ASSUME SourcesKept, IInv, FrontTurn
    PROVE  IInv'
<1> USE DEF FrontTurn, Front!chainVars, Front!dbVars, chainVars, dbVars, Kept
<1>1. /\ stage = "front" /\ ~synced /\ frontSeen \in Nat
      /\ UNCHANGED <<raceFirst, synced, frontSeen>>
      /\ Front!EndLoopBlock = BatchEnd
      /\ InCharge = KeptOld
  BY DEF IInv, BaseInv, StageInv, Front!EndLoopBlock, BatchEnd, InCharge
<1>2. CASE Front!GetLogs /\ UNCHANGED stage
  BY <1>1, <1>2, GetLogsPreserves DEF Front!GetLogs, Front!LogsIn, LogsIn
<1>3. CASE Front!SetFirstUnhandledBlock /\ UNCHANGED stage
  BY <1>1, <1>3, PointerPreserves DEF Front!SetFirstUnhandledBlock
<1>4. ASSUME NEW l \in Log, Front!SkipLog(l), UNCHANGED stage PROVE IInv'
  <2>1. IsFirst(l, logs)
    BY <1>4 DEF Front!SkipLog, Front!IsFirst, IsFirst, Front!Before, Before
  <2>2. l \in InCharge => l \in stored
    BY <1>1, <1>4, <2>1, InChargeParse DEF Front!SkipLog, Front!Parses, Front!LogExists, KeptOld
  <2>3. QED
    BY <1>1, <1>4, <2>2, HandledPreserves DEF Front!SkipLog
<1>5. ASSUME NEW l \in Log, Front!CommitLog(l), UNCHANGED stage PROVE IInv'
  BY <1>1, <1>5, HandledPreserves DEF Front!CommitLog
<1>6. CASE Front!EndTurn /\ stage' = "start"
  <2>1. logs' = {}
    BY <1>6 DEF Front!EndTurn, IInv, BatchInv
  <2>2. QED
    BY <1>1, <1>6, <2>1, StopPreserves DEF Front!EndTurn
<1>7. ASSUME NEW l \in Log, Front!RejectLog(l), stage' = "start" PROVE IInv'
  BY <1>1, <1>7, StopPreserves DEF Front!RejectLog
<1>8. QED
  BY <1>2, <1>3, <1>4, <1>5, <1>6, <1>7

LEMMA WholeTurnPreserves ==
    ASSUME SourcesKept, IInv, WholeTurn
    PROVE  IInv'
<1> USE DEF WholeTurn, Whole!chainVars, Whole!dbVars, chainVars, dbVars, Kept
<1>1. /\ stage = "whole" /\ stage' = "whole" /\ synced /\ frontSeen \in Nat
      /\ UNCHANGED <<raceFirst, synced, stage, frontSeen>>
      /\ Whole!EndLoopBlock = BatchEnd
      /\ InCharge = KeptOld \cup KeptDiff
  BY DEF IInv, BaseInv, StageInv, Whole!EndLoopBlock, BatchEnd, InCharge
<1>2. CASE Whole!GetLogs
  BY <1>1, <1>2, GetLogsPreserves DEF Whole!GetLogs, Whole!LogsIn, LogsIn
<1>3. CASE Whole!SetFirstUnhandledBlock
  BY <1>1, <1>3, PointerPreserves DEF Whole!SetFirstUnhandledBlock
<1>4. ASSUME NEW l \in Log, Whole!SkipLog(l) PROVE IInv'
  <2>1. IsFirst(l, logs)
    BY <1>4 DEF Whole!SkipLog, Whole!IsFirst, IsFirst, Whole!Before, Before
  <2>2. l \in InCharge => l \in stored
    BY <1>1, <1>4, <2>1, InChargeParse
    DEF Whole!SkipLog, Whole!Parses, Whole!LogExists, KeptOld, KeptDiff, All
  <2>3. QED
    BY <1>1, <1>4, <2>2, HandledPreserves DEF Whole!SkipLog
<1>5. ASSUME NEW l \in Log, Whole!CommitLog(l) PROVE IInv'
  BY <1>1, <1>5, HandledPreserves DEF Whole!CommitLog
<1>6. CASE Whole!EndTurn
  <2>1. logs' = {}
    BY <1>6 DEF Whole!EndTurn, IInv, BatchInv
  <2>2. QED
    BY <1>1, <1>6, <2>1, StopPreserves DEF Whole!EndTurn
<1>7. ASSUME NEW l \in Log, Whole!RejectLog(l) PROVE IInv'
  BY <1>1, <1>7, StopPreserves DEF Whole!RejectLog
<1>8. CASE Whole!RunHistoric(NoBlock, NoBlock)
  <2>1. /\ frontFirst \in Nat /\ frontFirst # NoBlock /\ height \in Nat /\ final \in Nat
    BY RaceAssumption DEF IInv, BaseInv
  <2>2. /\ pc = "idle" /\ pc' = "batch" /\ UNCHANGED <<chainVars, stored, frontFirst, logs>>
        /\ loopBlock' = frontFirst /\ endBlock' = height - HeightOffset
    BY <1>8, <2>1
    DEF Whole!RunHistoric, Whole!BeginTurn, Whole!LastBlockToHandle, Whole!FirstUnhandledBlock
  <2>3. endBlock' \in Int /\ endBlock' <= final
    BY <2>1, <2>2, RaceAssumption DEF IInv, ChainInv
  <2>4. Below(InCharge', loopBlock')
    BY <1>1, <2>2 DEF InCharge, Below, IInv, PointerInv
  <2>5. QED
    BY <1>1, <2>1, <2>2, <2>3, <2>4, BeginPreserves
<1>9. QED
  BY <1>2, <1>3, <1>4, <1>5, <1>6, <1>7, <1>8 DEF Whole!Turn, Whole!HandleLog

\* IInv is inductive.
LEMMA NextInv ==
    ASSUME SourcesKept, IInv, [Next]_vars
    PROVE  IInv'
<1>1. CASE Chain
  BY <1>1, ChainPreserves
<1>2. CASE AlreadySynced
  <2>1. pc = "idle" /\ logs = {} /\ frontSeen \in Nat
    BY <1>2 DEF AlreadySynced, IInv, BaseInv, StageInv, BatchInv
  <2>2. QED
    BY <1>2, <2>1, StopPreserves DEF AlreadySynced, turnVars
<1>3. CASE BeginBack
  BY <1>3, BeginBackPreserves
<1>4. CASE Switch
  BY <1>4, SwitchPreserves
<1>5. CASE BeginFront
  BY <1>5, BeginFrontPreserves
<1>6. CASE BackTurn
  BY <1>6, BackTurnPreserves
<1>7. CASE FrontTurn
  BY <1>7, FrontTurnPreserves
<1>8. CASE WholeTurn
  BY <1>8, WholeTurnPreserves
<1>9. CASE Fail
  <2>1. frontSeen \in Nat /\ (stage = "whole" => synced)
    BY DEF IInv, BaseInv, StageInv
  <2>2. QED
    BY <1>9, <2>1, StopPreserves DEF Fail
<1>10. CASE Restart
  BY <1>10, StopPreserves DEF Restart, IInv, BaseInv
<1>11. CASE UNCHANGED vars
  BY <1>11 DEF vars, chainVars, dbVars, turnVars, IInv, BaseInv, ChainInv, Causal,
     PointerInv, Below, StageInv, TurnInv, InCharge, BatchInv, BatchEnd
<1>12. QED
  BY <1>1, <1>2, <1>3, <1>4, <1>5, <1>6, <1>7, <1>8, <1>9, <1>10, <1>11 DEF Next, Run

-----------------------------------------------------------------------------
\* The invariant the two results rest on.
THEOREM Invariance ==
    ASSUME SourcesKept
    PROVE  Spec => []IInv
<1>1. Init => IInv
  BY InitInv
<1>2. IInv /\ [Next]_vars => IInv'
  BY NextInv
<1>3. QED
  BY <1>1, <1>2, PTL DEF Spec

\* Whatever the lists, the positions of the pointers and the failures, no
\* pass of a race update leaves a gap behind its pointer, and the hand-over
\* leaves none: run of indexer-parallel-race-population.ts.
THEOREM NoGap ==
    ASSUME SourcesKept
    PROVE  Spec => []RaceComplete
<1>1. IInv => RaceComplete
  <2> SUFFICES ASSUME IInv PROVE RaceComplete
    OBVIOUS
  <2>1. /\ canon \subseteq Log /\ frontFirst \in Nat
        /\ MinBlock \in Nat /\ DiffStart \in Nat
    BY RaceAssumption DEF IInv, BaseInv, DiffStart
  <2>2. ASSUME NEW n \in Nat, NEW l \in LogsIn(canon \cap Old, MinBlock, n - 1)
        PROVE  l \in canon \cap KeptOld /\ BlockOf[l] < n
    BY <2>1, LogAssumption DEF LogsIn, KeptOld
  <2>3. ASSUME NEW n \in Nat, NEW l \in LogsIn(canon \cap Diff, DiffStart, n - 1)
        PROVE  l \in canon \cap KeptDiff /\ BlockOf[l] < n
    BY <2>1, LogAssumption DEF LogsIn, KeptDiff
  <2>4. raceFirst # NoBlock => raceFirst \in Nat
    BY DEF IInv, BaseInv
  <2>5. QED
    BY <2>1, <2>2, <2>3, <2>4 DEF RaceComplete, IInv, PointerInv, Below
<1>2. QED
  BY <1>1, Invariance, PTL

\* No handler of a race update ever misses the row of another event, provided
\* both lists are closed and no new event precedes REINDEX_START_BLOCK.
THEOREM RowsInPlace ==
    ASSUME OldClosed, AllClosed, Diff \subseteq KeptDiff
    PROVE  Spec => []NoMissingRow
<1>1. ASSUME NEW l \in All, NEW k \in Source[l] \cup Refs[l]
      PROVE  k \in KeptOld \cup KeptDiff /\ (l \in Old => k \in KeptOld)
  BY <1>1 DEF OldClosed, AllClosed, All, KeptOld
<1>2. SourcesKept
  BY <1>1 DEF SourcesKept, KeptOld, KeptDiff, All
<1>3. IInv => NoMissingRow
  <2> SUFFICES ASSUME IInv, NEW l \in logs, IsFirst(l, logs)
               PROVE  \/ stage = "back" /\ (Back!Parses(l) => Refs[l] \subseteq stored)
                      \/ stage = "front" /\ (Front!Parses(l) => Refs[l] \subseteq stored)
                      \/ stage = "whole" /\ (Whole!Parses(l) => Refs[l] \subseteq stored)
    BY DEF NoMissingRow
  <2>1. pc = "store" /\ l \in Log /\ l \in canon /\ stage \in {"back", "front", "whole"}
    BY DEF IInv, BaseInv, BatchInv, StageInv
  <2>2. ASSUME l \in All, stage = "front" => l \in Old
        PROVE  Refs[l] \subseteq stored
    <3>1. ASSUME NEW k \in Refs[l] PROVE k \in stored
      <4>1. Before(k, l) /\ k \in canon
        BY <2>1, LogAssumption DEF IInv, ChainInv, Causal
      <4>2. k \in Reached
        BY <1>1, <2>2 DEF Reached
      <4>3. QED
        BY <2>1, <4>1, <4>2, EarlierStored
    <3>2. QED
      BY <3>1
  <2>3. QED
    BY <2>1, <2>2 DEF Back!Parses, Front!Parses, Whole!Parses, All
<1>4. QED
  BY <1>2, <1>3, Invariance, PTL

-----------------------------------------------------------------------------
(* The two ledgers.                                                        *)

Settled(S) == LogsIn(canon \cap S, 0, final)

\* The chain only appends to the settled logs.
LEMMA ChainSettles ==
    ASSUME IInv, Chain, NEW S \in SUBSET Log
    PROVE  /\ Settled(S) \subseteq Settled(S)'
           /\ \A k \in Settled(S) : \A l \in Settled(S)' \ Settled(S) : Before(k, l)
           /\ stored' = stored
<1>1. /\ stored' = stored /\ final <= final' /\ canon' \subseteq Log
      /\ \A l \in Log : BlockOf[l] <= final => (l \in canon <=> l \in canon')
      /\ final \in Nat /\ final' \in Nat /\ canon \subseteq Log /\ BlockOf \in [Log -> Nat]
  BY ChainStep, LogAssumption DEF IInv, BaseInv
<1>2. Settled(S) \subseteq Settled(S)'
  BY <1>1 DEF Settled, LogsIn
<1>3. ASSUME NEW k \in Settled(S), NEW l \in Settled(S)' \ Settled(S)
      PROVE  Before(k, l)
  <2>1. k \in Log /\ BlockOf[k] <= final /\ l \in Log /\ ~(BlockOf[l] <= final)
    BY <1>1, <1>3 DEF Settled, LogsIn
  <2>2. QED
    BY <1>1, <2>1 DEF Before
<1>4. QED
  BY <1>1, <1>2, <1>3

\* A log the stage at work commits.
Commits(l) ==
    \/ stage = "back" /\ Back!CommitLog(l)
    \/ stage = "front" /\ Front!CommitLog(l)
    \/ stage = "whole" /\ Whole!CommitLog(l)

\* A commit appends a log to the ledger it belongs to: every earlier log of
\* that ledger is in it.
LEMMA CommitRecords ==
    ASSUME IInv, NEW l \in Log, Commits(l),
           NEW S \in {KeptOld, KeptDiff}, l \in S
    PROVE  /\ l \in Settled(S) /\ l \notin stored
           /\ \A k \in Settled(S) : Before(k, l) => k \in stored
<1>1. /\ pc = "store" /\ IsFirst(l, logs) /\ l \in logs /\ l \notin stored
      /\ stage = "back" => l \in Diff
      /\ stage = "front" => l \in Old
  BY DEF Commits, Back!CommitLog, Front!CommitLog, Whole!CommitLog,
         Back!IsFirst, Front!IsFirst, Whole!IsFirst, IsFirst,
         Back!Before, Front!Before, Whole!Before, Before,
         Back!Parses, Front!Parses, Whole!Parses,
         Back!LogExists, Front!LogExists, Whole!LogExists
<1>2. l \in Settled(S)
  <2>1. l \in canon /\ BlockOf[l] <= BatchEnd /\ endBlock <= final
    BY <1>1 DEF IInv, BatchInv, TurnInv
  <2>2. /\ BatchEnd \in Int /\ BatchEnd <= endBlock /\ endBlock \in Int /\ final \in Nat
        /\ BlockOf[l] \in Nat
    BY RaceAssumption, LogAssumption DEF BatchEnd, IInv, BaseInv
  <2>3. QED
    BY <2>1, <2>2 DEF Settled, LogsIn
<1>3. ASSUME NEW k \in Settled(S), Before(k, l)
      PROVE  k \in stored
  <2>1. k \in canon /\ k \in S
    BY DEF Settled, LogsIn
  <2>2. stage = "front" => S = KeptOld
    BY <1>1, RaceAssumption DEF KeptOld, KeptDiff
  <2>3. k \in Reached
    BY <2>1, <2>2 DEF Reached
  <2>4. QED
    BY <1>1, <1>3, <2>1, <2>3, EarlierStored
<1>4. QED
  BY <1>1, <1>2, <1>3

\* Nothing else touches a ledger.
LEMMA OtherSteps ==
    ASSUME [Next]_vars, ~Chain, \A l \in Log : ~Commits(l)
    PROVE  UNCHANGED <<canon, final, stored>>
<1> USE DEF chainVars, dbVars, turnVars
<1>1. CASE AlreadySynced \/ Switch \/ Fail \/ Restart \/ UNCHANGED vars
  BY <1>1 DEF AlreadySynced, Switch, SwitchAt, Fail, Restart, vars
<1>2. CASE BeginBack
  BY <1>2 DEF BeginBack, Back!RunHistoric, Back!BeginTurn, Back!chainVars, Back!dbVars
<1>3. CASE BeginFront
  BY <1>3 DEF BeginFront, Front!RunHistoric, Front!BeginTurn, Front!chainVars, Front!dbVars
<1>4. CASE BackTurn
  BY <1>4 DEF BackTurn, Commits, Back!GetLogs, Back!SetFirstUnhandledBlock, Back!SkipLog,
     Back!EndTurn, Back!RejectLog, Back!chainVars, Back!dbVars
<1>5. CASE FrontTurn
  BY <1>5 DEF FrontTurn, Commits, Front!GetLogs, Front!SetFirstUnhandledBlock, Front!SkipLog,
     Front!EndTurn, Front!RejectLog, Front!chainVars, Front!dbVars
<1>6. CASE WholeTurn
  BY <1>6 DEF WholeTurn, Commits, Whole!Turn, Whole!HandleLog, Whole!RunHistoric,
     Whole!BeginTurn, Whole!GetLogs, Whole!SetFirstUnhandledBlock, Whole!SkipLog,
     Whole!EndTurn, Whole!RejectLog, Whole!chainVars, Whole!dbVars
<1>7. QED
  BY <1>1, <1>2, <1>3, <1>4, <1>5, <1>6 DEF Next, Run

LEMMA CommitChanges ==
    ASSUME NEW l \in Log, Commits(l)
    PROVE  stored' = stored \cup {l} /\ canon' = canon /\ final' = final
BY DEF Commits, Back!CommitLog, Front!CommitLog, Whole!CommitLog,
       Back!chainVars, Front!chainVars, Whole!chainVars

\* Every step settles logs at the end of a ledger, records the next of them,
\* or leaves the ledger alone.
LEMMA LedgerStep ==
    ASSUME IInv, [Next]_vars, NEW S \in {KeptOld, KeptDiff}
    PROVE  \/ /\ Settled(S) \subseteq Settled(S)'
              /\ \A k \in Settled(S) : \A l \in Settled(S)' \ Settled(S) : Before(k, l)
              /\ (stored \cap S)' = stored \cap S
           \/ \E l \in Log :
                 /\ l \in Settled(S) \ (stored \cap S)
                 /\ \A k \in Settled(S) : Before(k, l) => k \in stored \cap S
                 /\ (stored \cap S)' = (stored \cap S) \cup {l}
                 /\ Settled(S)' = Settled(S)
<1>1. S \in SUBSET Log /\ S' = S
  BY RaceAssumption DEF KeptOld, KeptDiff
<1>2. CASE Chain
  BY <1>1, <1>2, ChainSettles
<1>3. ASSUME UNCHANGED <<canon, final>>
      PROVE  Settled(S)' = Settled(S)
  BY <1>1, <1>3 DEF Settled, LogsIn
<1>4. ASSUME NEW l \in Log, Commits(l), l \in S
      PROVE  /\ l \in Settled(S) \ (stored \cap S)
             /\ \A k \in Settled(S) : Before(k, l) => k \in stored \cap S
             /\ (stored \cap S)' = (stored \cap S) \cup {l}
             /\ Settled(S)' = Settled(S)
  <2>1. \A k \in Settled(S) : k \in S
    BY DEF Settled, LogsIn
  <2>2. QED
    BY <1>1, <1>3, <1>4, <2>1, CommitChanges, CommitRecords
<1>5. ASSUME NEW l \in Log, Commits(l), l \notin S
      PROVE  (stored \cap S)' = stored \cap S /\ Settled(S)' = Settled(S)
  BY <1>1, <1>3, <1>5, CommitChanges
<1>6. CASE ~Chain /\ \A l \in Log : ~Commits(l)
  <2>1. stored' = stored /\ Settled(S)' = Settled(S)
    BY <1>3, <1>6, OtherSteps
  <2>2. QED
    BY <1>1, <2>1
<1>7. QED
  BY <1>2, <1>4, <1>5, <1>6

\* A race update implements two ledgers, one of the old events and one of the
\* new: each log is recorded once, in the order of the chain and when it is
\* final, by whichever of the three indexers meets it (run of
\* indexer-parallel-race-population.ts).
THEOREM ImplementsLedgers ==
    ASSUME SourcesKept
    PROVE  Spec => LedgersKept
<1>1. Init => OldLedger!Prefix /\ NewLedger!Prefix
  <2> SUFFICES ASSUME Init PROVE OldLedger!Prefix /\ NewLedger!Prefix
    OBVIOUS
  <2> USE LogAssumption, RaceAssumption
  <2>1. stored \cap KeptDiff = {}
    BY DEF Init, LogsIn, KeptDiff
  <2>2. /\ \A l \in stored : l \in canon /\ l \in Old /\ BlockOf[l] < frontFirst
        /\ \A l \in canon \cap KeptOld : BlockOf[l] < frontFirst => l \in stored
        /\ \A l \in canon : BlockOf[l] \in 0 .. final
        /\ frontFirst \in Int
    BY DEF Init, LogsIn, KeptOld
  <2>3. stored \cap KeptOld \subseteq LogsIn(canon \cap KeptOld, 0, final)
    BY <2>2 DEF LogsIn
  <2>4. ASSUME NEW l \in stored \cap KeptOld, NEW k \in LogsIn(canon \cap KeptOld, 0, final),
               Before(k, l)
        PROVE  k \in stored \cap KeptOld
    BY <2>2, <2>4 DEF LogsIn, Before, KeptOld
  <2>5. QED
    BY <2>1, <2>3, <2>4 DEF OldLedger!Prefix, NewLedger!Prefix, OldLedger!Before, Before
<1>2. IInv /\ [Next]_vars => [OldLedger!LedgerNext]_<<LogsIn(canon \cap KeptOld, 0, final),
                                                     stored \cap KeptOld>>
  BY LedgerStep
  DEF Settled, OldLedger!LedgerNext, OldLedger!Settle, OldLedger!Record, OldLedger!Before, Before
<1>3. IInv /\ [Next]_vars => [NewLedger!LedgerNext]_<<LogsIn(canon \cap KeptDiff, 0, final),
                                                     stored \cap KeptDiff>>
  BY LedgerStep
  DEF Settled, NewLedger!LedgerNext, NewLedger!Settle, NewLedger!Record, NewLedger!Before, Before
<1>4. QED
  BY <1>1, <1>2, <1>3, Invariance, PTL
  DEF Spec, LedgersKept, OldLedger!ResumedSpec, NewLedger!ResumedSpec
=============================================================================
