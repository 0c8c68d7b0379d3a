------------------------- MODULE BackReindexProofs -------------------------
(***************************************************************************)
(* Proofs about BackReindex, for every chain, every list of old and new    *)
(* events and every position of the main pointer at the deployment: the    *)
(* two passes leave no gap between them, and none remains at the end.      *)
(***************************************************************************)
EXTENDS BackReindex, TLAPS

(***************************************************************************)
(* The inductive invariant.  The block of the hand-over divides the new    *)
(* events: those below it are the back indexer's, the others are the main  *)
(* one's, with the old events.  A turn has handled what its stage is in    *)
(* charge of below its batch, and holds what the batch still lacks.  The   *)
(* back indexer also scans the hand-over's block, which may not be final   *)
(* and owes nothing: the chain may change under that part of its batch.    *)
(***************************************************************************)
Below(S, n) == \A l \in canon \cap S : BlockOf[l] < n => l \in stored

BackPart == {l \in KeptDiff : BlockOf[l] < handover}
MainPart == KeptOld \cup {l \in Diff : BlockOf[l] >= handover}

InCharge ==
    {l \in BackPart : stage = "back"} \cup {l \in MainPart : stage \in {"main", "whole"}}

BatchEnd == IF loopBlock + BatchSize < endBlock THEN loopBlock + BatchSize ELSE endBlock

BaseInv ==
    /\ canon \subseteq Log /\ stored \subseteq Log /\ logs \subseteq Log
    /\ height \in Nat /\ final \in Nat /\ final <= height
    /\ mainFirst \in Nat /\ handover \in Nat
    /\ backFirst \in Nat \cup {NoBlock} /\ backLast \in {NoBlock, handover}
    /\ stage \in {"start", "back", "between", "main", "whole"}
    /\ pc \in {"idle", "batch", "store"}
    /\ loopBlock \in Nat /\ endBlock \in Int

ChainInv ==
    /\ height - HeightOffset <= final
    /\ \A l \in canon : BlockOf[l] <= height
    /\ Causal(canon)

PointerInv ==
    /\ handover <= mainFirst /\ mainFirst - 1 <= final
    /\ backLast = NoBlock => mainFirst = handover
    /\ Below(MainPart, mainFirst)
    /\ backFirst # NoBlock => Below(BackPart, backFirst)
    /\ stage = "whole" => Below(BackPart, handover)

StageInv ==
    /\ stage \in {"start", "between"} => pc = "idle"
    /\ stage # "start" => backLast = handover

TurnInv ==
    pc # "idle" =>
        /\ IF stage = "back" THEN endBlock <= handover ELSE endBlock <= final
        /\ stage # "back" => mainFirst <= loopBlock
        /\ \A l \in canon \cap InCharge :
               BlockOf[l] < loopBlock /\ BlockOf[l] <= endBlock => l \in stored

BatchInv ==
    IF pc = "store"
    THEN /\ loopBlock <= endBlock
         /\ logs \cap InCharge \subseteq canon
         /\ \A l \in logs : BlockOf[l] >= loopBlock /\ BlockOf[l] <= BatchEnd
         /\ \A l \in canon \cap InCharge :
                BlockOf[l] >= loopBlock /\ BlockOf[l] <= BatchEnd
                    => l \in stored \cup logs
    ELSE logs = {}

IInv == BaseInv /\ ChainInv /\ PointerInv /\ StageInv /\ TurnInv /\ BatchInv

-----------------------------------------------------------------------------
\* Every log of the stage that is earlier than the next of the batch is
\* stored.
LEMMA EarlierInCharge ==
    ASSUME IInv, pc = "store",
           NEW l \in Log, IsFirst(l, logs),
           NEW k \in canon \cap InCharge, Before(k, l)
    PROVE  k \in stored
<1>1. BlockOf[k] \in Nat /\ BlockOf[l] \in Nat /\ IndexOf[k] \in Nat /\ IndexOf[l] \in Nat
  BY LogAssumption DEF IInv, BaseInv
<1>2. BlockOf[k] <= BlockOf[l]
  BY <1>1 DEF Before
<1>3. BatchEnd \in Int /\ BatchEnd <= endBlock /\ loopBlock \in Nat
  BY BackAssumption DEF IInv, BaseInv, BatchInv, BatchEnd
<1>4. l \in logs /\ BlockOf[l] <= BatchEnd
  BY DEF IInv, BatchInv, IsFirst
<1>5. CASE BlockOf[k] < loopBlock
  BY <1>1, <1>2, <1>3, <1>4, <1>5 DEF IInv, BaseInv, TurnInv
<1>6. CASE BlockOf[k] >= loopBlock
  <2>1. k \in stored \cup logs
    BY <1>1, <1>2, <1>3, <1>4, <1>6 DEF IInv, BatchInv
  <2>2. ~ (k \in logs)
    BY <1>1 DEF IsFirst, Before
  <2>3. QED
    BY <2>1, <2>2
<1>7. QED
  BY <1>1, <1>3, <1>5, <1>6

\* So is every old one: the back indexer stays below the main one.
LEMMA EarlierStored ==
    ASSUME IInv, pc = "store",
           NEW l \in Log, IsFirst(l, logs), l \in InCharge,
           NEW k \in canon \cap KeptOld, Before(k, l)
    PROVE  k \in stored
<1>1. BlockOf[k] \in Nat /\ BlockOf[l] \in Nat /\ BlockOf[k] <= BlockOf[l]
  BY LogAssumption DEF IInv, BaseInv, Before
<1>2. CASE stage \in {"main", "whole"}
  <2>1. k \in InCharge
    BY <1>2 DEF InCharge, MainPart
  <2>2. QED
    BY <2>1, EarlierInCharge
<1>3. CASE stage = "back"
  <2>1. BlockOf[l] < handover /\ handover <= mainFirst /\ handover \in Nat /\ mainFirst \in Nat
    BY <1>3 DEF InCharge, BackPart, IInv, BaseInv, PointerInv
  <2>2. BlockOf[k] < mainFirst /\ k \in MainPart
    BY <1>1, <2>1 DEF MainPart
  <2>3. QED
    BY <2>2 DEF IInv, PointerInv, Below
<1>4. QED
  BY <1>2, <1>3 DEF InCharge

\* The parser drops no log the stage is in charge of.
LEMMA InChargeParse ==
    ASSUME SourcesKept, IInv, pc = "store",
           NEW l \in Log, IsFirst(l, logs), l \in InCharge
    PROVE  Source[l] \subseteq stored
<1>1. l \in canon
  BY DEF IInv, BatchInv, IsFirst
<1>2. ASSUME NEW k \in Source[l]
      PROVE  k \in stored
  <2>1. k \in Log /\ Before(k, l) /\ k \in canon
    BY <1>1, LogAssumption DEF IInv, ChainInv, Causal
  <2>2. k \in KeptOld
    BY DEF SourcesKept, InCharge, BackPart, MainPart, KeptDiff
  <2>3. QED
    BY <2>1, <2>2, EarlierStored
<1>3. QED
  BY <1>2

-----------------------------------------------------------------------------
LEMMA InitInv == Init => IInv
<1> SUFFICES ASSUME Init PROVE IInv
  OBVIOUS
<1> USE LogAssumption, BackAssumption DEF Init
<1>1. BaseInv
  <2>1. MinBlock \in Nat /\ StartHeight \in Nat /\ HeightOffset \in Nat
    OBVIOUS
  <2>2. canon \subseteq Log /\ stored \subseteq Log
    BY DEF LogsIn
  <2>3. mainFirst \in Nat /\ handover \in Nat
    BY <2>1
  <2>4. /\ height \in Nat /\ final \in Nat /\ final <= height
        /\ loopBlock \in Nat /\ endBlock \in Int
    BY <2>1
  <2>5. backFirst = NoBlock /\ backLast = NoBlock /\ stage = "start" /\ pc = "idle" /\ logs = {}
    OBVIOUS
  <2>6. QED
    BY <2>2, <2>3, <2>4, <2>5 DEF BaseInv
<1>2. ChainInv
  <2>1. ASSUME NEW l \in canon, NEW k \in Source[l] \cup Refs[l]
        PROVE  k \in canon
    <3>1. l \in Log /\ k \in Log /\ Before(k, l) /\ BlockOf[l] <= StartHeight
      BY DEF LogsIn
    <3>2. BlockOf[k] \in Nat /\ BlockOf[k] <= BlockOf[l] /\ BlockOf[l] \in Nat
      BY <3>1 DEF Before
    <3>3. QED
      BY <3>1, <3>2 DEF LogsIn
  <2>2. QED
    BY <2>1 DEF ChainInv, Causal, LogsIn
<1>3. PointerInv
  BY DEF PointerInv, Below, MainPart, KeptOld, LogsIn
<1>4. StageInv /\ TurnInv /\ BatchInv
  BY DEF StageInv, TurnInv, BatchInv
<1>5. QED
  BY <1>1, <1>2, <1>3, <1>4 DEF IInv

\* The chain only changes above its final blocks.
LEMMA ChainStep ==
    ASSUME IInv, Chain
    PROVE  /\ UNCHANGED <<stored, mainFirst, backFirst, backLast, handover, stage,
                          pc, loopBlock, endBlock, logs>>
           /\ canon' \subseteq Log /\ height' \in Nat /\ final' \in Nat /\ final' <= height'
           /\ ChainInv' /\ final <= final'
           /\ \A l \in Log : BlockOf[l] <= final => (l \in canon <=> l \in canon')
<1> USE LogAssumption, BackAssumption DEF IInv, BaseInv, ChainInv, Causal
<1>1. CASE ExtendChain
  <2> USE <1>1 DEF ExtendChain, Main!ExtendChain, Main!dbVars, Main!turnVars
  <2>1. PICK new \in SUBSET {l \in Log : BlockOf[l] = height + 1} :
            Causal(canon \cup new) /\ canon' = canon \cup new
    BY DEF Main!Causal
  <2>2. \A l \in new : l \in Log /\ BlockOf[l] = height + 1
    OBVIOUS
  <2>3. height' = height + 1 /\ final' = final /\ height + 1 - HeightOffset <= final
    OBVIOUS
  <2>4. \A l \in canon' : BlockOf[l] <= height'
    BY <2>1, <2>2, <2>3
  <2>5. Causal(canon)'
    BY <2>1
  <2>6. \A l \in Log : BlockOf[l] <= final => (l \in canon <=> l \in canon')
    BY <2>1, <2>2
  <2>7. QED
    BY <2>1, <2>2, <2>3, <2>4, <2>5, <2>6
<1>2. CASE Finalise
  BY <1>2 DEF Finalise, Main!Finalise, Main!dbVars, Main!turnVars
<1>3. CASE Reorganise
  <2> USE <1>3 DEF Reorganise, Main!Reorganise, Main!dbVars, Main!turnVars
  <2>1. PICK keep \in final .. height - 1 :
            height' = keep /\ canon' = {l \in canon : BlockOf[l] <= keep}
    OBVIOUS
  <2>2. keep \in Nat /\ final <= keep /\ final' = final /\ keep < height
    OBVIOUS
  <2>3. ASSUME NEW l \in canon', NEW k \in Source[l] \cup Refs[l]
        PROVE  k \in canon'
    <3>1. l \in canon /\ l \in Log /\ k \in Log /\ k \in canon /\ Before(k, l)
      BY <2>1
    <3>2. BlockOf[k] <= BlockOf[l] /\ BlockOf[l] <= keep
      BY <2>1, <3>1 DEF Before
    <3>3. QED
      BY <2>1, <2>2, <3>1, <3>2
  <2>4. Causal(canon)'
    BY <2>3
  <2>5. \A l \in Log : BlockOf[l] <= final => (l \in canon <=> l \in canon')
    BY <2>1, <2>2
  <2>6. \A l \in canon' : BlockOf[l] <= height'
    BY <2>1
  <2>7. QED
    BY <2>1, <2>2, <2>4, <2>5, <2>6
<1>4. QED
  BY <1>1, <1>2, <1>3 DEF Chain

\* Of the logs there neither the pointers nor a turn under way say anything.
LEMMA ChainPreserves ==
    ASSUME IInv, Chain
    PROVE  IInv'
<1>1. /\ UNCHANGED <<stored, mainFirst, backFirst, backLast, handover, stage,
                     pc, loopBlock, endBlock, logs>>
      /\ canon' \subseteq Log /\ height' \in Nat /\ final' \in Nat /\ final' <= height'
      /\ ChainInv' /\ final <= final'
      /\ \A l \in Log : BlockOf[l] <= final => (l \in canon <=> l \in canon')
  BY ChainStep
<1>2. /\ final \in Nat /\ mainFirst \in Nat /\ handover \in Nat
      /\ loopBlock \in Nat /\ endBlock \in Int /\ canon \subseteq Log /\ logs \subseteq Log
      /\ BlockOf \in [Log -> Nat]
      /\ handover <= mainFirst /\ mainFirst - 1 <= final
  BY LogAssumption DEF IInv, BaseInv, PointerInv
<1>3. BaseInv'
  BY <1>1 DEF IInv, BaseInv
<1>4. BackPart' = BackPart /\ MainPart' = MainPart /\ InCharge' = InCharge
  BY <1>1 DEF BackPart, MainPart, InCharge
<1>5. PointerInv'
  <2>1. /\ handover' <= mainFirst' /\ mainFirst' - 1 <= final'
        /\ backLast' = NoBlock => mainFirst' = handover'
    <3>1. mainFirst' = mainFirst /\ handover' = handover /\ backLast' = backLast
      BY <1>1
    <3>2. final <= final' /\ final' \in Nat /\ final \in Nat /\ mainFirst \in Nat
      BY <1>1, <1>2
    <3>3. mainFirst - 1 <= final
      BY <1>2
    <3>4. mainFirst - 1 <= final'
      BY <3>2, <3>3
    <3>5. QED
      BY <3>1, <3>4 DEF IInv, PointerInv
  <2>2. Below(MainPart, mainFirst)'
    BY <1>1, <1>2, <1>4 DEF IInv, PointerInv, Below
  <2>3. ASSUME NEW l \in canon' \cap BackPart
        PROVE  l \in canon
    <3>1. l \in Log /\ BlockOf[l] \in Nat /\ BlockOf[l] < handover
      BY <1>1, <1>2, <2>3 DEF BackPart
    <3>2. BlockOf[l] <= final
      BY <1>2, <3>1
    <3>3. QED
      BY <1>1, <2>3, <3>1, <3>2
  <2>4. backFirst' # NoBlock => Below(BackPart, backFirst)'
    BY <1>1, <1>4, <2>3 DEF IInv, PointerInv, Below
  <2>5. stage' = "whole" => Below(BackPart, handover)'
    BY <1>1, <1>4, <2>3 DEF IInv, PointerInv, Below
  <2>6. QED
    BY <2>1, <2>2, <2>4, <2>5 DEF PointerInv
<1>6. StageInv'
  BY <1>1 DEF IInv, StageInv
<1>7. ASSUME pc # "idle", NEW l \in Log, l \in InCharge, BlockOf[l] <= endBlock
      PROVE  l \in canon <=> l \in canon'
  <2>1. BlockOf[l] \in Nat
    BY <1>2
  <2>2. BlockOf[l] <= final
    <3>1. CASE stage = "back"
      <4>1. BlockOf[l] < handover
        BY <1>7, <3>1 DEF InCharge, BackPart
      <4>2. QED
        BY <1>2, <2>1, <4>1
    <3>2. CASE stage # "back"
      <4>1. endBlock <= final
        BY <1>7, <3>2 DEF IInv, TurnInv
      <4>2. QED
        BY <1>2, <1>7, <2>1, <4>1
    <3>3. QED
      BY <3>1, <3>2
  <2>3. QED
    BY <1>1, <2>2
<1>8. TurnInv'
  <2>1. CASE pc = "idle"
    BY <1>1, <2>1 DEF TurnInv
  <2>2. CASE pc # "idle"
    <3>1. /\ IF stage' = "back" THEN endBlock' <= handover' ELSE endBlock' <= final'
          /\ stage' # "back" => mainFirst' <= loopBlock'
      BY <1>1, <1>2, <2>2 DEF IInv, TurnInv
    <3>2. ASSUME NEW l \in canon' \cap InCharge, BlockOf[l] < loopBlock, BlockOf[l] <= endBlock
          PROVE  l \in stored
      <4>1. l \in canon
        BY <1>1, <1>7, <2>2, <3>2
      <4>2. QED
        BY <2>2, <3>2, <4>1 DEF IInv, TurnInv
    <3>3. QED
      BY <1>1, <1>4, <3>1, <3>2 DEF TurnInv
  <2>3. QED
    BY <2>1, <2>2
<1>9. BatchInv'
  <2>1. CASE pc = "store"
    <3>1. BatchEnd' = BatchEnd /\ BatchEnd \in Int /\ BatchEnd <= endBlock
      BY <1>1, <1>2, BackAssumption DEF BatchEnd
    <3>2. ASSUME NEW l \in Log, l \in InCharge, BlockOf[l] <= BatchEnd
          PROVE  l \in canon <=> l \in canon'
      <4>1. BlockOf[l] \in Nat /\ BlockOf[l] <= endBlock
        BY <1>2, <3>1, <3>2
      <4>2. QED
        BY <1>7, <2>1, <3>2, <4>1
    <3>3. logs \cap InCharge \subseteq canon'
      BY <1>2, <2>1, <3>2 DEF IInv, BatchInv
    <3>4. ASSUME NEW l \in canon' \cap InCharge, BlockOf[l] >= loopBlock, BlockOf[l] <= BatchEnd
          PROVE  l \in stored \cup logs
      BY <1>1, <2>1, <3>2, <3>4 DEF IInv, BatchInv
    <3>5. QED
      BY <1>1, <1>4, <2>1, <3>1, <3>3, <3>4 DEF IInv, BatchInv
  <2>2. CASE pc # "store"
    BY <1>1, <2>2 DEF IInv, BatchInv
  <2>3. QED
    BY <2>1, <2>2
<1>10. QED
  BY <1>1, <1>3, <1>5, <1>6, <1>8, <1>9 DEF IInv

-----------------------------------------------------------------------------
(* The steps of a turn, by their effect: each stage has them as those of   *)
(* its own instance of EventIndexer.                                       *)

Kept == <<chainVars, mainFirst, backFirst, backLast, handover, stage, endBlock>>

\* A stage that begins has nothing fetched yet and starts where all it is in
\* charge of is stored.
LEMMA BeginPreserves ==
    ASSUME IInv, UNCHANGED <<chainVars, stored, mainFirst, backFirst, handover, logs>>,
           pc = "idle", pc' = "batch", backLast' = handover,
           stage' \in {"back", "main", "whole"}, stage' = "whole" => stage = "whole",
           loopBlock' \in Nat, endBlock' \in Int,
           IF stage' = "back" THEN endBlock' <= handover ELSE endBlock' <= final,
           stage' # "back" => loopBlock' = mainFirst,
           Below(InCharge', loopBlock')
    PROVE  IInv'
<1> USE DEF IInv, chainVars
<1>1. BaseInv' /\ ChainInv' /\ StageInv'
  BY DEF BaseInv, ChainInv, Causal, StageInv
<1>2. BackPart' = BackPart /\ MainPart' = MainPart
  BY DEF BackPart, MainPart
<1>3. PointerInv'
  BY <1>2 DEF PointerInv, Below, BaseInv
<1>4. TurnInv'
  BY DEF TurnInv, Below, BaseInv
<1>5. BatchInv'
  BY DEF BatchInv
<1>6. QED
  BY <1>1, <1>3, <1>4, <1>5

LEMMA GetLogsPreserves ==
    ASSUME IInv, UNCHANGED <<Kept, stored, loopBlock>>,
           pc = "batch", pc' = "store", loopBlock <= endBlock,
           logs' = LogsIn(canon, loopBlock, BatchEnd)
    PROVE  IInv'
<1> USE LogAssumption, BackAssumption DEF IInv, Kept, chainVars
<1>1. BaseInv' /\ ChainInv' /\ StageInv'
  BY DEF BaseInv, ChainInv, Causal, StageInv, LogsIn
<1>2. BackPart' = BackPart /\ MainPart' = MainPart /\ InCharge' = InCharge
  BY DEF BackPart, MainPart, InCharge
<1>3. PointerInv' /\ TurnInv'
  BY <1>2 DEF PointerInv, Below, TurnInv
<1>4. BatchEnd \in Int /\ BatchEnd' = BatchEnd
  BY DEF BaseInv, BatchEnd
<1>5. logs' = {l \in canon : BlockOf[l] >= loopBlock /\ BlockOf[l] <= BatchEnd}
  BY <1>4 DEF LogsIn, BaseInv
<1>6. BatchInv'
  BY <1>2, <1>4, <1>5 DEF BatchInv, BaseInv
<1>7. QED
  BY <1>1, <1>3, <1>6

\* A log leaves the batch: it is stored, was stored before, or concerns others.
LEMMA HandledPreserves ==
    ASSUME IInv, UNCHANGED <<Kept, loopBlock, pc>>, pc = "store",
           NEW l \in Log, logs' = logs \ {l},
           stored' = stored \/ stored' = stored \cup {l},
           l \in InCharge => l \in stored'
    PROVE  IInv'
<1> USE LogAssumption, BackAssumption DEF IInv, Kept, chainVars
<1>1. BaseInv' /\ ChainInv' /\ StageInv'
  BY DEF BaseInv, ChainInv, Causal, StageInv
<1>2. /\ BackPart' = BackPart /\ MainPart' = MainPart
      /\ InCharge' = InCharge /\ BatchEnd' = BatchEnd
  BY DEF BackPart, MainPart, InCharge, BatchEnd
<1>3. PointerInv'
  BY <1>2 DEF PointerInv, Below
<1>4. TurnInv'
  BY <1>2 DEF TurnInv
<1>5. BatchInv'
  BY <1>2 DEF BatchInv
<1>6. QED
  BY <1>1, <1>3, <1>4, <1>5

\* The turn ends or is given up: the database alone counts.
LEMMA StopPreserves ==
    ASSUME IInv, UNCHANGED <<chainVars, stored, mainFirst, backFirst, loopBlock, endBlock, handover>>,
           pc' = "idle", logs' = {},
           \/ stage' = "start" /\ backLast' = backLast
           \/ stage' = "whole" /\ backLast' = handover /\ Below(BackPart, handover)
           \/ stage' = "between" /\ backLast' = handover
    PROVE  IInv'
<1>1. BackPart' = BackPart /\ MainPart' = MainPart
  BY DEF BackPart, MainPart
<1>2. PointerInv'
  BY <1>1 DEF IInv, BaseInv, PointerInv, Below, chainVars
<1>3. QED
  BY <1>2 DEF IInv, chainVars, BaseInv, ChainInv, Causal, StageInv, TurnInv, BatchInv

\* The pointer moves past a batch only when all of it is in the database.
LEMMA BatchDone ==
    ASSUME IInv, pc = "store", logs = {}
    PROVE  /\ BatchEnd \in Nat /\ BatchEnd <= endBlock /\ BatchEnd >= loopBlock
           /\ BatchEnd < endBlock => BatchEnd = loopBlock + BatchSize
      /\ BatchEnd <= loopBlock + BatchSize
           /\ BatchEnd <= loopBlock + BatchSize
           /\ Below(InCharge, BatchEnd + 1)
<1> USE LogAssumption, BackAssumption DEF IInv, BaseInv
<1>1. /\ BatchEnd \in Nat /\ BatchEnd <= endBlock /\ BatchEnd >= loopBlock
      /\ BatchEnd < endBlock => BatchEnd = loopBlock + BatchSize
      /\ BatchEnd <= loopBlock + BatchSize
  BY DEF BatchEnd, BatchInv
<1>2. ASSUME NEW k \in canon \cap InCharge, BlockOf[k] < BatchEnd + 1
      PROVE  k \in stored
  <2>1. BlockOf[k] \in Nat /\ BlockOf[k] <= BatchEnd /\ BlockOf[k] <= endBlock
    BY <1>1, <1>2
  <2>2. CASE BlockOf[k] < loopBlock
    BY <2>1, <2>2 DEF TurnInv
  <2>3. CASE BlockOf[k] >= loopBlock
    BY <2>1, <2>3 DEF BatchInv
  <2>4. QED
    BY <2>1, <2>2, <2>3
<1>3. QED
  BY <1>1, <1>2 DEF Below

\* The main pointer never moves back: its turn began at it.
LEMMA PointerPreserves ==
    ASSUME IInv, UNCHANGED <<chainVars, stored, backLast, stage, endBlock, logs, handover>>,
           pc = "store", logs = {}, pc' = "batch",
           loopBlock' = loopBlock + BatchSize + 1,
           \/ /\ stage = "back"
              /\ backFirst' = BatchEnd + 1 /\ mainFirst' = mainFirst
           \/ /\ stage \in {"main", "whole"}
              /\ mainFirst' = BatchEnd + 1 /\ backFirst' = backFirst
    PROVE  IInv'
<1> USE BackAssumption DEF chainVars
<1>1. /\ BatchEnd \in Nat /\ BatchEnd <= endBlock /\ BatchEnd >= loopBlock
      /\ BatchEnd < endBlock => BatchEnd = loopBlock + BatchSize
      /\ BatchEnd <= loopBlock + BatchSize
      /\ Below(InCharge, BatchEnd + 1)
  BY BatchDone
<1>2. /\ IF stage = "back" THEN endBlock <= handover ELSE endBlock <= final
      /\ final \in Nat /\ endBlock \in Int /\ loopBlock \in Nat
      /\ handover \in Nat /\ mainFirst \in Nat /\ handover <= mainFirst
  BY DEF IInv, BaseInv, TurnInv, PointerInv
<1>3. BaseInv' /\ ChainInv' /\ StageInv'
  BY <1>1 DEF IInv, BaseInv, ChainInv, Causal, StageInv
<1>4. BackPart' = BackPart /\ MainPart' = MainPart /\ InCharge' = InCharge
  BY DEF BackPart, MainPart, InCharge
<1>5. PointerInv'
  <2>1. CASE stage = "back"
    <3>1. backFirst' = BatchEnd + 1 /\ mainFirst' = mainFirst
      BY <2>1
    <3>2. InCharge = BackPart
      BY <2>1 DEF InCharge
    <3>3. Below(BackPart, backFirst)'
      BY <1>1, <1>4, <3>1, <3>2 DEF Below
    <3>4. QED
      BY <1>4, <2>1, <3>1, <3>3 DEF IInv, PointerInv, Below
  <2>2. CASE stage \in {"main", "whole"}
    <3>1. /\ mainFirst' = BatchEnd + 1 /\ backFirst' = backFirst /\ loopBlock >= mainFirst
          /\ backLast = handover
      BY <2>2 DEF IInv, StageInv, TurnInv
    <3>2. InCharge = MainPart
      BY <2>2 DEF InCharge
    <3>3. Below(MainPart, mainFirst)'
      BY <1>1, <1>4, <3>1, <3>2 DEF Below
    <3>4. handover' <= mainFirst' /\ mainFirst' - 1 <= final'
      BY <1>1, <1>2, <2>2, <3>1
    <3>5. handover # NoBlock
      BY <1>2
    <3>6. QED
      BY <1>4, <3>1, <3>3, <3>4, <3>5 DEF IInv, PointerInv, Below
  <2>3. QED
    BY <2>1, <2>2
<1>6. TurnInv'
  <2>1. ASSUME NEW l \in canon \cap InCharge, BlockOf[l] <= endBlock,
               BlockOf[l] < loopBlock + BatchSize + 1
        PROVE  l \in stored
    <3>1. l \in Log /\ BlockOf[l] \in Nat
      BY LogAssumption DEF IInv, BaseInv
    <3>2. BlockOf[l] < BatchEnd + 1
      BY <1>1, <1>2, <2>1, <3>1
    <3>3. QED
      BY <1>1, <3>2 DEF Below
  <2>2. stage' # "back" => mainFirst' <= loopBlock'
    <3>1. CASE stage \in {"main", "whole"}
      <4>1. mainFirst' = BatchEnd + 1 /\ BatchSize \in Nat
        BY <3>1
      <4>2. QED
        BY <1>1, <1>2, <4>1
    <3>2. QED
      BY <3>1
  <2>3. QED
    BY <1>2, <1>4, <2>1, <2>2 DEF TurnInv
<1>7. BatchInv'
  BY DEF BatchInv
<1>8. QED
  BY <1>3, <1>5, <1>6, <1>7 DEF IInv

-----------------------------------------------------------------------------
LEMMA BeginBackPreserves ==
    ASSUME IInv, BeginBack
    PROVE  IInv'
<1> DEFINE back == BackFirstUnhandled
<1> USE BackAssumption
<1>1. /\ mainFirst \in Nat /\ mainFirst # NoBlock /\ handover \in Nat /\ handover # NoBlock
      /\ stage = "start" /\ pc = "idle" /\ logs = {}
  BY DEF IInv, BaseInv, StageInv, BatchInv, BeginBack
<1>2. BackLastBlock = handover
  BY <1>1 DEF BackLastBlock, Main!FirstUnhandledBlock, IInv, BaseInv, PointerInv
<1>3. back \in Nat /\ back # NoBlock /\ Below(BackPart, back)
  BY DEF BackFirstUnhandled, Back!FirstUnhandledBlock, IInv, BaseInv, PointerInv, Below,
         BackPart, KeptDiff, DiffStart
<1>4. backLast' = handover /\ UNCHANGED <<mainFirst, handover>>
  BY <1>2 DEF BeginBack
<1>5. CASE back <= handover
  <2>1. Back!BeginTurn(back, handover, back, back + StepBlocks) /\ stage' = "back"
    BY <1>2, <1>5 DEF BeginBack
  <2>2. /\ loopBlock' = back /\ pc' = "batch"
        /\ UNCHANGED <<chainVars, stored, backFirst, logs>>
        /\ endBlock' = IF back + StepBlocks > handover THEN handover ELSE back + StepBlocks
    BY <1>1, <1>3, <2>1 DEF Back!BeginTurn, Back!chainVars, Back!dbVars, chainVars
  <2>3. endBlock' \in Int /\ endBlock' <= handover
    BY <1>1, <1>3, <2>2
  <2>4. Below(InCharge', loopBlock')
    BY <1>3, <1>4, <2>1, <2>2 DEF InCharge, BackPart, Below
  <2>5. QED
    BY <1>1, <1>3, <1>4, <2>1, <2>2, <2>3, <2>4, BeginPreserves
<1>6. CASE ~ (back <= handover)
  <2>1. stage' = "whole" /\ UNCHANGED <<chainVars, stored, backFirst, turnVars>>
    BY <1>2, <1>6 DEF BeginBack
  <2>2. Below(BackPart, handover)
    <3>1. ASSUME NEW l \in canon \cap BackPart PROVE l \in stored
      <4>1. BlockOf[l] \in Nat /\ BlockOf[l] < handover
        BY LogAssumption DEF BackPart, IInv, BaseInv
      <4>2. QED
        BY <1>1, <1>3, <1>6, <4>1 DEF Below
    <3>2. QED
      BY <3>1 DEF Below
  <2>3. QED
    BY <1>1, <1>4, <2>1, <2>2, StopPreserves DEF turnVars
<1>7. QED
  BY <1>5, <1>6

LEMMA BeginMainPreserves ==
    ASSUME IInv, BeginMain
    PROVE  IInv'
<1> USE BackAssumption
<1>1. /\ mainFirst \in Nat /\ mainFirst # NoBlock /\ stage = "between"
      /\ pc = "idle" /\ logs = {} /\ height \in Nat /\ final \in Nat /\ backLast = handover
      /\ UNCHANGED <<backFirst, backLast, handover>>
  BY DEF IInv, BaseInv, StageInv, BatchInv, BeginMain
<1>2. Main!FirstUnhandledBlock(NoBlock) = mainFirst
  BY <1>1 DEF Main!FirstUnhandledBlock
<1>3. CASE Main!LastBlockToHandle - mainFirst > NewBlocks
  <2>1. Main!RunHistoric(mainFirst, mainFirst + StepBlocks) /\ stage' = "main"
    BY <1>2, <1>3 DEF BeginMain
  <2>2. Main!FirstUnhandledBlock(mainFirst) = mainFirst
    BY <1>1 DEF Main!FirstUnhandledBlock
  <2>3. /\ loopBlock' = mainFirst /\ pc' = "batch"
        /\ UNCHANGED <<chainVars, stored, mainFirst, logs>>
        /\ endBlock' = IF mainFirst + StepBlocks > height - HeightOffset
                       THEN height - HeightOffset ELSE mainFirst + StepBlocks
    BY <1>1, <2>1, <2>2
    DEF Main!RunHistoric, Main!BeginTurn, Main!LastBlockToHandle,
        Main!chainVars, Main!dbVars, chainVars
  <2>4. endBlock' \in Int /\ endBlock' <= final
    BY <1>1, <2>3 DEF IInv, ChainInv
  <2>5. Below(InCharge', loopBlock')
    BY <1>1, <2>1, <2>3 DEF InCharge, MainPart, Below, IInv, PointerInv
  <2>6. QED
    BY <1>1, <2>1, <2>3, <2>4, <2>5, BeginPreserves
<1>4. CASE ~ (Main!LastBlockToHandle - mainFirst > NewBlocks)
  BY <1>1, <1>2, <1>4, StopPreserves DEF BeginMain, turnVars
<1>5. QED
  BY <1>3, <1>4

LEMMA BackTurnPreserves ==
    ASSUME SourcesKept, IInv, BackTurn
    PROVE  IInv'
<1> USE DEF BackTurn, Back!chainVars, Back!dbVars, chainVars, Kept
<1>1. /\ stage = "back" /\ backLast = handover
      /\ UNCHANGED <<mainFirst, backLast, handover>>
      /\ Back!EndLoopBlock = BatchEnd
      /\ InCharge = BackPart
  BY DEF IInv, StageInv, Back!EndLoopBlock, BatchEnd, InCharge
<1>2. CASE Back!GetLogs /\ UNCHANGED stage
  BY <1>1, <1>2, GetLogsPreserves DEF Back!GetLogs, Back!LogsIn, LogsIn
<1>3. CASE Back!SetFirstUnhandledBlock /\ UNCHANGED stage
  BY <1>1, <1>3, PointerPreserves DEF Back!SetFirstUnhandledBlock
<1>4. ASSUME NEW l \in Log, Back!SkipLog(l), UNCHANGED stage PROVE IInv'
  <2>1. IsFirst(l, logs)
    BY <1>4 DEF Back!SkipLog, Back!IsFirst, IsFirst, Back!Before, Before
  <2>2. l \in InCharge => l \in stored
    BY <1>1, <1>4, <2>1, InChargeParse
    DEF Back!SkipLog, Back!Parses, Back!LogExists, BackPart, KeptDiff
  <2>3. QED
    BY <1>1, <1>4, <2>2, HandledPreserves DEF Back!SkipLog
<1>5. ASSUME NEW l \in Log, Back!CommitLog(l), UNCHANGED stage PROVE IInv'
  BY <1>1, <1>5, HandledPreserves DEF Back!CommitLog
<1>6. CASE Back!EndTurn /\ stage' = "between"
  <2>1. logs' = {}
    BY <1>6 DEF Back!EndTurn, IInv, BatchInv
  <2>2. QED
    BY <1>1, <1>6, <2>1, StopPreserves DEF Back!EndTurn
<1>7. ASSUME NEW l \in Log, Back!RejectLog(l), stage' = "start" PROVE IInv'
  BY <1>1, <1>7, StopPreserves DEF Back!RejectLog
<1>8. QED
  BY <1>2, <1>3, <1>4, <1>5, <1>6, <1>7

\* The main indexer's steps, beside the back one or alone.
LEMMA MainStepPreserves ==
    ASSUME SourcesKept, IInv, stage \in {"main", "whole"},
           UNCHANGED <<backFirst, backLast, stage, handover>>,
           \/ Main!GetLogs \/ Main!SetFirstUnhandledBlock
           \/ \E l \in Log : Main!SkipLog(l) \/ Main!CommitLog(l)
    PROVE  IInv'
<1> USE DEF Main!chainVars, Main!dbVars, chainVars, Kept
<1>1. Main!EndLoopBlock = BatchEnd /\ InCharge = MainPart
  BY DEF Main!EndLoopBlock, BatchEnd, InCharge
<1>2. CASE Main!GetLogs
  BY <1>1, <1>2, GetLogsPreserves DEF Main!GetLogs, Main!LogsIn, LogsIn
<1>3. CASE Main!SetFirstUnhandledBlock
  BY <1>1, <1>3, PointerPreserves DEF Main!SetFirstUnhandledBlock
<1>4. ASSUME NEW l \in Log, Main!SkipLog(l) PROVE IInv'
  <2>1. IsFirst(l, logs)
    BY <1>4 DEF Main!SkipLog, Main!IsFirst, IsFirst, Main!Before, Before
  <2>2. l \in InCharge => l \in stored
    BY <1>1, <1>4, <2>1, InChargeParse
    DEF Main!SkipLog, Main!Parses, Main!LogExists, MainPart, KeptOld, All
  <2>3. QED
    BY <1>1, <1>4, <2>2, HandledPreserves DEF Main!SkipLog
<1>5. ASSUME NEW l \in Log, Main!CommitLog(l) PROVE IInv'
  BY <1>1, <1>5, HandledPreserves DEF Main!CommitLog
<1>6. QED
  BY <1>2, <1>3, <1>4, <1>5

LEMMA MainTurnPreserves ==
    ASSUME SourcesKept, IInv, MainTurn
    PROVE  IInv'
<1> USE DEF MainTurn, Main!chainVars, Main!dbVars, chainVars
<1>1. CASE UNCHANGED stage /\ (\/ Main!GetLogs \/ Main!SetFirstUnhandledBlock
                               \/ \E l \in Log : Main!SkipLog(l) \/ Main!CommitLog(l))
  BY <1>1, MainStepPreserves
<1>2. CASE Main!EndTurn /\ stage' = "start"
  <2>1. logs' = {}
    BY <1>2 DEF Main!EndTurn, IInv, BatchInv
  <2>2. QED
    BY <1>2, <2>1, StopPreserves DEF Main!EndTurn
<1>3. ASSUME NEW l \in Log, Main!RejectLog(l), stage' = "start" PROVE IInv'
  BY <1>3, StopPreserves DEF Main!RejectLog
<1>4. QED
  BY <1>1, <1>2, <1>3

LEMMA WholeTurnPreserves ==
    ASSUME SourcesKept, IInv, WholeTurn
    PROVE  IInv'
<1> USE DEF WholeTurn, Main!chainVars, Main!dbVars, chainVars
<1>1. /\ stage = "whole" /\ stage' = "whole" /\ backLast = handover
      /\ UNCHANGED <<backFirst, backLast, stage, handover>>
      /\ Below(BackPart, handover)
  BY DEF IInv, StageInv, PointerInv
<1>2. CASE \/ Main!GetLogs \/ Main!SetFirstUnhandledBlock
           \/ \E l \in Log : Main!SkipLog(l) \/ Main!CommitLog(l)
  BY <1>1, <1>2, MainStepPreserves
<1>3. CASE Main!EndTurn
  <2>1. logs' = {}
    BY <1>3 DEF Main!EndTurn, IInv, BatchInv
  <2>2. QED
    BY <1>1, <1>3, <2>1, StopPreserves DEF Main!EndTurn
<1>4. ASSUME NEW l \in Log, Main!RejectLog(l) PROVE IInv'
  BY <1>1, <1>4, StopPreserves DEF Main!RejectLog
<1>5. CASE Main!RunHistoric(NoBlock, NoBlock)
  <2>1. /\ mainFirst \in Nat /\ mainFirst # NoBlock /\ height \in Nat /\ final \in Nat
    BY BackAssumption DEF IInv, BaseInv
  <2>2. /\ pc = "idle" /\ pc' = "batch" /\ UNCHANGED <<chainVars, stored, mainFirst, logs>>
        /\ loopBlock' = mainFirst /\ endBlock' = height - HeightOffset
    BY <1>5, <2>1
    DEF Main!RunHistoric, Main!BeginTurn, Main!LastBlockToHandle, Main!FirstUnhandledBlock
  <2>3. endBlock' \in Int /\ endBlock' <= final
    BY <2>1, <2>2, BackAssumption DEF IInv, ChainInv
  <2>4. Below(InCharge', loopBlock')
    BY <1>1, <2>2 DEF InCharge, MainPart, Below, IInv, PointerInv
  <2>5. QED
    BY <1>1, <2>1, <2>2, <2>3, <2>4, BeginPreserves
<1>6. QED
  BY <1>2, <1>3, <1>4, <1>5 DEF Main!Turn, Main!HandleLog

\* IInv is inductive.
LEMMA NextInv ==
    ASSUME SourcesKept, IInv, [Next]_vars
    PROVE  IInv'
<1>1. CASE Chain
  BY <1>1, ChainPreserves
<1>2. CASE BeginBack
  BY <1>2, BeginBackPreserves
<1>3. CASE BackTurn
  BY <1>3, BackTurnPreserves
<1>4. CASE BeginMain
  BY <1>4, BeginMainPreserves
<1>5. CASE MainTurn
  BY <1>5, MainTurnPreserves
<1>6. CASE WholeTurn
  BY <1>6, WholeTurnPreserves
<1>7. CASE Fail
  <2>1. stage = "whole" => Below(BackPart, handover) /\ backLast = handover
    BY DEF IInv, PointerInv, StageInv
  <2>2. QED
    BY <1>7, <2>1, StopPreserves DEF Fail, dbVars
<1>8. CASE Restart
  BY <1>8, StopPreserves DEF Restart, dbVars
<1>9. CASE UNCHANGED vars
  BY <1>9 DEF vars, chainVars, dbVars, turnVars, IInv, BaseInv, ChainInv, Causal,
     PointerInv, Below, StageInv, TurnInv, InCharge, BackPart, MainPart, BatchInv, BatchEnd
<1>10. QED
  BY <1>1, <1>2, <1>3, <1>4, <1>5, <1>6, <1>7, <1>8, <1>9 DEF Next, Run

-----------------------------------------------------------------------------
\* The invariant the result rests on.
THEOREM Invariance ==
    ASSUME SourcesKept
    PROVE  Spec => []IInv
<1>1. Init => IInv
  BY InitInv
<1>2. IInv /\ [Next]_vars => IInv'
  BY NextInv
<1>3. QED
  BY <1>1, <1>2, PTL DEF Spec

\* Whatever the lists, the block of the hand-over and the failures, the two
\* passes of a back update leave no gap between them, and none is left when
\* the main indexer stays alone: run of indexer-parallel-back-population.ts.
THEOREM NoGap ==
    ASSUME SourcesKept
    PROVE  Spec => []BackComplete
<1>1. IInv => BackComplete
  <2> SUFFICES ASSUME IInv PROVE BackComplete
    OBVIOUS
  <2>1. /\ canon \subseteq Log /\ mainFirst \in Nat /\ handover \in Nat
        /\ MinBlock \in Nat /\ DiffStart \in Nat
    BY BackAssumption DEF IInv, BaseInv, DiffStart
  <2>2. ASSUME NEW l \in LogsIn(canon \cap Old, MinBlock, mainFirst - 1)
        PROVE  l \in stored
    BY <2>1, LogAssumption DEF LogsIn, KeptOld, MainPart, IInv, PointerInv, Below
  <2>3. ASSUME NEW l \in LogsIn(canon \cap Diff, handover, mainFirst - 1)
        PROVE  l \in stored
    BY <2>1, LogAssumption DEF LogsIn, MainPart, IInv, PointerInv, Below
  <2>4. ASSUME NEW n \in Nat, NEW l \in LogsIn(canon \cap Diff, DiffStart, n - 1)
        PROVE  /\ l \in canon /\ BlockOf[l] < n
               /\ BlockOf[l] < handover => l \in BackPart
               /\ ~ (BlockOf[l] < handover) => l \in MainPart
    BY <2>1, LogAssumption DEF LogsIn, KeptDiff, BackPart, MainPart
  <2>5. ASSUME backFirst # NoBlock,
               NEW l \in LogsIn(canon \cap Diff, DiffStart, backFirst - 1), BlockOf[l] < handover
        PROVE  l \in stored
    <3>1. backFirst \in Nat /\ Below(BackPart, backFirst)
      BY <2>5 DEF IInv, BaseInv, PointerInv
    <3>2. QED
      BY <2>4, <2>5, <3>1 DEF Below
  <2>6. ASSUME stage = "whole",
               NEW l \in LogsIn(canon \cap Diff, DiffStart, mainFirst - 1)
        PROVE  l \in stored
    BY <2>1, <2>4, <2>6 DEF IInv, PointerInv, Below
  <2>7. QED
    BY <2>2, <2>3, <2>5, <2>6 DEF BackComplete
<1>2. QED
  BY <1>1, Invariance, PTL

-----------------------------------------------------------------------------
(* The three ledgers.                                                      *)

Ledgers == {OldOnly, NewBelow, NewAbove}

Settled(S) == LogsIn(canon \cap S, 0, final)

\* The chain only appends to the settled logs.
LEMMA ChainSettles ==
    ASSUME IInv, Chain, NEW S \in SUBSET Log
    PROVE  /\ Settled(S) \subseteq Settled(S)'
           /\ \A k \in Settled(S) : \A l \in Settled(S)' \ Settled(S) : Before(k, l)
           /\ stored' = stored /\ handover' = handover
<1>1. /\ stored' = stored /\ handover' = handover /\ final <= final' /\ canon' \subseteq Log
      /\ \A l \in Log : BlockOf[l] <= final => (l \in canon <=> l \in canon')
      /\ final \in Nat /\ final' \in Nat /\ canon \subseteq Log /\ BlockOf \in [Log -> Nat]
  BY ChainStep, LogAssumption DEF IInv, BaseInv
<1>2. Settled(S) \subseteq Settled(S)'
  BY <1>1 DEF Settled, LogsIn
<1>3. ASSUME NEW k \in Settled(S), NEW l \in Settled(S)' \ Settled(S)
      PROVE  Before(k, l)
  <2>1. k \in Log /\ BlockOf[k] <= final /\ l \in Log /\ ~(BlockOf[l] <= final)
    BY <1>1, <1>3 DEF Settled, LogsIn
  <2>2. QED
    BY <1>1, <2>1 DEF Before
<1>4. QED
  BY <1>1, <1>2, <1>3

\* A log the stage at work commits.
Commits(l) ==
    /\ \/ stage = "back" /\ Back!CommitLog(l)
       \/ stage \in {"main", "whole"} /\ Main!CommitLog(l)
    /\ UNCHANGED handover

\* The back indexer commits into the ledger below the hand-over, the main one
\* into the two others, and each is in charge of the whole of its ledgers.
LEMMA LedgerInCharge ==
    ASSUME IInv, NEW l \in Log, Commits(l), NEW S \in Ledgers, l \in S
    PROVE  S \subseteq InCharge
<1>1. /\ pc = "store" /\ l \in logs
      /\ stage = "back" => l \in Diff
      /\ stage \in {"back", "main", "whole"}
  BY DEF Commits, Back!CommitLog, Main!CommitLog, Back!IsFirst, Main!IsFirst,
         Back!Parses, Back!LogExists
<1>2. /\ BlockOf[l] >= loopBlock /\ BlockOf[l] <= BatchEnd /\ BatchEnd <= endBlock
      /\ BlockOf[l] \in Nat /\ loopBlock \in Nat /\ BatchEnd \in Int /\ endBlock \in Int
      /\ handover \in Nat /\ mainFirst \in Nat /\ handover <= mainFirst
  BY <1>1, BackAssumption, LogAssumption DEF IInv, BaseInv, BatchInv, PointerInv, BatchEnd
<1>3. CASE stage = "back"
  <2>1. BlockOf[l] <= handover
    BY <1>1, <1>2, <1>3 DEF IInv, TurnInv
  <2>2. S = NewBelow
    BY <1>1, <1>2, <1>3, <2>1 DEF Ledgers, OldOnly, NewAbove
  <2>3. QED
    BY <1>3, <2>2 DEF NewBelow, InCharge, BackPart
<1>4. CASE stage \in {"main", "whole"}
  <2>1. mainFirst <= loopBlock
    BY <1>1, <1>4 DEF IInv, TurnInv
  <2>2. S # NewBelow
    BY <1>2, <2>1 DEF NewBelow
  <2>3. NewAbove \subseteq MainPart
    BY <1>2, LogAssumption, BackAssumption DEF NewAbove, KeptDiff, MainPart
  <2>4. QED
    BY <1>4, <2>2, <2>3 DEF Ledgers, OldOnly, InCharge, MainPart
<1>5. QED
  BY <1>1, <1>3, <1>4

\* A commit appends a log to the ledger it belongs to: every earlier log of
\* that ledger is in it.
LEMMA CommitRecords ==
    ASSUME IInv, NEW l \in Log, Commits(l), NEW S \in Ledgers, l \in S
    PROVE  /\ l \in Settled(S) /\ l \notin stored
           /\ \A k \in Settled(S) : Before(k, l) => k \in stored
<1>1. pc = "store" /\ IsFirst(l, logs) /\ l \in logs /\ l \notin stored
  BY DEF Commits, Back!CommitLog, Main!CommitLog, Back!IsFirst, Main!IsFirst, IsFirst,
         Back!Before, Main!Before, Before, Back!LogExists, Main!LogExists
<1>2. S \subseteq InCharge
  BY LedgerInCharge
<1>3. l \in Settled(S)
  <2>1. l \in canon /\ BlockOf[l] <= BatchEnd
    BY <1>1, <1>2 DEF IInv, BatchInv
  <2>2. /\ BatchEnd \in Int /\ BatchEnd <= endBlock /\ endBlock \in Int /\ final \in Nat
        /\ handover \in Nat /\ mainFirst \in Nat /\ BlockOf[l] \in Nat
        /\ handover <= mainFirst /\ mainFirst - 1 <= final
    BY BackAssumption, LogAssumption DEF BatchEnd, IInv, BaseInv, PointerInv
  <2>3. BlockOf[l] <= final
    <3>1. CASE stage = "back"
      BY <1>2, <2>2, <3>1 DEF InCharge, BackPart
    <3>2. CASE stage # "back"
      BY <1>1, <2>1, <2>2, <3>2 DEF IInv, TurnInv
    <3>3. QED
      BY <3>1, <3>2
  <2>4. QED
    BY <2>1, <2>2, <2>3 DEF Settled, LogsIn
<1>4. ASSUME NEW k \in Settled(S), Before(k, l)
      PROVE  k \in stored
  BY <1>1, <1>2, <1>4, EarlierInCharge DEF Settled, LogsIn
<1>5. QED
  BY <1>1, <1>3, <1>4

\* Nothing else touches a ledger.
LEMMA OtherSteps ==
    ASSUME [Next]_vars, ~Chain, \A l \in Log : ~Commits(l)
    PROVE  UNCHANGED <<canon, final, stored, handover>>
<1> USE DEF chainVars, dbVars, turnVars
<1>1. CASE Fail \/ Restart \/ UNCHANGED vars
  BY <1>1 DEF Fail, Restart, vars
<1>2. CASE BeginBack
  BY <1>2 DEF BeginBack, Back!BeginTurn, Back!chainVars, Back!dbVars
<1>3. CASE BeginMain
  BY <1>3 DEF BeginMain, Main!RunHistoric, Main!BeginTurn, Main!chainVars, Main!dbVars
<1>4. CASE BackTurn
  BY <1>4 DEF BackTurn, Commits, Back!GetLogs, Back!SetFirstUnhandledBlock, Back!SkipLog,
     Back!EndTurn, Back!RejectLog, Back!chainVars, Back!dbVars
<1>5. CASE MainTurn
  BY <1>5 DEF MainTurn, Commits, Main!GetLogs, Main!SetFirstUnhandledBlock, Main!SkipLog,
     Main!EndTurn, Main!RejectLog, Main!chainVars, Main!dbVars
<1>6. CASE WholeTurn
  BY <1>6 DEF WholeTurn, Commits, Main!Turn, Main!HandleLog, Main!RunHistoric,
     Main!BeginTurn, Main!GetLogs, Main!SetFirstUnhandledBlock, Main!SkipLog,
     Main!EndTurn, Main!RejectLog, Main!chainVars, Main!dbVars
<1>7. QED
  BY <1>1, <1>2, <1>3, <1>4, <1>5, <1>6 DEF Next, Run

LEMMA CommitChanges ==
    ASSUME NEW l \in Log, Commits(l)
    PROVE  stored' = stored \cup {l} /\ canon' = canon /\ final' = final /\ handover' = handover
BY DEF Commits, Back!CommitLog, Main!CommitLog, Back!chainVars, Main!chainVars

\* Every step settles logs at the end of a ledger, records the next of them,
\* or leaves the ledger alone.
LEMMA LedgerStep ==
    ASSUME IInv, [Next]_vars, NEW S \in Ledgers
    PROVE  \/ /\ Settled(S) \subseteq Settled(S)'
              /\ \A k \in Settled(S) : \A l \in Settled(S)' \ Settled(S) : Before(k, l)
              /\ (stored \cap S)' = stored \cap S
           \/ \E l \in Log :
                 /\ l \in Settled(S) \ (stored \cap S)
                 /\ \A k \in Settled(S) : Before(k, l) => k \in stored \cap S
                 /\ (stored \cap S)' = (stored \cap S) \cup {l}
                 /\ Settled(S)' = Settled(S)
<1>1. S \in SUBSET Log
  BY BackAssumption DEF Ledgers, OldOnly, NewBelow, NewAbove, KeptOld, KeptDiff
<1>2. CASE Chain
  BY <1>1, <1>2, ChainSettles
<1>3. ASSUME UNCHANGED <<canon, final>>
      PROVE  Settled(S)' = Settled(S)
  BY <1>1, <1>3 DEF Settled, LogsIn
<1>4. ASSUME NEW l \in Log, Commits(l), l \in S
      PROVE  /\ l \in Settled(S) \ (stored \cap S)
             /\ \A k \in Settled(S) : Before(k, l) => k \in stored \cap S
             /\ (stored \cap S)' = (stored \cap S) \cup {l}
             /\ Settled(S)' = Settled(S)
  <2>1. \A k \in Settled(S) : k \in S
    BY DEF Settled, LogsIn
  <2>2. QED
    BY <1>1, <1>3, <1>4, <2>1, CommitChanges, CommitRecords
<1>5. ASSUME NEW l \in Log, Commits(l), l \notin S
      PROVE  (stored \cap S)' = stored \cap S /\ Settled(S)' = Settled(S)
  BY <1>1, <1>3, <1>5, CommitChanges
<1>6. CASE ~Chain /\ \A l \in Log : ~Commits(l)
  <2>1. stored' = stored /\ Settled(S)' = Settled(S)
    BY <1>3, <1>6, OtherSteps
  <2>2. QED
    BY <1>1, <2>1
<1>7. QED
  BY <1>2, <1>4, <1>5, <1>6

\* The ledgers are divided once and for all.
LEMMA LedgersFixed ==
    ASSUME IInv, [Next]_vars
    PROVE  OldOnly' = OldOnly /\ NewBelow' = NewBelow /\ NewAbove' = NewAbove
<1>1. handover' = handover
  <2>1. CASE Chain
    BY <2>1, ChainStep
  <2>2. CASE \E l \in Log : Commits(l)
    BY <2>2 DEF Commits
  <2>3. CASE ~Chain /\ \A l \in Log : ~Commits(l)
    BY <2>3, OtherSteps
  <2>4. QED
    BY <2>1, <2>2, <2>3
<1>2. QED
  BY <1>1 DEF OldOnly, NewBelow, NewAbove

\* A back update implements three ledgers: the old events and the new ones
\* above the block of the hand-over, which the main indexer records, and the
\* new ones below it, which the back indexer inserts.  Each log is recorded
\* once, in the order of the chain and when it is final (run of
\* indexer-parallel-back-population.ts).
THEOREM ImplementsLedgers ==
    ASSUME SourcesKept
    PROVE  Spec => LedgersKept
<1>1. Init => OldLedger!Prefix /\ BelowLedger!Prefix /\ AboveLedger!Prefix
  <2> SUFFICES ASSUME Init PROVE OldLedger!Prefix /\ BelowLedger!Prefix /\ AboveLedger!Prefix
    OBVIOUS
  <2> USE LogAssumption, BackAssumption
  <2>1. stored \cap NewBelow = {} /\ stored \cap NewAbove = {}
    BY DEF Init, LogsIn, NewBelow, NewAbove
  <2>2. /\ \A l \in stored : l \in canon /\ l \in Old /\ BlockOf[l] < mainFirst
        /\ \A l \in canon \cap OldOnly : BlockOf[l] < mainFirst => l \in stored
        /\ \A l \in canon : BlockOf[l] \in 0 .. final
        /\ mainFirst \in Int
    BY DEF Init, LogsIn, OldOnly, KeptOld
  <2>3. stored \cap OldOnly \subseteq LogsIn(canon \cap OldOnly, 0, final)
    BY <2>2 DEF LogsIn
  <2>4. ASSUME NEW l \in stored \cap OldOnly, NEW k \in LogsIn(canon \cap OldOnly, 0, final),
               Before(k, l)
        PROVE  k \in stored \cap OldOnly
    BY <2>2, <2>4 DEF LogsIn, Before, OldOnly, KeptOld
  <2>5. QED
    BY <2>1, <2>3, <2>4
    DEF OldLedger!Prefix, BelowLedger!Prefix, AboveLedger!Prefix, OldLedger!Before, Before
<1>2. IInv /\ [Next]_vars => [OldLedger!LedgerNext]_<<LogsIn(canon \cap OldOnly, 0, final),
                                                     stored \cap OldOnly>>
  BY LedgerStep, LedgersFixed
  DEF Ledgers, Settled, OldLedger!LedgerNext, OldLedger!Settle, OldLedger!Record,
      OldLedger!Before, Before
<1>3. IInv /\ [Next]_vars => [BelowLedger!LedgerNext]_<<LogsIn(canon \cap NewBelow, 0, final),
                                                       stored \cap NewBelow>>
  BY LedgerStep, LedgersFixed
  DEF Ledgers, Settled, BelowLedger!LedgerNext, BelowLedger!Settle, BelowLedger!Record,
      BelowLedger!Before, Before
<1>4. IInv /\ [Next]_vars => [AboveLedger!LedgerNext]_<<LogsIn(canon \cap NewAbove, 0, final),
                                                       stored \cap NewAbove>>
  BY LedgerStep, LedgersFixed
  DEF Ledgers, Settled, AboveLedger!LedgerNext, AboveLedger!Settle, AboveLedger!Record,
      AboveLedger!Before, Before
<1>5. QED
  BY <1>1, <1>2, <1>3, <1>4, Invariance, PTL
  DEF Spec, LedgersKept, OldLedger!ResumedSpec, BelowLedger!ResumedSpec, AboveLedger!ResumedSpec
=============================================================================
