------------------------- MODULE EventIndexerProofs -------------------------
(***************************************************************************)
(* Proofs about EventIndexer for every set of logs, every chain and every  *)
(* value of the configuration: types, the completeness of the database     *)
(* below the pointer, and the implementation of the ledger.                *)
(***************************************************************************)
EXTENDS EventIndexer, TLAPS

(***************************************************************************)
(* The inductive invariant.  Complete is not inductive: a turn that is     *)
(* under way must also have handled everything below its batch, and the    *)
(* logs it has fetched must be all the batch still lacks.  That the parser *)
(* never drops a tracked log needs the chain to be causal, and that the    *)
(* batch does not change under the turn needs it to lie in final blocks.   *)
(***************************************************************************)
ChainInv ==
    /\ height - HeightOffset <= final
    /\ \A l \in canon : BlockOf[l] <= height
    /\ Causal(canon)

StoredInv == stored \subseteq Due(MinBlock, final)

PointerInv ==
    firstUnhandled # NoBlock =>
        /\ firstUnhandled >= MinBlock
        /\ firstUnhandled - 1 <= final
        /\ \A l \in canon \cap Tracked :
               BlockOf[l] >= MinBlock /\ BlockOf[l] < firstUnhandled => l \in stored

TurnInv ==
    pc # "idle" =>
        /\ loopBlock >= MinBlock
        /\ endBlock <= final
        /\ firstUnhandled # NoBlock => firstUnhandled <= loopBlock
        /\ \A l \in canon \cap Tracked :
               BlockOf[l] >= MinBlock /\ BlockOf[l] < loopBlock /\ BlockOf[l] <= endBlock
                   => l \in stored

BatchInv ==
    IF pc = "store"
    THEN /\ loopBlock <= endBlock
         /\ logs \subseteq canon
         /\ \A l \in logs : BlockOf[l] >= loopBlock /\ BlockOf[l] <= EndLoopBlock
         /\ \A l \in canon \cap Tracked :
                BlockOf[l] >= loopBlock /\ BlockOf[l] <= EndLoopBlock
                    => l \in stored \cup logs
    ELSE logs = {}

IInv == TypeOK /\ ChainInv /\ StoredInv /\ PointerInv /\ TurnInv /\ BatchInv

-----------------------------------------------------------------------------
\* A log the batch hands to the handlers next has every earlier tracked log
\* of the chain in the database: the batch is worked off in chain order.
LEMMA EarlierStored ==
    ASSUME IInv, pc = "store",
           NEW l \in Log, IsFirst(l, logs),
           NEW k \in canon \cap Tracked, BlockOf[k] >= MinBlock, Before(k, l)
    PROVE  k \in stored
<1>1. BlockOf[k] \in Nat /\ BlockOf[l] \in Nat /\ IndexOf[k] \in Nat /\ IndexOf[l] \in Nat
  BY LogAssumption DEF IInv, TypeOK
<1>2. BlockOf[k] <= BlockOf[l]
  BY <1>1 DEF Before
<1>3. EndLoopBlock \in Int /\ EndLoopBlock <= endBlock /\ loopBlock \in Nat
  BY IndexerAssumption DEF IInv, TypeOK, BatchInv, EndLoopBlock
<1>4. l \in logs /\ BlockOf[l] <= EndLoopBlock
  BY DEF IInv, BatchInv, IsFirst
<1>5. CASE BlockOf[k] < loopBlock
  BY <1>1, <1>2, <1>3, <1>4, <1>5 DEF IInv, TypeOK, TurnInv
<1>6. CASE BlockOf[k] >= loopBlock
  <2>1. k \in stored \cup logs
    BY <1>1, <1>2, <1>3, <1>4, <1>6 DEF IInv, BatchInv
  <2>2. ~ (k \in logs)
    BY <1>1 DEF IsFirst, Before
  <2>3. QED
    BY <2>1, <2>2
<1>7. QED
  BY <1>1, <1>3, <1>5, <1>6

\* The parser never drops a tracked log: the rows it is recognised by are there.
LEMMA TrackedParse ==
    ASSUME SourcesTracked, IInv, pc = "store",
           NEW l \in Tracked, IsFirst(l, logs)
    PROVE  Parses(l)
<1>1. l \in Log /\ l \in canon /\ BlockOf[l] >= loopBlock /\ loopBlock >= MinBlock
  BY IndexerAssumption DEF IInv, TypeOK, BatchInv, TurnInv, IsFirst
<1>2. BlockOf[l] >= MinBlock
  BY <1>1, LogAssumption, IndexerAssumption DEF IInv, TypeOK
<1>3. ASSUME NEW k \in Source[l]
      PROVE  k \in stored
  <2>1. k \in Log /\ Before(k, l)
    BY <1>1, LogAssumption
  <2>2. k \in canon \cap Tracked /\ BlockOf[k] >= MinBlock
    BY <1>1, <1>2 DEF SourcesTracked, IInv, ChainInv, Causal
  <2>3. QED
    BY <1>1, <2>1, <2>2, EarlierStored
<1>4. QED
  BY <1>3 DEF Parses

-----------------------------------------------------------------------------
LEMMA InitInv == Init => IInv
BY LogAssumption, IndexerAssumption
DEF Init, IInv, TypeOK, ChainInv, StoredInv, PointerInv, TurnInv, BatchInv,
    Causal, Due, LogsIn

\* The chain only changes above its final blocks.
LEMMA ChainStep ==
    ASSUME IInv, Chain
    PROVE  /\ TypeOK' /\ ChainInv'
           /\ UNCHANGED <<dbVars, turnVars, faults>>
           /\ final <= final'
           /\ \A l \in Log : BlockOf[l] <= final => (l \in canon <=> l \in canon')
<1> USE LogAssumption, IndexerAssumption DEF IInv, TypeOK, ChainInv, Causal, dbVars, turnVars
<1>1. CASE ExtendChain
  <2>1. PICK new \in SUBSET {l \in Log : BlockOf[l] = height + 1} :
            Causal(canon \cup new) /\ canon' = canon \cup new
    BY <1>1 DEF ExtendChain
  <2>2. \A l \in new : l \in Log /\ BlockOf[l] = height + 1
    OBVIOUS
  <2>3. height' = height + 1 /\ final' = final /\ height + 1 - HeightOffset <= final
    BY <1>1 DEF ExtendChain
  <2>4. \A l \in canon' : BlockOf[l] <= height'
    BY <2>1, <2>2, <2>3
  <2>5. Causal(canon)'
    BY <2>1
  <2>6. QED
    BY <1>1, <2>1, <2>2, <2>3, <2>4, <2>5 DEF ExtendChain
<1>2. CASE Finalise
  BY <1>2 DEF Finalise
<1>3. CASE Reorganise
  <2>1. PICK keep \in final .. height - 1 :
            height' = keep /\ canon' = {l \in canon : BlockOf[l] <= keep}
    BY <1>3 DEF Reorganise
  <2>2. keep \in Nat /\ final <= keep /\ final' = final /\ keep < height
    BY <1>3 DEF Reorganise
  <2>3. ASSUME NEW l \in canon', NEW k \in Source[l] \cup Refs[l]
        PROVE  k \in canon'
    <3>1. l \in canon /\ l \in Log /\ k \in Log /\ k \in canon /\ Before(k, l)
      BY <2>1
    <3>2. BlockOf[k] <= BlockOf[l] /\ BlockOf[l] <= keep
      BY <2>1, <3>1 DEF Before
    <3>3. QED
      BY <2>1, <2>2, <3>1, <3>2
  <2>4. Causal(canon)'
    BY <2>3
  <2>5. \A l \in Log : BlockOf[l] <= final => (l \in canon <=> l \in canon')
    BY <2>1, <2>2
  <2>6. \A l \in canon' : BlockOf[l] <= height'
    BY <2>1
  <2>7. QED
    BY <1>3, <2>1, <2>2, <2>4, <2>5, <2>6 DEF Reorganise
<1>4. QED
  BY <1>1, <1>2, <1>3 DEF Chain

\* A step of the chain disturbs neither the database nor a turn under way:
\* both speak of final blocks only.
LEMMA ChainPreserves ==
    ASSUME IInv, Chain
    PROVE  IInv'
<1>1. /\ TypeOK' /\ ChainInv'
      /\ UNCHANGED <<stored, firstUnhandled, pc, loopBlock, endBlock, logs>>
      /\ final <= final'
      /\ \A l \in Log : BlockOf[l] <= final => (l \in canon <=> l \in canon')
  BY ChainStep DEF dbVars, turnVars
<1>2. /\ final \in Nat /\ final' \in Nat /\ MinBlock \in Nat
      /\ canon \subseteq Log /\ canon' \subseteq Log /\ BlockOf \in [Log -> Nat]
      /\ firstUnhandled \in Nat \cup {NoBlock} /\ loopBlock \in Nat /\ endBlock \in Int
  BY <1>1, LogAssumption, IndexerAssumption DEF IInv, TypeOK
<1>3. StoredInv'
  BY <1>1, <1>2 DEF IInv, StoredInv, Due, LogsIn
<1>4. PointerInv'
  <2>1. CASE firstUnhandled = NoBlock
    BY <1>1, <2>1 DEF PointerInv
  <2>2. CASE firstUnhandled # NoBlock
    <3>1. /\ firstUnhandled >= MinBlock /\ firstUnhandled - 1 <= final
          /\ \A l \in canon \cap Tracked :
               BlockOf[l] >= MinBlock /\ BlockOf[l] < firstUnhandled => l \in stored
      BY <2>2 DEF IInv, PointerInv
    <3>2. firstUnhandled \in Nat
      BY <1>2, <2>2
    <3>3. firstUnhandled - 1 <= final'
      BY <1>1, <1>2, <3>1, <3>2
    <3>4. ASSUME NEW l \in canon' \cap Tracked,
                 BlockOf[l] >= MinBlock, BlockOf[l] < firstUnhandled
          PROVE  l \in stored
      <4>1. BlockOf[l] <= final
        BY <1>2, <3>1, <3>2, <3>4
      <4>2. l \in canon
        BY <1>1, <1>2, <4>1
      <4>3. QED
        BY <3>1, <3>4, <4>2
    <3>5. QED
      BY <1>1, <3>1, <3>3, <3>4 DEF PointerInv
  <2>3. QED
    BY <2>1, <2>2
<1>5. TurnInv'
  <2>1. CASE pc = "idle"
    BY <1>1, <2>1 DEF TurnInv
  <2>2. CASE pc # "idle"
    <3>1. ASSUME NEW l \in canon' \cap Tracked, BlockOf[l] <= endBlock
          PROVE  l \in canon
      BY <1>1, <1>2, <2>2, <3>1 DEF IInv, TurnInv
    <3>2. QED
      BY <1>1, <1>2, <2>2, <3>1 DEF IInv, TurnInv
  <2>3. QED
    BY <2>1, <2>2
<1>6. BatchInv'
  <2>1. CASE pc = "store"
    <3>1. EndLoopBlock' = EndLoopBlock /\ EndLoopBlock \in Int /\ EndLoopBlock <= endBlock
      BY <1>1, <1>2, IndexerAssumption DEF EndLoopBlock
    <3>2. endBlock <= final
      BY <2>1 DEF IInv, TurnInv
    <3>3. ASSUME NEW l \in Log, BlockOf[l] <= EndLoopBlock
          PROVE  l \in canon <=> l \in canon'
      BY <1>1, <1>2, <3>1, <3>2, <3>3
    <3>4. logs \subseteq canon'
      BY <1>2, <2>1, <3>3 DEF IInv, BatchInv
    <3>5. QED
      BY <1>1, <1>2, <2>1, <3>1, <3>3, <3>4 DEF IInv, BatchInv
  <2>2. CASE pc # "store"
    BY <1>1, <2>2 DEF IInv, BatchInv
  <2>3. QED
    BY <2>1, <2>2
<1>7. QED
  BY <1>1, <1>3, <1>4, <1>5, <1>6 DEF IInv

\* A turn starts at the pointer and stops at a final block.
LEMMA RunHistoricPreserves ==
    ASSUME IInv, RunHistoric(NoBlock, NoBlock)
    PROVE  IInv'
<1> USE LogAssumption, IndexerAssumption
    DEF IInv, TypeOK, RunHistoric, BeginTurn, FirstUnhandledBlock, LastBlockToHandle,
        chainVars, dbVars
<1>1. TypeOK' /\ ChainInv'
  BY DEF ChainInv, Causal
<1>2. StoredInv' /\ PointerInv'
  BY DEF StoredInv, PointerInv, Due, LogsIn
<1>3. TurnInv'
  BY DEF TurnInv, PointerInv, ChainInv
<1>4. BatchInv'
  BY DEF BatchInv
<1>5. QED
  BY <1>1, <1>2, <1>3, <1>4

LEMMA GetLogsPreserves ==
    ASSUME IInv, GetLogs
    PROVE  IInv'
<1> USE LogAssumption, IndexerAssumption
    DEF IInv, TypeOK, GetLogs, chainVars, dbVars
<1>1. TypeOK' /\ ChainInv'
  BY DEF ChainInv, Causal, LogsIn
<1>2. StoredInv' /\ PointerInv' /\ TurnInv'
  BY DEF StoredInv, PointerInv, TurnInv, Due, LogsIn
<1>3. BatchInv'
  <2>1. EndLoopBlock \in Int /\ EndLoopBlock' = EndLoopBlock
    BY DEF EndLoopBlock
  <2>2. logs' = {l \in canon : BlockOf[l] >= loopBlock /\ BlockOf[l] <= EndLoopBlock}
    BY <2>1 DEF LogsIn
  <2>3. QED
    BY <2>1, <2>2 DEF BatchInv
<1>4. QED
  BY <1>1, <1>2, <1>3

\* A log that is skipped is one the indexer does not track, or has already.
LEMMA SkipLogPreserves ==
    ASSUME SourcesTracked, IInv, NEW l \in Log, SkipLog(l)
    PROVE  IInv'
<1>1. l \in Tracked => l \in stored
  BY TrackedParse DEF SkipLog, LogExists
<1> USE LogAssumption, IndexerAssumption
    DEF IInv, TypeOK, SkipLog, LogExists, chainVars, dbVars
<1>2. TypeOK' /\ ChainInv' /\ StoredInv' /\ PointerInv' /\ TurnInv'
  BY DEF ChainInv, Causal, StoredInv, PointerInv, TurnInv, Due, LogsIn
<1>3. EndLoopBlock' = EndLoopBlock
  BY DEF EndLoopBlock
<1>4. BatchInv'
  BY <1>1, <1>3 DEF BatchInv
<1>5. QED
  BY <1>2, <1>4

LEMMA CommitLogPreserves ==
    ASSUME IInv, NEW l \in Log, CommitLog(l)
    PROVE  IInv'
<1> USE LogAssumption, IndexerAssumption
    DEF IInv, TypeOK, CommitLog, chainVars
<1>1. TypeOK' /\ ChainInv' /\ PointerInv' /\ TurnInv'
  BY DEF ChainInv, Causal, PointerInv, TurnInv
<1>2. EndLoopBlock' = EndLoopBlock /\ EndLoopBlock \in Int /\ EndLoopBlock <= endBlock
  BY DEF EndLoopBlock
<1>3. l \in canon /\ l \in Tracked /\ BlockOf[l] >= loopBlock /\ BlockOf[l] <= EndLoopBlock
  BY DEF IsFirst, BatchInv, Parses
<1>4. BlockOf[l] >= MinBlock /\ BlockOf[l] <= final
  BY <1>2, <1>3 DEF TurnInv
<1>5. StoredInv'
  BY <1>3, <1>4 DEF StoredInv, Due, LogsIn
<1>6. BatchInv'
  BY <1>2 DEF BatchInv
<1>7. QED
  BY <1>1, <1>5, <1>6

\* The pointer moves past a batch only when all of it is in the database.
LEMMA SetFirstUnhandledBlockPreserves ==
    ASSUME IInv, SetFirstUnhandledBlock
    PROVE  IInv'
<1> USE LogAssumption, IndexerAssumption
    DEF IInv, TypeOK, SetFirstUnhandledBlock, chainVars
<1>1. /\ EndLoopBlock \in Nat /\ EndLoopBlock <= endBlock
      /\ EndLoopBlock >= loopBlock /\ EndLoopBlock <= loopBlock + BatchSize
      /\ EndLoopBlock < endBlock => EndLoopBlock = loopBlock + BatchSize
  BY DEF EndLoopBlock, BatchInv
<1>2. TypeOK' /\ ChainInv' /\ StoredInv'
  BY <1>1 DEF ChainInv, Causal, StoredInv, Due, LogsIn
<1>3. \A k \in canon \cap Tracked :
          BlockOf[k] >= MinBlock /\ BlockOf[k] <= EndLoopBlock => k \in stored
  <2>1. ASSUME NEW k \in canon \cap Tracked,
               BlockOf[k] >= MinBlock, BlockOf[k] <= EndLoopBlock
        PROVE  k \in stored
    <3>1. BlockOf[k] \in Nat /\ BlockOf[k] <= endBlock
      BY <1>1, <2>1
    <3>2. CASE BlockOf[k] < loopBlock
      BY <2>1, <3>1, <3>2 DEF TurnInv
    <3>3. CASE BlockOf[k] >= loopBlock
      BY <2>1, <3>3 DEF BatchInv
    <3>4. QED
      BY <3>1, <3>2, <3>3
  <2>2. QED
    BY <2>1
<1>4. PointerInv'
  BY <1>1, <1>3 DEF PointerInv, TurnInv
<1>5. TurnInv'
  BY <1>1, <1>3 DEF TurnInv
<1>6. BatchInv'
  BY DEF BatchInv
<1>7. QED
  BY <1>2, <1>4, <1>5, <1>6

LEMMA AbandonPreserves ==
    ASSUME IInv, UNCHANGED <<canon, height, final, stored, firstUnhandled>>,
           UNCHANGED <<loopBlock, endBlock>>,
           pc' = "idle", logs' = {}, faults' \in 0 .. MaxFaults
    PROVE  IInv'
BY DEF IInv, TypeOK, ChainInv, Causal, StoredInv, PointerInv, TurnInv, BatchInv, Due, LogsIn

\* IInv is inductive.
LEMMA NextInv ==
    ASSUME SourcesTracked, IInv, [Next]_vars
    PROVE  IInv'
<1>1. CASE Chain
  BY <1>1, ChainPreserves
<1>2. CASE RunHistoric(NoBlock, NoBlock)
  BY <1>2, RunHistoricPreserves
<1>3. CASE GetLogs
  BY <1>3, GetLogsPreserves
<1>4. ASSUME NEW l \in Log, SkipLog(l) PROVE IInv'
  BY <1>4, SkipLogPreserves
<1>5. ASSUME NEW l \in Log, CommitLog(l) PROVE IInv'
  BY <1>5, CommitLogPreserves
<1>6. ASSUME NEW l \in Log, RejectLog(l) PROVE IInv'
  BY <1>6, AbandonPreserves DEF RejectLog, chainVars, dbVars, IInv, TypeOK
<1>7. CASE SetFirstUnhandledBlock
  BY <1>7, SetFirstUnhandledBlockPreserves
<1>8. CASE EndTurn
  <2>1. logs = {}
    BY <1>8 DEF EndTurn, IInv, BatchInv
  <2>2. QED
    BY <1>8, <2>1, AbandonPreserves DEF EndTurn, chainVars, dbVars, IInv, TypeOK
<1>9. CASE Fail
  BY <1>9, AbandonPreserves, IndexerAssumption DEF Fail, chainVars, dbVars, IInv, TypeOK
<1>10. CASE UNCHANGED vars
  BY <1>10 DEF vars, chainVars, dbVars, turnVars, IInv, TypeOK, ChainInv, Causal,
     StoredInv, PointerInv, TurnInv, BatchInv, EndLoopBlock, Due, LogsIn
<1>11. QED
  BY <1>1, <1>2, <1>3, <1>4, <1>5, <1>6, <1>7, <1>8, <1>9, <1>10 DEF Next, Turn, HandleLog

-----------------------------------------------------------------------------
THEOREM Invariance ==
    ASSUME SourcesTracked
    PROVE  Spec => []IInv
<1>1. Init => IInv
  BY InitInv
<1>2. IInv /\ [Next]_vars => IInv'
  BY NextInv
<1>3. QED
  BY <1>1, <1>2, PTL DEF Spec

\* Every variable keeps its type.
THEOREM TypeCorrect ==
    ASSUME SourcesTracked
    PROVE  Spec => []TypeOK
<1>1. IInv => TypeOK
  BY DEF IInv
<1>2. QED
  BY <1>1, Invariance, PTL

\* No gap below the pointer, for every chain, batch size and offset, and
\* through every failure and reorganisation.
THEOREM Completeness ==
    ASSUME SourcesTracked
    PROVE  Spec => []Complete
<1>1. IInv => Complete
  BY LogAssumption, IndexerAssumption
  DEF IInv, TypeOK, PointerInv, Complete, Due, LogsIn
<1>2. QED
  BY <1>1, Invariance, PTL

\* No row of an abandoned fork.
THEOREM OnlyFinalStored ==
    ASSUME SourcesTracked
    PROVE  Spec => []OnlyFinal
<1>1. IInv => OnlyFinal
  BY LogAssumption, IndexerAssumption
  DEF IInv, TypeOK, StoredInv, OnlyFinal, Due, LogsIn
<1>2. QED
  BY <1>1, Invariance, PTL

\* The pointer only moves forward, and only over final blocks.
THEOREM PointerOnlyAdvances ==
    ASSUME SourcesTracked
    PROVE  Spec => PointerMonotonic
<1> DEFINE Advance == firstUnhandled' # firstUnhandled =>
                        /\ firstUnhandled # NoBlock => firstUnhandled' > firstUnhandled
                        /\ firstUnhandled' <= final + 1
<1>1. IInv /\ [Next]_vars => [Advance]_vars
  <2> SUFFICES ASSUME IInv, [Next]_vars, firstUnhandled' # firstUnhandled
               PROVE  Advance
    BY Zenon
  <2>1. SetFirstUnhandledBlock
    BY DEF Next, Chain, ExtendChain, Finalise, Reorganise, Turn, RunHistoric, BeginTurn, GetLogs,
           HandleLog, SkipLog, CommitLog, RejectLog, EndTurn, Fail, vars, dbVars
  <2>2. /\ EndLoopBlock \in Nat /\ EndLoopBlock <= endBlock /\ EndLoopBlock >= loopBlock
        /\ endBlock <= final /\ final \in Nat /\ endBlock \in Int /\ loopBlock \in Nat
        /\ firstUnhandled' = EndLoopBlock + 1
    BY <2>1, IndexerAssumption
    DEF SetFirstUnhandledBlock, EndLoopBlock, IInv, TypeOK, TurnInv, BatchInv
  <2>3. firstUnhandled # NoBlock => firstUnhandled \in Nat /\ firstUnhandled <= loopBlock
    BY <2>1 DEF SetFirstUnhandledBlock, IInv, TypeOK, TurnInv
  <2>4. QED
    BY <2>2, <2>3
<1>2. QED
  BY <1>1, Invariance, PTL DEF Spec, PointerMonotonic

-----------------------------------------------------------------------------
\* Growth, finalisation and reorganisation of the chain only append to the
\* settled logs.
LEMMA ChainSettles ==
    ASSUME IInv, Chain
    PROVE  Ledger!Settle
<1>1. /\ UNCHANGED stored
      /\ final <= final' /\ canon' \subseteq Log
      /\ \A l \in Log : BlockOf[l] <= final => (l \in canon <=> l \in canon')
  BY ChainStep DEF dbVars, TypeOK
<1>2. /\ final \in Nat /\ final' \in Nat /\ MinBlock \in Nat
      /\ canon \subseteq Log /\ BlockOf \in [Log -> Nat]
  BY ChainStep, LogAssumption, IndexerAssumption DEF IInv, TypeOK
<1>3. Due(MinBlock, final) \subseteq Due(MinBlock, final)'
  BY <1>1, <1>2 DEF Due, LogsIn
<1>4. ASSUME NEW k \in Due(MinBlock, final),
             NEW l \in Due(MinBlock, final)' \ Due(MinBlock, final)
      PROVE  Before(k, l)
  <2>1. k \in Log /\ BlockOf[k] <= final /\ l \in Log /\ ~(BlockOf[l] <= final)
    BY <1>1, <1>2, <1>4 DEF Due, LogsIn
  <2>2. QED
    BY <1>2, <2>1 DEF Before
<1>5. QED
  BY <1>1, <1>3, <1>4 DEF Ledger!Settle, Before, Ledger!Before

\* Committing a log appends it to the ledger: every earlier settled log is in.
LEMMA CommitRecords ==
    ASSUME IInv, NEW l \in Log, CommitLog(l)
    PROVE  Ledger!Record(l)
<1>1. l \in logs /\ IsFirst(l, logs) /\ l \in Tracked /\ l \notin stored /\ pc = "store"
  BY DEF CommitLog, IsFirst, Parses, LogExists
<1>2. IInv' /\ stored' = stored \cup {l} /\ canon' = canon /\ final' = final
  BY CommitLogPreserves DEF CommitLog, chainVars
<1>3. Due(MinBlock, final)' = Due(MinBlock, final)
  BY <1>2 DEF Due, LogsIn
<1>4. l \in Due(MinBlock, final)
  BY <1>2, <1>3 DEF IInv, StoredInv
<1>5. ASSUME NEW k \in Due(MinBlock, final), Before(k, l)
      PROVE  k \in stored
  <2>1. k \in canon \cap Tracked /\ BlockOf[k] >= MinBlock
    BY LogAssumption, IndexerAssumption DEF Due, LogsIn, IInv, TypeOK
  <2>2. QED
    BY <1>1, <1>5, <2>1, EarlierStored
<1>6. QED
  BY <1>1, <1>2, <1>3, <1>4, <1>5 DEF Ledger!Record, Before, Ledger!Before

\* The indexer implements the ledger: each tracked log of the final chain is
\* recorded once, in chain order, and a recorded log is never taken back.
THEOREM ImplementsLedger ==
    ASSUME SourcesTracked
    PROVE  Spec => LedgerSpec
<1>1. Init => Ledger!LedgerInit
  BY DEF Init, Ledger!LedgerInit, Due, LogsIn
<1>2. IInv /\ [Next]_vars => [Ledger!LedgerNext]_<<Due(MinBlock, final), stored>>
  <2> SUFFICES ASSUME IInv, [Next]_vars
               PROVE  Ledger!LedgerNext \/ UNCHANGED <<Due(MinBlock, final), stored>>
    BY Zenon
  <2>1. CASE Chain
    BY <2>1, ChainSettles DEF Ledger!LedgerNext
  <2>2. ASSUME NEW l \in Log, CommitLog(l) PROVE Ledger!LedgerNext
    BY <2>2, CommitRecords DEF Ledger!LedgerNext
  <2>3. ASSUME UNCHANGED <<canon, final, stored>>
        PROVE  UNCHANGED <<Due(MinBlock, final), stored>>
    BY <2>3 DEF Due, LogsIn
  <2>4. CASE ~Chain /\ ~(\E l \in Log : CommitLog(l))
    BY <2>3, <2>4 DEF Next, Turn, RunHistoric, BeginTurn, GetLogs, HandleLog, SkipLog, RejectLog,
       SetFirstUnhandledBlock, EndTurn, Fail, vars, chainVars, dbVars
  <2>5. QED
    BY <2>1, <2>2, <2>4
<1>3. QED
  BY <1>1, <1>2, Invariance, PTL DEF Spec, LedgerSpec, Ledger!LedgerSpec
=============================================================================
