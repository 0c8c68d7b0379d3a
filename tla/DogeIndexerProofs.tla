------------------------- MODULE DogeIndexerProofs -------------------------
(***************************************************************************)
(* Theorems about DogeIndexer, for every set of branches and payments and  *)
(* all bounds: the type invariant, that the stored heights have no hole    *)
(* and end at the pointer, that blocks and their payments are stored       *)
(* together, and that the stored blocks form one chain as long as no       *)
(* reorganisation strikes in the middle of a turn.                         *)
(***************************************************************************)
EXTENDS DogeIndexer, SequenceTheorems, TLAPS

\* What a block holds are transactions.
PaymentsAreTx == \A hash : Payments(hash) \subseteq Tx

-----------------------------------------------------------------------------
(* The inductive invariants.  One is about the heights that are stored,    *)
(* one about what is stored at each; the third says that in a turn that no *)
(* reorganisation strikes all that is stored is canonical from the end of  *)
(* the defork on.                                                          *)

Stored == DOMAIN blockRow

HeightInv ==
    /\ chain \in Seq(Branch) /\ Len(chain) <= MaxHeight
    /\ at \in Nat
    /\ firstUnhandled \in Nat \cup {NoBlock}
    /\ FirstUnhandledBlock >= MinBlock
    /\ pc \in {"idle", "defork", "purge", "range", "loop", "store", "pointer"}
    /\ NoGap
    /\ pc \in {"defork", "purge", "pointer"} => Stored = MinBlock .. at
    /\ pc = "purge" => at >= MinBlock
    /\ pc \in {"loop", "store", "pointer"} => at = FirstUnhandledBlock

BlockInv ==
    /\ \A h \in Stored : blockRow[h] \in Seq(Branch) /\ Len(blockRow[h]) = h
    /\ pc = "store" => block \in Seq(Branch) /\ Len(block) = at

PaymentInv ==
    /\ \A t \in DOMAIN txRow : txRow[t] \in Stored
    /\ \A t \in Tx, h \in Stored :
           (t \in Payments(blockRow[h])) <=> (t \in DOMAIN txRow /\ txRow[t] = h)

\* Every stored block lies beneath the higher ones.
Nested == \A g, h \in Stored : g <= h => blockRow[g] = SubSeq(blockRow[h], 1, g)

AllCanonical == \A h \in Stored : h <= Len(chain) /\ blockRow[h] = SubSeq(chain, 1, h)

ForkInv ==
    ~struck =>
        /\ Nested
        /\ pc \in {"range", "loop", "store", "pointer"} => AllCanonical
        /\ pc = "store" => at <= Len(chain) /\ block = SubSeq(chain, 1, at)

IInv == HeightInv /\ BlockInv /\ PaymentInv /\ ForkInv

-----------------------------------------------------------------------------
(* Prefixes of chains.                                                     *)

LEMMA PrefixIsChain ==
    ASSUME NEW s \in Seq(Branch), NEW n \in 0 .. Len(s)
    PROVE  SubSeq(s, 1, n) \in Seq(Branch) /\ Len(SubSeq(s, 1, n)) = n
<1>1. \A i \in 1 .. n : s[i] \in Branch
  OBVIOUS
<1>2. QED
  BY <1>1, SubSeqProperties

LEMMA PrefixOfPrefix ==
    ASSUME NEW s \in Seq(Branch), NEW h \in 1 .. Len(s), NEW g \in 1 .. h
    PROVE  SubSeq(SubSeq(s, 1, h), 1, g) = SubSeq(s, 1, g)
BY SubSeqOfSubSeq, PrefixIsChain

LEMMA PrefixOfLonger ==
    ASSUME NEW s \in Seq(Branch), NEW b \in Branch, NEW h \in 1 .. Len(s)
    PROVE  SubSeq(Append(s, b), 1, h) = SubSeq(s, 1, h)
<1>1. Append(s, b) = s \o <<b>> /\ <<b>> \in Seq(Branch)
  BY AppendIsConcat
<1>2. QED
  BY <1>1, SubSeqOfConcat1

-----------------------------------------------------------------------------
LEMMA Initially == Init => IInv
<1> SUFFICES ASSUME Init
             PROVE  IInv
  OBVIOUS
<1>1. Stored = {} /\ DOMAIN txRow = {}
  BY DEF Init, Stored
<1>2. HeightInv
  <2>1. MinBlock .. FirstUnhandledBlock - 1 = {}
    BY DogeAssumption DEF Init, FirstUnhandledBlock
  <2>2. QED
    BY <1>1, <2>1, DogeAssumption DEF Init, HeightInv, NoGap, Stored, FirstUnhandledBlock
<1>3. QED
  BY <1>1, <1>2 DEF Init, IInv, BlockInv, PaymentInv, ForkInv, Nested

\* The chain grows or is cut.
LEMMA ChainSteps ==
    ASSUME IInv, ExtendChain \/ Reorganise
    PROVE  IInv'
<1>1. CASE ExtendChain
  <2>1. PICK b \in Branch : chain' = Append(chain, b)
    BY <1>1 DEF ExtendChain
  <2>2. /\ chain' \in Seq(Branch) /\ Len(chain') = Len(chain) + 1 /\ Len(chain') <= MaxHeight
        /\ Len(chain) \in Nat
    BY <1>1, <2>1, AppendProperties, DogeAssumption DEF ExtendChain, Height, IInv, HeightInv
  <2>3. \A h \in 1 .. Len(chain) : SubSeq(chain', 1, h) = SubSeq(chain, 1, h)
    BY <2>1, PrefixOfLonger DEF IInv, HeightInv
  <2>4. \A h \in Stored : h \in Nat /\ h >= 1
    BY DogeAssumption DEF IInv, HeightInv, NoGap, FirstUnhandledBlock, Stored
  <2>5. HeightInv' /\ BlockInv' /\ PaymentInv'
    BY <1>1, <2>2 DEF ExtendChain, dbVars, turnVars, IInv, HeightInv, BlockInv, PaymentInv,
                      Stored, NoGap, FirstUnhandledBlock
  <2>6. AllCanonical => AllCanonical'
    BY <1>1, <2>2, <2>3, <2>4 DEF ExtendChain, dbVars, AllCanonical, Stored
  <2>7. pc = "store" => at >= 1
    BY DogeAssumption DEF IInv, HeightInv, FirstUnhandledBlock
  <2>8. ForkInv'
    BY <1>1, <2>2, <2>3, <2>6, <2>7 DEF ExtendChain, dbVars, turnVars, IInv, HeightInv, ForkInv,
                                        Nested, Stored
  <2>9. QED
    BY <2>5, <2>8 DEF IInv
<1>2. CASE Reorganise
  <2>1. PICK keep \in 0 .. Len(chain) - 1 : chain' = SubSeq(chain, 1, keep)
    BY <1>2 DEF Reorganise, Height, BlockHash
  <2>2. chain' \in Seq(Branch) /\ Len(chain') = keep
    BY <2>1, PrefixIsChain DEF IInv, HeightInv
  <2>3. Len(chain') <= MaxHeight
    BY <2>1, <2>2, DogeAssumption DEF IInv, HeightInv
  <2>4. HeightInv' /\ BlockInv' /\ PaymentInv'
    BY <1>2, <2>2, <2>3 DEF Reorganise, dbVars, turnVars, IInv, HeightInv, BlockInv, PaymentInv,
                      Stored, NoGap, FirstUnhandledBlock
  <2>5. ForkInv'
    BY <1>2 DEF Reorganise, dbVars, turnVars, IInv, ForkInv, Nested, Stored
  <2>6. QED
    BY <2>4, <2>5 DEF IInv
<1>3. QED
  BY <1>1, <1>2

-----------------------------------------------------------------------------
(* The turn.                                                               *)

\* Steps that leave the rows alone and do not enter the part of a turn in
\* which more is known than between turns.
LEMMA TurnAbandoned ==
    ASSUME IInv, UNCHANGED <<chainVars, dbVars>>, pc' = "idle", at' = at
    PROVE  IInv'
BY DEF chainVars, dbVars, IInv, HeightInv, BlockInv, PaymentInv, ForkInv, Nested, Stored, NoGap,
       FirstUnhandledBlock

LEMMA DeforkSteps ==
    ASSUME IInv, BeginDefork \/ CompareBlock \/ PurgeDataAtHeight
    PROVE  IInv'
<1>1. CASE BeginDefork
  <2>1. CASE Stored = {}
    BY <1>1, <2>1 DEF BeginDefork, chainVars, dbVars, IInv, HeightInv, BlockInv, PaymentInv,
                      ForkInv, Nested, AllCanonical, Stored, NoGap, FirstUnhandledBlock
  <2>2. CASE Stored # {}
    <3>1. PICK top \in Nat : top >= MinBlock /\ Stored = MinBlock .. top
      <4>1. FirstUnhandledBlock \in Nat
        BY DogeAssumption DEF IInv, HeightInv, FirstUnhandledBlock
      <4>2. CASE Stored = MinBlock .. FirstUnhandledBlock - 1
        BY <2>2, <4>1, <4>2, DogeAssumption
      <4>3. CASE Stored = MinBlock .. FirstUnhandledBlock
        BY <2>2, <4>1, <4>3, DogeAssumption
      <4>4. QED
        BY <4>2, <4>3 DEF IInv, HeightInv, NoGap, Stored
    <3>2. top \in Stored /\ \A g \in Stored : g <= top
      BY <3>1, DogeAssumption
    <3>3. at' = top /\ pc' = "defork"
      BY <1>1, <2>2, <3>1, <3>2, DogeAssumption DEF BeginDefork, Stored
    <3>4. QED
      BY <1>1, <3>1, <3>3 DEF BeginDefork, chainVars, dbVars, IInv, HeightInv, BlockInv,
                          PaymentInv, ForkInv, Nested, Stored, NoGap, FirstUnhandledBlock
  <2>3. QED
    BY <2>1, <2>2
<1>2. CASE CompareBlock
  <2>1. Stored = MinBlock .. at /\ at \in Stored /\ at <= Len(chain)
    BY <1>2 DEF CompareBlock, Height, Stored, IInv, HeightInv
  <2>2. ASSUME pc' = "range", Nested
        PROVE  AllCanonical
    <3>1. blockRow[at] = SubSeq(chain, 1, at)
      BY <1>2, <2>2 DEF CompareBlock, BlockHash
    <3>2. ASSUME NEW h \in Stored
          PROVE  h <= Len(chain) /\ blockRow[h] = SubSeq(chain, 1, h)
      <4>1. h \in 1 .. at /\ at \in 1 .. Len(chain)
        BY <2>1, DogeAssumption DEF IInv, HeightInv
      <4>2. blockRow[h] = SubSeq(SubSeq(chain, 1, at), 1, h)
        BY <2>1, <2>2, <3>1, <4>1 DEF Nested
      <4>3. QED
        BY <4>1, <4>2, PrefixOfPrefix DEF IInv, HeightInv
    <3>3. QED
      BY <3>2 DEF AllCanonical
  <2>3. HeightInv' /\ BlockInv' /\ PaymentInv'
    BY <1>2, <2>1, DogeAssumption
       DEF CompareBlock, chainVars, dbVars, IInv, HeightInv, BlockInv, PaymentInv, Stored,
           NoGap, FirstUnhandledBlock
  <2>4. ForkInv'
    BY <1>2, <2>2 DEF CompareBlock, chainVars, dbVars, IInv, ForkInv, Nested, AllCanonical, Stored
  <2>5. QED
    BY <2>3, <2>4 DEF IInv
<1>3. CASE PurgeDataAtHeight
  <2>1. /\ Stored = MinBlock .. at /\ at \in Nat /\ at >= MinBlock /\ at > 0
        /\ MinBlock \in Nat
    BY <1>3, DogeAssumption DEF PurgeDataAtHeight, IInv, HeightInv
  <2>2. /\ Stored' = MinBlock .. at - 1
        /\ \A h \in Stored' : h \in Stored /\ blockRow'[h] = blockRow[h]
    BY <1>3, <2>1 DEF PurgeDataAtHeight, Stored
  <2>3. /\ firstUnhandled' = at /\ at' = at - 1 /\ pc' = "defork"
        /\ txRow' = txRow /\ chain' = chain /\ struck' = struck
    BY <1>3, <2>1 DEF PurgeDataAtHeight, chainVars
  <2>4. HeightInv'
    BY <2>1, <2>2, <2>3, DogeAssumption DEF IInv, HeightInv, NoGap, FirstUnhandledBlock, Stored
  <2>5. BlockInv'
    BY <2>2, <2>3 DEF IInv, BlockInv
  <2>6. PaymentInv'
    <3>1. \A t \in DOMAIN txRow : txRow[t] # at
      BY <1>3 DEF PurgeDataAtHeight, Referenced
    <3>2. \A t \in DOMAIN txRow' : txRow'[t] \in Stored'
      BY <2>1, <2>2, <2>3, <3>1 DEF IInv, PaymentInv
    <3>3. QED
      BY <2>2, <2>3, <3>2 DEF IInv, PaymentInv
  <2>7. ForkInv'
    BY <2>2, <2>3 DEF IInv, ForkInv, Nested
  <2>8. QED
    BY <2>4, <2>5, <2>6, <2>7 DEF IInv
<1>4. QED
  BY <1>1, <1>2, <1>3

LEMMA FetchSteps ==
    ASSUME IInv, BeginRange \/ FetchBlock
    PROVE  IInv'
<1>1. FirstUnhandledBlock \in Nat /\ FirstUnhandledBlock >= MinBlock
  BY DogeAssumption DEF IInv, HeightInv, FirstUnhandledBlock
<1>2. CASE BeginRange
  BY <1>1, <1>2, DogeAssumption
     DEF BeginRange, chainVars, dbVars, IInv, HeightInv, BlockInv, PaymentInv, ForkInv, Nested,
         AllCanonical, Stored, NoGap, FirstUnhandledBlock
<1>3. CASE FetchBlock /\ at <= Height
  <2>1. block' = SubSeq(chain, 1, at) /\ pc' = "store" /\ at \in 0 .. Len(chain)
    BY <1>3 DEF FetchBlock, BlockHash, Height, IInv, HeightInv
  <2>2. block' \in Seq(Branch) /\ Len(block') = at
    BY <2>1, PrefixIsChain DEF IInv, HeightInv
  <2>3. QED
    BY <1>3, <2>1, <2>2
       DEF FetchBlock, chainVars, dbVars, IInv, HeightInv, BlockInv, PaymentInv, ForkInv,
           Nested, AllCanonical, Stored, NoGap, FirstUnhandledBlock
<1>4. CASE FetchBlock /\ ~(at <= Height)
  BY <1>4, TurnAbandoned DEF FetchBlock
<1>5. QED
  BY <1>2, <1>3, <1>4

LEMMA StoreSteps ==
    ASSUME IInv, ProcessBlock \/ SetFirstUnhandledBlock
    PROVE  IInv'
<1>1. FirstUnhandledBlock \in Nat /\ FirstUnhandledBlock >= MinBlock /\ MinBlock \in Nat \ {0}
  BY DogeAssumption DEF IInv, HeightInv, FirstUnhandledBlock
<1>2. CASE ProcessBlock
  <2>1. /\ at = FirstUnhandledBlock /\ at \notin Stored
        /\ Stored = MinBlock .. at - 1
    BY <1>1, <1>2 DEF ProcessBlock, Accepts, IInv, HeightInv, NoGap, Stored
  <2>2. /\ Stored' = MinBlock .. at
        /\ blockRow'[at] = block
        /\ \A h \in Stored : blockRow'[h] = blockRow[h]
    BY <1>1, <1>2, <2>1 DEF ProcessBlock, Stored
  <2>3. /\ pc' = "pointer" /\ at' = at /\ firstUnhandled' = firstUnhandled
        /\ chain' = chain /\ struck' = struck
    BY <1>2 DEF ProcessBlock, chainVars
  <2>4. Stored' = Stored \cup {at}
    BY <1>1, <2>1, <2>2
  <2>5. HeightInv'
    BY <1>1, <2>1, <2>2, <2>3 DEF IInv, HeightInv, NoGap, FirstUnhandledBlock, Stored
  <2>6. BlockInv'
    BY <1>2, <2>2, <2>3, <2>4 DEF ProcessBlock, IInv, BlockInv
  <2>7. PaymentInv'
    <3>1. /\ DOMAIN txRow' = DOMAIN txRow \cup Payments(block)
          /\ DOMAIN txRow \cap Payments(block) = {}
          /\ \A t \in Payments(block) : txRow'[t] = at
          /\ \A t \in DOMAIN txRow : txRow'[t] = txRow[t]
      BY <1>2 DEF ProcessBlock, Accepts
    <3>2. \A t \in DOMAIN txRow' : txRow'[t] \in Stored'
      BY <2>4, <3>1 DEF IInv, PaymentInv
    <3>3. ASSUME NEW t \in Tx, NEW h \in Stored
          PROVE  (t \in Payments(blockRow'[h])) <=> (t \in DOMAIN txRow' /\ txRow'[t] = h)
      <4>1. h # at /\ blockRow'[h] = blockRow[h]
        BY <2>1, <2>2
      <4>2. (t \in Payments(blockRow[h])) <=> (t \in DOMAIN txRow /\ txRow[t] = h)
        BY DEF IInv, PaymentInv
      <4>3. QED
        BY <3>1, <4>1, <4>2
    <3>4. ASSUME NEW t \in Tx
          PROVE  (t \in Payments(blockRow'[at])) <=> (t \in DOMAIN txRow' /\ txRow'[t] = at)
      <4>1. t \in DOMAIN txRow => txRow[t] # at
        BY <2>1 DEF IInv, PaymentInv
      <4>2. QED
        BY <2>2, <3>1, <4>1
    <3>5. QED
      BY <2>4, <3>2, <3>3, <3>4 DEF PaymentInv
  <2>8. ForkInv'
    <3>1. SUFFICES ASSUME ~struck
                   PROVE  Nested' /\ AllCanonical'
      BY <2>3 DEF ForkInv
    <3>2. /\ Nested /\ AllCanonical
          /\ at <= Len(chain) /\ block = SubSeq(chain, 1, at)
      BY <1>2, <3>1 DEF ProcessBlock, IInv, ForkInv
    <3>3. AllCanonical'
      BY <2>2, <2>3, <2>4, <3>2 DEF AllCanonical
    <3>4. ASSUME NEW g \in Stored', NEW h \in Stored', g <= h
          PROVE  blockRow'[g] = SubSeq(blockRow'[h], 1, g)
      <4>1. g \in 1 .. h /\ h \in 1 .. Len(chain) /\ chain \in Seq(Branch)
        BY <1>1, <2>2, <3>2, <3>4 DEF IInv, HeightInv
      <4>2. blockRow'[g] = SubSeq(chain, 1, g) /\ blockRow'[h] = SubSeq(chain, 1, h)
        BY <3>3, <2>3 DEF AllCanonical
      <4>3. QED
        BY <4>1, <4>2, PrefixOfPrefix
    <3>5. QED
      BY <3>3, <3>4 DEF Nested
  <2>9. QED
    BY <2>5, <2>6, <2>7, <2>8 DEF IInv
<1>3. CASE SetFirstUnhandledBlock
  <2>1. HeightInv'
    BY <1>1, <1>3, DogeAssumption
       DEF SetFirstUnhandledBlock, chainVars, IInv, HeightInv, NoGap, FirstUnhandledBlock, Stored
  <2>2. BlockInv' /\ PaymentInv' /\ ForkInv'
    BY <1>3 DEF SetFirstUnhandledBlock, chainVars, IInv, BlockInv, PaymentInv, ForkInv, Nested,
                AllCanonical, Stored
  <2>3. QED
    BY <2>1, <2>2 DEF IInv
<1>4. QED
  BY <1>2, <1>3

LEMMA Preserved ==
    ASSUME IInv, [Next]_vars
    PROVE  IInv'
<1>1. CASE CompareFails \/ PurgeRejected \/ ProcessBlockRejected \/ EndTurn \/ Fail
  <2>1. UNCHANGED <<chainVars, dbVars>> /\ pc' = "idle" /\ at' = at
    BY <1>1 DEF CompareFails, PurgeRejected, ProcessBlockRejected, EndTurn, Fail
  <2>2. QED
    BY <2>1, TurnAbandoned
<1>2. CASE UNCHANGED vars
  BY <1>2 DEF vars, chainVars, dbVars, turnVars, IInv, HeightInv, BlockInv, PaymentInv, ForkInv,
              Nested, AllCanonical, Stored, NoGap, FirstUnhandledBlock
<1>3. QED
  BY <1>1, <1>2, ChainSteps, DeforkSteps, FetchSteps, StoreSteps DEF Next, RunHistoric

\* The invariant the other theorems rest on.
THEOREM Invariance == Spec => []IInv
<1>1. Init => IInv
  BY Initially
<1>2. IInv /\ [Next]_vars => IInv'
  BY Preserved
<1>3. QED
  BY <1>1, <1>2, PTL DEF Spec

\* The stored heights have no hole and end at the pointer, or one above it
\* when its commit is due, through every fork, crash and refused transaction.
THEOREM HeightsInStep == Spec => []NoGap
<1>1. IInv => NoGap
  BY DEF IInv, HeightInv
<1>2. QED
  BY <1>1, Invariance, PTL

\* A block is stored with exactly its payments, whatever is purged or refused.
THEOREM PaymentsInStep == Spec => []PaymentsRecorded
<1>1. IInv => PaymentsRecorded
  BY DEF IInv, PaymentInv, PaymentsRecorded, Stored
<1>2. QED
  BY <1>1, Invariance, PTL

\* As long as every reorganisation comes between two turns, the defork leaves
\* one chain: each stored block is the parent of the next.
THEOREM OneChainKept == Spec => []OneChain
<1>1. ASSUME IInv, ~struck, NEW h \in DOMAIN blockRow, h - 1 \in DOMAIN blockRow
      PROVE  blockRow[h - 1] = Front(blockRow[h])
  <2>1. h \in Int
    BY <1>1, DogeAssumption DEF IInv, HeightInv, NoGap, FirstUnhandledBlock
  <2>2. blockRow[h - 1] = SubSeq(blockRow[h], 1, h - 1)
    BY <1>1, <2>1 DEF IInv, ForkInv, Nested, Stored
  <2>3. Len(blockRow[h]) = h
    BY <1>1 DEF IInv, BlockInv, Stored
  <2>4. QED
    BY <2>2, <2>3 DEF Front
<1>2. IInv => OneChain
  BY <1>1 DEF OneChain
<1>3. QED
  BY <1>2, Invariance, PTL

\* The type invariant, when what a block holds are transactions.
THEOREM TypeCorrect ==
    ASSUME PaymentsAreTx
    PROVE  Spec => []TypeOK
<1> DEFINE TxTyped == DOMAIN txRow \subseteq Tx
<1>1. Init => TxTyped
  BY DEF Init
<1>2. TxTyped /\ [Next]_vars => TxTyped'
  <2>1. ProcessBlock => DOMAIN txRow' = DOMAIN txRow \cup Payments(block)
    BY DEF ProcessBlock
  <2>2. [Next]_vars => ProcessBlock \/ txRow' = txRow
    BY DEF Next, RunHistoric, vars, dbVars, ExtendChain, Reorganise, BeginDefork, CompareBlock,
           CompareFails, PurgeDataAtHeight, PurgeRejected, BeginRange, FetchBlock,
           ProcessBlockRejected, SetFirstUnhandledBlock, EndTurn, Fail
  <2>3. QED
    BY <2>1, <2>2 DEF PaymentsAreTx
<1>3. IInv /\ TxTyped => TypeOK
  <2>1. ASSUME IInv
        PROVE  \A h \in DOMAIN blockRow : h >= MinBlock
    BY <2>1, DogeAssumption DEF IInv, HeightInv, NoGap, FirstUnhandledBlock
  <2>2. QED
    BY <2>1 DEF IInv, HeightInv, BlockInv, TypeOK, Height, Stored
<1>4. QED
  BY <1>1, <1>2, <1>3, Invariance, PTL DEF Spec
=============================================================================
