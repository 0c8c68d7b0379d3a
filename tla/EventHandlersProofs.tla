-------------------------- MODULE EventHandlersProofs --------------------------
(***************************************************************************)
(* Proofs about EventHandlers, for every list of events that is closed and *)
(* every update from one to another: no handler misses a row that the      *)
(* passes of the update do not make it wait for, and every redemption of a *)
(* smart account is linked to the request the chain gave it.               *)
(***************************************************************************)
EXTENDS EventHandlers, WellFoundedInduction, TLAPS

(***************************************************************************)
(* The inductive invariant.                                                *)
(*                                                                         *)
(* Every log of the history comes after logs of all it refers to.  What    *)
(* the passes are through with is stored: the old events below the main    *)
(* pointer; the new ones below the back pass's, which in a back update     *)
(* counts up to the block of the hand-over only, and from that block on    *)
(* below the main pointer; and in a turn all that comes before its log.    *)
(* The exception are the pool events of the hand-over's block, which the   *)
(* back pass may drop and the main one takes.                              *)
(***************************************************************************)
Emittable == UNION { Ancestors[t] : t \in Targets }

HistoryInv ==
    /\ history \in Seq([event : Emittable, block : Nat \ {0}])
    /\ \A i, j \in DOMAIN history : i <= j => Block(i) <= Block(j)
    /\ \A b \in 1 .. Top : \E i \in DOMAIN history : Block(i) = b
    /\ \A i \in DOMAIN history : \A R \in CausedBy[Event(i)] :
           \E j \in DOMAIN history : j < i /\ Event(j) \in R

TypeInv ==
    /\ target \in Targets /\ update \in DOMAIN Updates
    /\ stored \subseteq DOMAIN history
    /\ next \in [{"main", "back"} -> Nat \ {0}] /\ handover \in Nat
    /\ stage \in {"chain", "before", "back", "front", "whole"}
    /\ pos \in 0 .. Len(history) + 1

StageInv ==
    /\ stage = "chain" =>
           stored = {} /\ link = [i \in {} |-> 0] /\ pos = 0 /\ threw = {} /\ handover = 0
           /\ next = [main |-> 1, back |-> 1]
    /\ stage = "before" => handover = 0
    /\ Type = "none" => stage \in {"chain", "whole"}
    /\ Type # "back" => handover = 0
    /\ Type = "race" /\ stage # "whole" => next["back"] <= next["main"]
    /\ Type = "race" /\ stage = "back" /\ pos # 0 => next["back"] < next["main"]
    /\ Type = "back" =>
           /\ handover <= next["main"]
           /\ handover = 0 => next["back"] = 1 /\ stage \notin {"front", "whole"}
           /\ stage = "back" /\ pos # 0 => handover # 0 /\ next["back"] <= handover
           /\ stage = "whole" => handover < next["back"]

Covered(i) ==
    \/ stage = "whole" /\ Type # "back" /\ Event(i) \in New /\ Block(i) < next["main"]
    \/ Event(i) \in Old /\ Block(i) < next["main"]
    \/ Event(i) \in Diff /\ Block(i) < next["back"] /\ (Type = "back" => Block(i) < handover)
    \/ /\ Event(i) \in Diff /\ Type = "back" /\ handover # 0
       /\ Block(i) >= handover /\ Block(i) < next["main"]

CoverInv == \A i \in DOMAIN history : Covered(i) => i \in stored

\* The pass whose turn it is, and the events it handles.
Passing  == IF stage = "back" THEN "back" ELSE "main"
Handling == CASE stage = "before" -> Old
              [] stage = "back"   -> Diff
              [] stage = "front"  -> FrontList
              [] OTHER            -> New

TurnInv ==
    pos # 0 =>
        /\ stage # "chain"
        /\ \A i \in DOMAIN history : i < pos => Block(i) <= next[Passing]
        /\ \A i \in DOMAIN history : i >= pos => Block(i) >= next[Passing]
        /\ \A i \in DOMAIN history :
               i < pos /\ Block(i) = next[Passing] /\ Event(i) \in Handling
               /\ (Event(i) \in KnownByVault => ~ (stage = "back" /\ next["back"] = handover))
                   => i \in stored

IInv == HistoryInv /\ TypeInv /\ StageInv /\ CoverInv /\ TurnInv /\ RowsAwaited

-----------------------------------------------------------------------------
(* The lists.                                                              *)

LEMMA AtMostCaused ==
    /\ \A e \in Handled : Requires[e] \subseteq CausedBy[e]
    /\ \A e \in Handled \cap KnownByVault : {AgentVaultCreated} \in CausedBy[e]
BY DEF CausedBy

\* No row that a handler needs is one of a pool's.
LEMMA RowsOfVaults ==
    /\ \A e \in Handled : \A R \in Requires[e] : \A c \in R : c \notin KnownByVault
    /\ AgentVaultCreated \notin KnownByVault
<1>1. \A e \in KnownByVault : e[1] = "COLLATERAL_POOL"
  BY DEF KnownByVault, OldPoolEvents, PoolEvents, PoolTokenTransfer, Of
<1>2. ASSUME NEW r \in Requirements, NEW c \in r[2]
      PROVE  c[1] # "COLLATERAL_POOL"
  <2>1. r[2] \in { {CollateralTypeAdded}, {AgentVaultCreated}, {CollateralReserved},
                   RedemptionRequests, AM({"RedemptionTicketCreated"}),
                   AM({"UnderlyingWithdrawalAnnounced"}), AM({"TransferToCoreVaultStarted"}),
                   AM({"ReturnFromCoreVaultRequested"}), {PersonalAccount}, {TokenTransfer} }
    BY DEF Requirements
  <2>2. \A names : \A x \in AM(names) : x[1] = "ASSET_MANAGER"
    BY DEF AM, Of
  <2>3. QED
    BY <2>1, <2>2 DEF RedemptionRequests, CollateralTypeAdded, AgentVaultCreated,
       CollateralReserved, PersonalAccount, TokenTransfer
<1>3. ASSUME NEW e \in Handled, NEW R \in Requires[e]
      PROVE  \E r \in Requirements : R = r[2]
  BY DEF Requires
<1>4. AgentVaultCreated[1] # "COLLATERAL_POOL"
  BY DEF AgentVaultCreated
<1>5. QED
  BY <1>1, <1>2, <1>3, <1>4

LEMMA ListsAre ==
    ASSUME ListsClosed, update \in DOMAIN Updates
    PROVE  /\ Old \subseteq New /\ New \subseteq Handled /\ Type \in {"none", "race", "back"}
           /\ \A e \in Old : \A R \in CausedBy[e] : R \subseteq Old
           /\ \A e \in New : \A R \in CausedBy[e] : R \subseteq New
           /\ Type = "back" => AgentVaultCreated \notin Diff
<1>1. Updates[update] \in Range(Updates)
  BY DEF Range
<1>2. QED
  BY <1>1, HandlersAssumption DEF ListsClosed, Old, New, Type, Diff

-----------------------------------------------------------------------------
LEMMA InitInv == Init => IInv
<1> SUFFICES ASSUME Init PROVE IInv
  OBVIOUS
<1> USE DEF Init
<1>1. Len(history) = 0 /\ Top = 0 /\ DOMAIN history = {}
  BY DEF Top
<1>2. HistoryInv
  BY <1>1 DEF HistoryInv
<1>3. TypeInv
  BY <1>1 DEF TypeInv
<1>4. StageInv /\ CoverInv /\ TurnInv /\ RowsAwaited
  BY <1>1 DEF StageInv, CoverInv, TurnInv, RowsAwaited
<1>5. QED
  BY <1>2, <1>3, <1>4 DEF IInv

\* What is known of any log of the history.
LEMMA LogFacts ==
    ASSUME HistoryInv
    PROVE  /\ DOMAIN history = 1 .. Len(history) /\ Len(history) \in Nat
           /\ \A i \in DOMAIN history :
                  history[i] = [event |-> Event(i), block |-> Block(i)]
                  /\ Event(i) \in Emittable /\ Block(i) \in Nat \ {0} /\ Block(i) <= Top
           /\ Top \in Nat
<1>1. /\ DOMAIN history = 1 .. Len(history) /\ Len(history) \in Nat
      /\ \A i \in DOMAIN history : history[i] \in [event : Emittable, block : Nat \ {0}]
  <2> DEFINE S == [event : Emittable, block : Nat \ {0}]
  <2>1. history \in Seq(S)
    BY DEF HistoryInv
  <2> HIDE DEF S
  <2>2. /\ DOMAIN history = 1 .. Len(history) /\ Len(history) \in Nat
        /\ \A i \in DOMAIN history : history[i] \in S
    BY <2>1
  <2>3. QED
    BY <2>2 DEF S
<1>2. \A i \in DOMAIN history :
          history[i] = [event |-> Event(i), block |-> Block(i)]
          /\ Event(i) \in Emittable /\ Block(i) \in Nat \ {0}
  BY <1>1 DEF Event, Block
<1>3. CASE history = <<>>
  BY <1>1, <1>2, <1>3 DEF Top
<1>4. CASE history # <<>>
  <2>1. Len(history) \in DOMAIN history /\ Top = Block(Len(history))
    BY <1>1, <1>4 DEF Top
  <2>2. QED
    BY <1>1, <1>2, <2>1 DEF HistoryInv
<1>5. QED
  BY <1>3, <1>4

\* The chain emits a log after those it refers to, in its last block or in the
\* next.
LEMMA EmitPreserves ==
    ASSUME IInv, NEW e \in Ancestors[target], NEW block \in {Top, Top + 1}, Emit(e, block)
    PROVE  IInv'
<1> DEFINE n == Len(history)
<1>1. /\ stage = "chain" /\ block # 0
      /\ \A R \in CausedBy[e] : Emitted(R) # {}
      /\ history' = Append(history, [event |-> e, block |-> block])
      /\ UNCHANGED <<target, update, stored, link, next, handover, stage, pos, threw>>
  BY DEF Emit, passVars
<1>2. /\ DOMAIN history = 1 .. n /\ n \in Nat /\ Top \in Nat
      /\ \A i \in 1 .. n : Block(i) \in Nat \ {0} /\ Block(i) <= Top
  BY LogFacts DEF IInv
<1>3. [event |-> e, block |-> block] \in [event : Emittable, block : Nat \ {0}]
  BY <1>1, <1>2 DEF Emittable, IInv, TypeInv
<1> DEFINE S == [event : Emittable, block : Nat \ {0}]
<1>4. history \in Seq(S) /\ [event |-> e, block |-> block] \in S
  BY <1>3 DEF IInv, HistoryInv
<1> HIDE DEF S
<1>5. history' \in Seq(S)
  BY <1>1, <1>4
<1>6. /\ Len(history') = n + 1 /\ DOMAIN history' = 1 .. n + 1
      /\ \A i \in 1 .. n : history'[i] = history[i]
      /\ history'[n + 1] = [event |-> e, block |-> block]
  BY <1>1, <1>2, <1>4
<1>7. Top' = block
  <2>1. history' # <<>>
    BY <1>2, <1>6
  <2>2. QED
    BY <1>2, <1>6, <2>1 DEF Top, Block
<1> HIDE DEF n
<1>8. HistoryInv'
  <2>1. ASSUME NEW i \in 1 .. n + 1, NEW j \in 1 .. n + 1, i <= j
        PROVE  history'[i].block <= history'[j].block
    <3>1. CASE j = n + 1
      BY <1>2, <1>6, <3>1 DEF Block
    <3>2. CASE j # n + 1
      <4>1. i \in 1 .. n /\ j \in 1 .. n
        BY <1>2, <2>1, <3>2
      <4>2. Block(i) <= Block(j)
        BY <1>2, <2>1, <4>1 DEF IInv, HistoryInv
      <4>3. QED
        BY <1>6, <4>1, <4>2 DEF Block
    <3>3. QED
      BY <3>1, <3>2
  <2>2. ASSUME NEW b \in 1 .. block
        PROVE  \E i \in 1 .. n + 1 : history'[i].block = b
    <3>1. CASE b = block
      BY <1>2, <1>6, <3>1
    <3>2. CASE b # block
      <4>1. b \in 1 .. Top
        BY <1>2, <3>2
      <4>2. PICK i \in 1 .. n : Block(i) = b
        BY <1>2, <4>1 DEF IInv, HistoryInv
      <4>3. QED
        BY <1>2, <1>6, <4>2 DEF Block
    <3>3. QED
      BY <3>1, <3>2
  <2>3. ASSUME NEW i \in 1 .. n + 1, NEW R \in CausedBy[history'[i].event]
        PROVE  \E j \in 1 .. n + 1 : j < i /\ history'[j].event \in R
    <3>1. CASE i = n + 1
      <4>1. PICK j \in 1 .. n : Event(j) \in R
        BY <1>1, <1>2, <1>6, <2>3, <3>1 DEF Emitted, EmittedIn
      <4>2. QED
        BY <1>2, <1>6, <3>1, <4>1 DEF Event
    <3>2. CASE i # n + 1
      <4>1. i \in 1 .. n /\ R \in CausedBy[Event(i)]
        BY <1>2, <1>6, <2>3, <3>2 DEF Event
      <4>2. PICK j \in 1 .. n : j < i /\ Event(j) \in R
        BY <1>2, <4>1 DEF IInv, HistoryInv
      <4>3. QED
        BY <1>2, <1>6, <4>2 DEF Event
    <3>3. QED
      BY <3>1, <3>2
  <2>4. QED
    BY <1>6, <1>7, <1>5, <2>1, <2>2, <2>3 DEF HistoryInv, Event, Block, S
<1>9. TypeInv'
  BY <1>1, <1>2, <1>6 DEF IInv, TypeInv
<1>10. StageInv' /\ TurnInv' /\ RowsAwaited'
  BY <1>1 DEF IInv, StageInv, Type, TurnInv, RowsAwaited
<1>11. CoverInv'
  <2>1. /\ stage' = "chain" /\ next' = [main |-> 1, back |-> 1] /\ handover' = 0
    BY <1>1 DEF IInv, StageInv
  <2>2. ASSUME NEW i \in DOMAIN history'
        PROVE  ~(Block(i)' < 1) /\ ~(Block(i)' < 0)
    <3>1. CASE i = n + 1
      BY <1>1, <1>2, <1>6, <3>1 DEF Block
    <3>2. CASE i # n + 1
      BY <1>2, <1>6, <3>2 DEF Block
    <3>3. QED
      BY <3>1, <3>2
  <2>3. QED
    BY <2>1, <2>2 DEF CoverInv, Covered
<1>12. QED
  BY <1>8, <1>9, <1>10, <1>11 DEF IInv

-----------------------------------------------------------------------------
(* The least of some natural numbers: a turn begins at it.                 *)

LEMMA NatOrder ==
    \E R : IsWellFoundedOn(R, Nat) /\ \A x, y \in Nat : <<y, x>> \in R <=> y < x
<1>1. IsWellFoundedOn({ss \in Nat \X Nat : ss[1] < ss[2]}, Nat)
  BY NatLessThanWellFounded DEF OpToRel
<1>2. \A x, y \in Nat : <<y, x>> \in {ss \in Nat \X Nat : ss[1] < ss[2]} <=> y < x
  OBVIOUS
<1>3. QED
  BY <1>1, <1>2

LEMMA LeastNatural ==
    ASSUME NEW T \in SUBSET Nat, T # {}
    PROVE  \E x \in T : \A y \in T : x <= y
<1>1. PICK R : IsWellFoundedOn(R, Nat) /\ \A x, y \in Nat : <<y, x>> \in R <=> y < x
  BY NatOrder
<1>2. PICK x \in T : \A y \in T : ~ (<<y, x>> \in R)
  BY <1>1, WFMin
<1>3. \A y \in T : ~ (y < x)
  <2>1. \A m, n \in Nat : <<n, m>> \in R <=> n < m
    BY <1>1
  <2>2. QED
    BY <1>2, <2>1
<1>4. QED
  BY <1>3

LEMMA MinIs ==
    ASSUME NEW T \in SUBSET Nat, T # {}
    PROVE  Min(T) \in T /\ \A y \in T : Min(T) <= y
BY LeastNatural DEF Min

\* A turn begins at the first log of its block.
LEMMA FirstOfBlock ==
    ASSUME HistoryInv, NEW n \in Nat \ {0}, n <= Top,
           NEW m, m = Min({ i \in DOMAIN history : Block(i) = n })
    PROVE  /\ m \in DOMAIN history
           /\ \A i \in DOMAIN history : i < m => Block(i) <= n /\ Block(i) # n
           /\ \A i \in DOMAIN history : i >= m => Block(i) >= n
<1> DEFINE T == { i \in DOMAIN history : Block(i) = n }
<1>1. /\ DOMAIN history = 1 .. Len(history) /\ Len(history) \in Nat /\ Top \in Nat
      /\ \A i \in DOMAIN history : Block(i) \in Nat
  BY LogFacts
<1>2. T \in SUBSET Nat /\ T # {}
  <2>1. n \in 1 .. Top
    BY <1>1
  <2>2. QED
    BY <1>1, <2>1 DEF HistoryInv
<1>3. m \in T /\ \A y \in T : m <= y
  BY <1>2, MinIs
<1>4. \A i, j \in DOMAIN history : i <= j => Block(i) <= Block(j)
  BY DEF HistoryInv
<1>5. ASSUME NEW i \in DOMAIN history, i < m
      PROVE  Block(i) <= n /\ Block(i) # n
  <2>1. i <= m /\ ~ (m <= i)
    BY <1>1, <1>3, <1>5
  <2>2. QED
    BY <1>3, <1>4, <2>1
<1>6. ASSUME NEW i \in DOMAIN history, i >= m
      PROVE  Block(i) >= n
  BY <1>1, <1>3, <1>4, <1>6
<1>7. QED
  BY <1>3, <1>5, <1>6

-----------------------------------------------------------------------------
(* What a log refers to is stored when a pass meets the log, but for what  *)
(* the two passes of a back update do to each other.                       *)

AtLog ==
    /\ pos \in DOMAIN history /\ pos # 0
    /\ Block(pos) = next[Passing] /\ Event(pos) \in Handling

LEMMA CauseStored ==
    ASSUME ListsClosed, IInv, AtLog,
           NEW R \in CausedBy[Event(pos)], NEW j \in DOMAIN history,
           j < pos, Event(j) \in R, Event(j) \notin KnownByVault, j \notin stored
    PROVE  /\ Type = "back" /\ handover # 0
           /\ \/ /\ stage = "back" /\ Event(pos) \in Diff /\ Event(j) \in Old
                 /\ Block(j) = handover /\ Block(pos) = handover
              \/ stage = "front" /\ Event(j) \in Diff /\ Block(j) < handover
<1>1. /\ DOMAIN history = 1 .. Len(history) /\ Len(history) \in Nat
      /\ \A i \in DOMAIN history : Block(i) \in Nat \ {0}
  BY LogFacts DEF IInv
<1>2. /\ next["main"] \in Nat \ {0} /\ next["back"] \in Nat \ {0} /\ handover \in Nat
      /\ stage \in {"before", "back", "front", "whole"}
  BY DEF IInv, TypeInv, TurnInv, AtLog
<1>3. /\ Type \in {"none", "race", "back"} /\ Old \subseteq New /\ New = Old \cup Diff
      /\ \A e \in Old : \A S \in CausedBy[e] : S \subseteq Old
      /\ \A e \in New : \A S \in CausedBy[e] : S \subseteq New
  BY ListsAre DEF IInv, TypeInv, Diff
<1>4. Block(j) <= Block(pos) /\ Block(j) <= next[Passing]
  BY <1>1 DEF IInv, HistoryInv, AtLog
<1>5. Block(j) = next[Passing] => Event(j) \notin Handling
  BY DEF IInv, TurnInv, AtLog
<1>6. ~ Covered(j)
  BY DEF IInv, CoverInv
<1> USE DEF AtLog, Passing, Handling, Covered
<1>7. CASE stage = "before"
  BY <1>1, <1>2, <1>3, <1>4, <1>5, <1>6, <1>7
<1>8. CASE stage = "whole"
  <2>1. Type = "back" => handover # 0 /\ handover < next["back"]
    BY <1>8 DEF IInv, StageInv
  <2>2. Event(j) \in New /\ Block(j) < next["main"]
    BY <1>1, <1>2, <1>3, <1>4, <1>5, <1>8
  <2>3. CASE Type = "back" /\ Event(j) \in Diff
    <3>1. Block(j) < handover => Block(j) < next["back"]
      BY <1>1, <1>2, <2>1, <2>3
    <3>2. Block(j) < handover
      BY <1>1, <1>2, <1>6, <2>1, <2>2, <2>3
    <3>3. QED
      BY <1>6, <2>3, <3>1, <3>2
  <2>4. QED
    BY <1>3, <1>6, <1>8, <2>2, <2>3
<1>9. CASE stage = "front"
  <2>1. Type # "none" /\ (Type = "back" => handover # 0)
    BY <1>9 DEF IInv, StageInv
  <2>2. QED
    BY <1>1, <1>2, <1>3, <1>4, <1>5, <1>6, <1>9, <2>1 DEF FrontList
<1>10. CASE stage = "back"
  <2>1. /\ Type # "none"
        /\ Type = "race" => next["back"] < next["main"]
        /\ Type = "back" => /\ handover # 0 /\ next["back"] <= handover
                            /\ handover <= next["main"]
    BY <1>10 DEF IInv, StageInv
  <2>2. /\ Event(pos) \in Diff /\ Event(j) \in New /\ Block(pos) = next["back"]
        /\ Block(j) <= next["back"]
    BY <1>3, <1>4, <1>10
  <2>3. CASE Event(j) \in Diff
    <3>1. Block(j) # next["back"]
      BY <1>5, <1>10, <2>3
    <3>2. Block(j) < next["back"]
      BY <1>1, <1>2, <2>2, <3>1
    <3>3. Type = "back" => Block(j) < handover
      BY <1>1, <1>2, <2>1, <3>2
    <3>4. QED
      BY <1>6, <2>3, <3>2, <3>3
  <2>4. CASE Event(j) \in Old
    <3>1. ~ (Block(j) < next["main"])
      BY <1>6, <2>4
    <3>2. Type # "race"
      BY <1>1, <1>2, <2>1, <2>2, <3>1
    <3>3. Type = "back"
      BY <1>3, <2>1, <3>2
    <3>4. Block(j) = handover /\ Block(pos) = handover
      BY <1>1, <1>2, <2>1, <2>2, <3>1, <3>3
    <3>5. QED
      BY <1>10, <2>1, <2>2, <2>4, <3>3, <3>4
  <2>5. QED
    BY <1>3, <2>2, <2>3, <2>4
<1>11. QED
  BY <1>2, <1>7, <1>8, <1>9, <1>10

\* The vault of a pool whose event is met is stored, or the event may wait.
LEMMA SourceStored ==
    ASSUME ListsClosed, IInv, AtLog, Event(pos) \in KnownByVault,
           ~ (stage = "back" /\ next["back"] = handover)
    PROVE  SourceKnown(Event(pos))
<1>1. Event(pos) \in Handled /\ (Type = "back" => AgentVaultCreated \notin Diff)
  BY ListsAre DEF IInv, TypeInv, TurnInv, AtLog, Handling, FrontList, Diff
<1>2. {AgentVaultCreated} \in CausedBy[Event(pos)]
  BY <1>1, AtMostCaused
<1>3. PICK j \in DOMAIN history : j < pos /\ Event(j) \in {AgentVaultCreated}
  BY <1>2 DEF IInv, HistoryInv, AtLog
<1>4. j \in stored
  <2>1. SUFFICES ASSUME j \notin stored PROVE FALSE
    OBVIOUS
  <2>2. Event(j) \notin KnownByVault
    BY <1>3, RowsOfVaults
  <2>3. /\ Type = "back" /\ handover # 0
        /\ \/ stage = "back" /\ Block(pos) = handover
           \/ stage = "front" /\ Event(j) \in Diff
    BY <1>2, <1>3, <2>1, <2>2, CauseStored
  <2>4. QED
    BY <1>1, <1>3, <2>3 DEF AtLog, Passing
<1>5. QED
  BY <1>3, <1>4 DEF SourceKnown

\* A handler that misses a row is one RowsAwaited allows for.
LEMMA ThrowAwaited ==
    ASSUME ListsClosed, IInv, AtLog, ~ RowsFound(Event(pos))
    PROVE  /\ Type = "back" /\ handover # 0
           /\ \/ stage = "back" /\ HandoverClash /\ Block(pos) = handover
              \/ /\ stage = "front"
                 /\ \E R \in Requires[Event(pos)] :
                        LET causes == { i \in Emitted(R) : i < pos }
                        IN causes # {} /\ causes \subseteq EmittedIn(Diff, 1 .. handover - 1)
<1>1. Event(pos) \in Handled
  BY ListsAre DEF IInv, TypeInv, TurnInv, AtLog, Handling, FrontList, Diff
<1>2. PICK R \in Requires[Event(pos)] : \A i \in stored : Event(i) \notin R
  BY DEF RowsFound
<1>3. R \in CausedBy[Event(pos)] /\ \A c \in R : c \notin KnownByVault
  BY <1>1, AtMostCaused, RowsOfVaults
<1>4. PICK j \in DOMAIN history : j < pos /\ Event(j) \in R
  BY <1>3 DEF IInv, HistoryInv, AtLog
<1>5. ASSUME NEW i \in DOMAIN history, i < pos, Event(i) \in R
      PROVE  /\ Type = "back" /\ handover # 0
             /\ \/ /\ stage = "back" /\ Event(pos) \in Diff /\ Event(i) \in Old
                   /\ Block(i) = handover /\ Block(pos) = handover
                \/ stage = "front" /\ Event(i) \in Diff /\ Block(i) < handover
  BY <1>2, <1>3, <1>5, CauseStored
<1>6. /\ DOMAIN history = 1 .. Len(history) /\ Len(history) \in Nat /\ handover \in Nat
      /\ \A i \in DOMAIN history : Block(i) \in Nat \ {0} /\ Block(i) <= Top
      /\ Top \in Nat /\ handover \in Nat
  BY LogFacts DEF IInv, TypeInv
<1>7. CASE stage = "back"
  <2>1. /\ Type = "back" /\ handover # 0 /\ Event(pos) \in Diff /\ Event(j) \in Old
        /\ Block(j) = handover /\ Block(pos) = handover
    BY <1>4, <1>5, <1>7
  <2>2. Event(j) \in Handled
    BY <2>1, ListsAre DEF IInv, TypeInv
  <2>3. pos \in EmittedIn(Handled, {handover}) /\ j \in EmittedIn(Handled, {handover})
    BY <1>1, <2>1, <2>2 DEF EmittedIn, AtLog
  <2>4. HandoverClash
    BY <1>2, <1>4, <2>1, <2>3 DEF HandoverClash
  <2>5. QED
    BY <1>7, <2>1, <2>4
<1>8. CASE stage # "back"
  <2>1. Type = "back" /\ handover # 0 /\ stage = "front"
    BY <1>4, <1>5, <1>8
  <2>2. j \in { i \in Emitted(R) : i < pos }
    BY <1>4, <1>6 DEF Emitted, EmittedIn
  <2>3. ASSUME NEW i \in Emitted(R), i < pos
        PROVE  i \in EmittedIn(Diff, 1 .. handover - 1)
    <3>1. i \in DOMAIN history /\ Event(i) \in R
      BY DEF Emitted, EmittedIn
    <3>2. Event(i) \in Diff /\ Block(i) < handover
      BY <1>5, <1>8, <2>3, <3>1
    <3>3. QED
      BY <1>6, <3>1, <3>2 DEF EmittedIn
  <2>4. QED
    BY <1>2, <2>1, <2>2, <2>3
<1>9. QED
  BY <1>7, <1>8

-----------------------------------------------------------------------------
(* The steps.                                                              *)

\* RowsAwaited speaks of the history, the update and the block of its
\* hand-over, which are what they are once a handler has thrown.
LEMMA AwaitedStays ==
    ASSUME RowsAwaited, UNCHANGED <<history, update, threw>>,
           Type = "back" /\ handover' # handover => threw = {}
    PROVE  RowsAwaited'
<1>1. CASE threw = {}
  BY <1>1 DEF RowsAwaited
<1>2. CASE Type # "back"
  BY <1>2 DEF RowsAwaited
<1>3. CASE handover' = handover
  BY <1>3 DEF RowsAwaited, Type, HandoverClash, Diff, Old, New, EmittedIn, Emitted, Event,
              Block, Top
<1>4. QED
  BY <1>1, <1>2, <1>3

\* Before there is a hand-over nothing can wait for it.
LEMMA NoneAwaited ==
    ASSUME RowsAwaited, handover = 0
    PROVE  threw = {}
<1>1. EmittedIn(Diff, 1 .. handover - 1) = {}
  BY DEF EmittedIn
<1>2. QED
  BY <1>1 DEF RowsAwaited, HandoverClash

\* What a log of the turn leaves behind.
LEMMA HandlePreserves ==
    ASSUME ListsClosed, IInv, stage # "chain",
           NEW restart \in {stage, "back"}, restart # stage => stage = "front",
           HandleLog(Passing, Handling, restart)
    PROVE  IInv'
<1>1. /\ DOMAIN history = 1 .. Len(history) /\ Len(history) \in Nat
      /\ \A i \in DOMAIN history : Block(i) \in Nat \ {0}
  BY LogFacts DEF IInv
<1>2. /\ pos # 0 /\ LogInTurn(Passing)
      /\ UNCHANGED <<target, history, update, next, handover>>
  BY DEF HandleLog, chainVars
<1>3. pos \in DOMAIN history /\ Block(pos) = next[Passing]
  BY <1>1, <1>2 DEF LogInTurn, IInv, TypeInv
<1>4. /\ \A i : Event(i)' = Event(i) /\ Block(i)' = Block(i)
      /\ Type' = Type /\ Old' = Old /\ New' = New /\ Diff' = Diff
  BY <1>2 DEF Event, Block, Type, Old, New, Diff
<1>5. HistoryInv'
  BY <1>2 DEF IInv, HistoryInv, Event, Block, Top
<1>6. CASE /\ Event(pos) \notin Handling \/ pos \in stored \/ ~SourceKnown(Event(pos))
           /\ pos' = pos + 1 /\ UNCHANGED <<stored, link, stage, threw>>
  <2>1. TypeInv' /\ StageInv' /\ CoverInv' /\ RowsAwaited'
    <3>1. TypeInv'
      BY <1>1, <1>2, <1>3, <1>6 DEF IInv, TypeInv
    <3>2. StageInv' /\ CoverInv'
      BY <1>2, <1>4, <1>6 DEF IInv, StageInv, CoverInv, Covered
    <3>3. RowsAwaited'
      BY <1>2, <1>6, AwaitedStays DEF IInv
    <3>4. QED
      BY <3>1, <3>2, <3>3
  <2>2. Passing' = Passing /\ Handling' = Handling
    BY <1>4, <1>6 DEF Passing, Handling, FrontList
  <2>3. ASSUME Event(pos) \in Handling,
               Event(pos) \in KnownByVault => ~ (stage = "back" /\ next["back"] = handover)
        PROVE  pos \in stored
    BY <1>2, <1>3, <1>6, <2>3, SourceStored DEF AtLog, SourceKnown
  <2>4. TurnInv'
    BY <1>1, <1>2, <1>3, <1>4, <1>6, <2>2, <2>3 DEF IInv, TurnInv, HistoryInv, TypeInv
  <2>5. QED
    BY <1>5, <2>1, <2>4 DEF IInv
<1>7. CASE /\ Event(pos) \in Handling
           /\ stored' = stored \cup {pos} /\ pos' = pos + 1 /\ UNCHANGED <<stage, threw>>
  <2>1. TypeInv' /\ StageInv' /\ CoverInv' /\ RowsAwaited'
    <3>1. TypeInv'
      BY <1>1, <1>2, <1>3, <1>7 DEF IInv, TypeInv
    <3>2. StageInv' /\ CoverInv'
      BY <1>2, <1>4, <1>7 DEF IInv, StageInv, CoverInv, Covered
    <3>3. RowsAwaited'
      BY <1>2, <1>7, AwaitedStays DEF IInv
    <3>4. QED
      BY <3>1, <3>2, <3>3
  <2>2. Passing' = Passing /\ Handling' = Handling
    BY <1>4, <1>7 DEF Passing, Handling, FrontList
  <2>3. TurnInv'
    BY <1>1, <1>2, <1>3, <1>4, <1>7, <2>2 DEF IInv, TurnInv, HistoryInv, TypeInv
  <2>4. QED
    BY <1>5, <2>1, <2>3 DEF IInv
<1>8. CASE /\ Event(pos) \in Handling /\ ~ RowsFound(Event(pos))
           /\ threw' = threw \cup {[pass |-> Passing, log |-> pos]}
           /\ pos' = 0 /\ stage' = restart /\ UNCHANGED <<stored, link>>
  <2>1. AtLog
    BY <1>2, <1>3, <1>8 DEF AtLog
  <2>2. TypeInv' /\ StageInv' /\ CoverInv' /\ TurnInv'
    <3>1. TypeInv'
      BY <1>1, <1>2, <1>8 DEF IInv, TypeInv
    <3>2. StageInv'
      BY <1>2, <1>4, <1>8 DEF IInv, StageInv
    <3>3. CoverInv'
      BY <1>2, <1>4, <1>8 DEF IInv, CoverInv, Covered
    <3>4. TurnInv'
      BY <1>8 DEF TurnInv
    <3>5. QED
      BY <3>1, <3>2, <3>3, <3>4
  <2>3. RowsAwaited'
    <3>1. ASSUME NEW t \in threw'
          PROVE  /\ Type = "back"
                 /\ IF t.pass = "back" THEN HandoverClash /\ Block(t.log) = handover
                    ELSE \E R \in Requires[Event(t.log)] :
                            LET causes == { i \in Emitted(R) : i < t.log }
                            IN causes # {} /\ causes \subseteq EmittedIn(Diff, 1 .. handover - 1)
      <4>1. CASE t \in threw
        BY <4>1 DEF IInv, RowsAwaited
      <4>2. CASE t = [pass |-> Passing, log |-> pos]
        BY <1>8, <2>1, <4>2, ThrowAwaited DEF Passing
      <4>3. QED
        BY <1>8, <4>1, <4>2
    <3>2. QED
      BY <1>2, <3>1 DEF RowsAwaited, Type, HandoverClash, Diff, Old, New, EmittedIn, Emitted,
                        Event, Block, Top
  <2>4. QED
    BY <1>5, <2>2, <2>3 DEF IInv
<1>9. QED
  BY <1>6, <1>7, <1>8 DEF HandleLog

\* A turn is over when it has handled its block.
LEMMA BlockDone ==
    ASSUME IInv, pos # 0, ~ LogInTurn(Passing),
           NEW i \in DOMAIN history, Block(i) = next[Passing], Event(i) \in Handling,
           Event(i) \in KnownByVault => ~ (stage = "back" /\ next["back"] = handover)
    PROVE  i \in stored
<1>1. /\ DOMAIN history = 1 .. Len(history) /\ Len(history) \in Nat
      /\ \A k \in DOMAIN history : Block(k) \in Nat \ {0}
      /\ pos \in 0 .. Len(history) + 1
  BY LogFacts DEF IInv, TypeInv
<1>2. i < pos
  <2>1. CASE pos = Len(history) + 1
    BY <1>1, <2>1
  <2>2. CASE pos # Len(history) + 1
    <3>1. pos \in DOMAIN history /\ Block(pos) # next[Passing] /\ Block(pos) >= next[Passing]
      BY <1>1, <2>2 DEF LogInTurn, IInv, TurnInv
    <3>2. ~ (Block(pos) <= Block(i))
      <4>1. next[Passing] \in Nat \ {0}
        BY DEF IInv, TypeInv, Passing
      <4>2. QED
        BY <1>1, <3>1, <4>1
    <3>3. ~ (pos <= i)
      BY <3>1, <3>2 DEF IInv, HistoryInv
    <3>4. QED
      BY <1>1, <3>3
  <2>3. QED
    BY <2>1, <2>2
<1>3. QED
  BY <1>2 DEF IInv, TurnInv

LEMMA EndTurnPreserves ==
    ASSUME ListsClosed, IInv, stage # "chain", pos # 0, ~ LogInTurn(Passing),
           next' = [next EXCEPT ![Passing] = @ + 1], pos' = 0,
           UNCHANGED <<chainVars, stored, link, handover, threw>>,
           \/ stage # "back" /\ stage' = stage
           \/ stage = "front" /\ stage' = "back"
           \/ stage = "back" /\ stage' = AfterBack
    PROVE  IInv'
<1>1. /\ DOMAIN history = 1 .. Len(history) /\ Len(history) \in Nat
      /\ \A i \in DOMAIN history : Block(i) \in Nat \ {0}
  BY LogFacts DEF IInv
<1>2. UNCHANGED <<target, history, update, stored, link, handover, threw>>
  BY DEF chainVars
<1>3. /\ \A i : Event(i)' = Event(i) /\ Block(i)' = Block(i)
      /\ Type' = Type /\ Old' = Old /\ New' = New /\ Diff' = Diff
  BY <1>2 DEF Event, Block, Type, Old, New, Diff
<1>4. HistoryInv'
  BY <1>2 DEF IInv, HistoryInv, Event, Block, Top
<1>5. /\ next["main"] \in Nat \ {0} /\ next["back"] \in Nat \ {0} /\ handover \in Nat
      /\ stage \in {"before", "back", "front", "whole"}
      /\ next \in [{"main", "back"} -> Nat \ {0}]
  BY DEF IInv, TypeInv
<1>6. /\ stage = "back" => next'["back"] = next["back"] + 1 /\ next'["main"] = next["main"]
      /\ stage # "back" => next'["main"] = next["main"] + 1 /\ next'["back"] = next["back"]
      /\ next' \in [{"main", "back"} -> Nat \ {0}]
  BY <1>5 DEF Passing
<1>7. stage' \in {"before", "back", "front", "whole"}
  BY <1>5 DEF AfterBack
<1>8. TypeInv'
  BY <1>2, <1>6, <1>7 DEF IInv, TypeInv
<1>9. /\ Type \in {"none", "race", "back"} /\ New = Old \cup Diff
      /\ Type = "none" => stage = "whole"
  BY <1>5, ListsAre DEF IInv, TypeInv, StageInv, Diff
<1>10. StageInv'
  <2>1. CASE stage = "back"
    <3>1. stage' = IF Type = "race" /\ next["back"] + 1 >= next["main"] THEN "whole" ELSE "front"
      BY <2>1 DEF AfterBack
    <3>2. QED
      BY <1>2, <1>3, <1>5, <1>6, <1>9, <2>1, <3>1 DEF IInv, StageInv
  <2>2. CASE stage # "back"
    BY <1>2, <1>3, <1>5, <1>6, <1>9, <2>2 DEF IInv, StageInv
  <2>3. QED
    BY <2>1, <2>2
<1>11. CoverInv'
  <2>1. SUFFICES ASSUME NEW i \in DOMAIN history, Covered(i)'
                 PROVE  i \in stored
    BY <1>2 DEF CoverInv
  <2>2. Covered(i) => i \in stored
    BY DEF IInv, CoverInv
  <2>3. /\ Block(i) \in Nat \ {0}
        /\ Block(i) = next[Passing] /\ Event(i) \in Handling
           /\ (Event(i) \in KnownByVault => ~ (stage = "back" /\ next["back"] = handover))
               => i \in stored
    BY <1>1, BlockDone
  <2>4. CASE stage = "back"
    <3>1. /\ Type # "none"
          /\ Type = "race" => next["back"] < next["main"]
          /\ Type = "back" => handover # 0 /\ next["back"] <= handover
      BY <2>4 DEF IInv, StageInv
    <3>2. /\ stage' = "whole" => Type = "race" /\ next["back"] + 1 >= next["main"]
      BY <2>4 DEF AfterBack
    <3>3. CASE Block(i) = next["back"] /\ Event(i) \in Diff /\ (Type = "back" => Block(i) < handover)
      <4>1. Type # "back" => handover = 0
        BY DEF IInv, StageInv
      <4>2. next["back"] # handover
        BY <1>5, <3>3, <4>1
      <4>3. QED
        BY <2>3, <2>4, <3>3, <4>2 DEF Passing, Handling
    <3>4. CASE ~ (Block(i) = next["back"] /\ Event(i) \in Diff /\ (Type = "back" => Block(i) < handover))
      <4>1. CASE stage' = "whole" /\ Event(i) \in New /\ Block(i) < next["main"]
        <5>1. Type = "race" /\ (Event(i) \in Old \/ Event(i) \in Diff)
          BY <1>9, <3>2, <4>1
        <5>2. Block(i) < next["back"] \/ Block(i) = next["back"]
          BY <1>5, <2>3, <3>2, <4>1
        <5>3. QED
          BY <2>2, <3>4, <4>1, <5>1, <5>2 DEF Covered
      <4>2. CASE ~ (stage' = "whole" /\ Type # "back" /\ Event(i) \in New /\ Block(i) < next["main"])
        <5>1. \/ Event(i) \in Old /\ Block(i) < next["main"]
              \/ /\ Event(i) \in Diff /\ Block(i) < next["back"] + 1
                 /\ (Type = "back" => Block(i) < handover)
              \/ /\ Event(i) \in Diff /\ Type = "back" /\ handover # 0
                 /\ Block(i) >= handover /\ Block(i) < next["main"]
          BY <1>2, <1>3, <1>6, <2>1, <2>4, <4>2 DEF Covered
        <5>2. Block(i) < next["back"] + 1 /\ Block(i) # next["back"] => Block(i) < next["back"]
          BY <1>5, <2>3
        <5>3. QED
          BY <2>2, <3>4, <5>1, <5>2 DEF Covered
      <4>3. QED
        BY <4>1, <4>2
    <3>5. QED
      BY <3>3, <3>4
  <2>5. CASE stage # "back"
    <3>1. CASE Block(i) = next["main"]
      <4>1. Event(i) \in Handling => i \in stored
        BY <2>3, <2>5, <3>1 DEF Passing
      <4>2. CASE stage = "whole"
        BY <1>2, <1>3, <1>9, <2>1, <4>1, <4>2 DEF Covered, Handling
      <4>3. CASE stage = "before"
        <5>1. handover = 0
          BY <4>3 DEF IInv, StageInv
        <5>2. QED
          BY <5>1, <1>2, <1>3, <1>5, <1>6, <1>9, <2>1, <2>2, <2>3, <3>1, <4>1, <4>3 DEF Covered, Handling
      <4>4. CASE stage = "front"
        BY <1>2, <1>3, <1>5, <1>6, <1>9, <2>1, <2>2, <2>3, <3>1, <4>1, <4>4 DEF Covered, Handling, FrontList
      <4>5. QED
        BY <1>5, <2>5, <4>2, <4>3, <4>4
    <3>2. CASE Block(i) # next["main"]
      BY <1>2, <1>3, <1>5, <1>6, <2>1, <2>2, <2>3, <2>5, <3>2 DEF Covered
    <3>3. QED
      BY <3>1, <3>2
  <2>6. QED
    BY <2>4, <2>5
<1>12. TurnInv' /\ RowsAwaited'
  BY <1>2, AwaitedStays DEF TurnInv, IInv
<1>13. QED
  BY <1>4, <1>8, <1>10, <1>11, <1>12 DEF IInv

\* A turn begins at the first log of its block; a back update's first one
\* with the block of the hand-over.
LEMMA BeginTurnPreserves ==
    ASSUME IInv, stage # "chain", pos = 0, next[Passing] <= Top,
           pos' = Min({ i \in DOMAIN history : Block(i) = next[Passing] }),
           UNCHANGED <<chainVars, stored, link, next, threw, stage>>,
           \/ handover' = handover
           \/ /\ stage = "back" /\ Type = "back" /\ handover = 0
              /\ handover' = next["main"],
           stage = "back" => /\ Type = "race" => next["back"] < next["main"]
                             /\ Type = "back" => handover' # 0 /\ next["back"] <= handover'
    PROVE  IInv'
<1>1. /\ DOMAIN history = 1 .. Len(history) /\ Len(history) \in Nat
      /\ \A i \in DOMAIN history : Block(i) \in Nat \ {0}
  BY LogFacts DEF IInv
<1>2. UNCHANGED <<target, history, update, stored, link, next, threw, stage>>
  BY DEF chainVars
<1>3. /\ \A i : Event(i)' = Event(i) /\ Block(i)' = Block(i)
      /\ Type' = Type /\ Old' = Old /\ New' = New /\ Diff' = Diff
  BY <1>2 DEF Event, Block, Type, Old, New, Diff
<1>4. HistoryInv'
  BY <1>2 DEF IInv, HistoryInv, Event, Block, Top
<1>5. /\ next["main"] \in Nat \ {0} /\ next["back"] \in Nat \ {0} /\ handover \in Nat
      /\ stage \in {"before", "back", "front", "whole"} /\ next[Passing] \in Nat \ {0}
  BY DEF IInv, TypeInv, Passing
<1>6. /\ pos' \in DOMAIN history
      /\ \A i \in DOMAIN history : i < pos' => Block(i) <= next[Passing] /\ Block(i) # next[Passing]
      /\ \A i \in DOMAIN history : i >= pos' => Block(i) >= next[Passing]
  BY <1>5, FirstOfBlock DEF IInv
<1>7. TypeInv'
  BY <1>1, <1>2, <1>5, <1>6 DEF IInv, TypeInv
<1>8. StageInv'
  BY <1>2, <1>3, <1>5 DEF IInv, StageInv
<1>9. CoverInv'
  <2>1. CASE handover' = handover
    BY <1>2, <1>3, <2>1 DEF IInv, CoverInv, Covered
  <2>2. CASE handover' # handover
    <3>1. Type = "back" /\ handover = 0 /\ next["back"] = 1 /\ handover' = next["main"]
      BY <2>2 DEF IInv, StageInv
    <3>2. ASSUME NEW i \in DOMAIN history, Covered(i)'
          PROVE  Covered(i)
      BY <1>1, <1>2, <1>3, <1>5, <3>1, <3>2 DEF Covered
    <3>3. QED
      BY <1>2, <3>2 DEF IInv, CoverInv
  <2>3. QED
    BY <2>1, <2>2
<1>10. TurnInv'
  <2>1. Passing' = Passing
    BY <1>2 DEF Passing
  <2>2. QED
    BY <1>2, <1>3, <1>5, <1>6, <2>1 DEF TurnInv
<1>11. RowsAwaited'
  BY <1>2, AwaitedStays, NoneAwaited DEF IInv
<1>12. QED
  BY <1>4, <1>7, <1>8, <1>9, <1>10, <1>11 DEF IInv

\* Between turns: the next stage begins, or the back pass goes past a block
\* that is not there yet.
LEMMA BetweenPreserves ==
    ASSUME IInv, pos = 0, UNCHANGED <<chainVars, stored, link, threw, pos>>,
           next' \in [{"main", "back"} -> Nat \ {0}], handover' \in Nat,
           stage' \in {"before", "back", "front", "whole"},
           StageInv', \A i \in DOMAIN history : Covered(i)' => Covered(i),
           Type = "back" /\ handover' # handover => handover = 0
    PROVE  IInv'
<1>1. UNCHANGED <<target, history, update, stored, link, threw, pos>>
  BY DEF chainVars
<1>2. HistoryInv'
  BY <1>1 DEF IInv, HistoryInv, Event, Block, Top
<1>3. TypeInv'
  BY <1>1 DEF IInv, TypeInv
<1>4. CoverInv'
  BY <1>1 DEF IInv, CoverInv
<1>5. TurnInv'
  BY <1>1 DEF TurnInv
<1>6. RowsAwaited'
  BY <1>1, AwaitedStays, NoneAwaited DEF IInv
<1>7. QED
  BY <1>2, <1>3, <1>4, <1>5, <1>6 DEF IInv

LEMMA StartPreserves ==
    ASSUME ListsClosed, IInv, StartIndexing \/ StartUpdate
    PROVE  IInv'
<1>1. /\ UNCHANGED <<chainVars, stored, link, next, handover, pos, threw>> /\ pos = 0
      /\ \/ /\ stage = "chain"
            /\ stage' = IF Type = "none" THEN "whole" ELSE "before"
         \/ stage = "before" /\ stage' = "back"
  BY DEF StartIndexing, StartUpdate, IInv, StageInv
<1>2. /\ \A i : Event(i)' = Event(i) /\ Block(i)' = Block(i)
      /\ Type' = Type /\ Old' = Old /\ New' = New /\ Diff' = Diff
  BY <1>1 DEF chainVars, Event, Block, Type, Old, New, Diff
<1>3. /\ next \in [{"main", "back"} -> Nat \ {0}] /\ handover \in Nat /\ handover = 0
      /\ next["main"] \in Nat \ {0} /\ next["back"] \in Nat \ {0}
  BY <1>1 DEF IInv, TypeInv, StageInv
<1>4. stage = "chain" => next["main"] = 1 /\ next["back"] = 1
  BY DEF IInv, StageInv
<1>5. StageInv'
  BY <1>1, <1>2, <1>3, <1>4 DEF IInv, StageInv
<1>6. ASSUME NEW i \in DOMAIN history, Covered(i)'
      PROVE  Covered(i)
  <2>1. Block(i) \in Nat \ {0}
    BY LogFacts DEF IInv
  <2>2. QED
    BY <1>1, <1>2, <1>3, <1>4, <1>6, <2>1 DEF Covered
<1>7. QED
  BY <1>1, <1>3, <1>5, <1>6, BetweenPreserves

LEMMA BeginBackPreserves ==
    ASSUME ListsClosed, IInv, BeginBack
    PROVE  IInv'
<1>1. /\ stage = "back" /\ pos = 0
      /\ handover' = IF Type = "race" THEN 0
                     ELSE IF handover = 0 THEN next["main"] ELSE handover
  BY DEF BeginBack
<1>2. /\ next \in [{"main", "back"} -> Nat \ {0}] /\ handover \in Nat
      /\ next["main"] \in Nat \ {0} /\ next["back"] \in Nat \ {0}
      /\ Type \in {"race", "back"} /\ New = Old \cup Diff
      /\ Type = "race" => handover = 0 /\ next["back"] <= next["main"]
      /\ Type = "back" => handover <= next["main"] /\ (handover = 0 => next["back"] = 1)
  BY <1>1, ListsAre DEF IInv, TypeInv, StageInv, Diff
<1>3. /\ handover' \in Nat
      /\ Type = "race" => handover' = handover
      /\ Type = "back" => handover' # 0 /\ handover' <= next["main"]
                          /\ (handover # 0 => handover' = handover)
                          /\ (handover = 0 => handover' = next["main"])
  BY <1>1, <1>2
<1> DEFINE Limit == IF Type = "race" THEN next["back"] < next["main"] ELSE next["back"] <= handover'
<1>4. (IF Type = "race" THEN RaceLimit ELSE BackLimit) <=> Limit
  BY <1>1, <1>2 DEF RaceLimit, BackLimit
<1>5. /\ DOMAIN history = 1 .. Len(history) /\ Top \in Nat
      /\ \A i \in DOMAIN history : Block(i) \in Nat \ {0} /\ Block(i) <= Top
  BY LogFacts DEF IInv
<1>6. CASE Limit /\ next["back"] <= Top
  <2>1. BeginTurn("back") /\ UNCHANGED stage
    BY <1>4, <1>6 DEF BeginBack
  <2>2. /\ pos' = Min({ i \in DOMAIN history : Block(i) = next["back"] })
        /\ UNCHANGED <<chainVars, stored, link, next, threw, stage>>
    BY <2>1 DEF BeginTurn
  <2>3. Passing = "back"
    BY <1>1 DEF Passing
  <2>4. QED
    BY <1>1, <1>2, <1>3, <1>6, <2>2, <2>3, BeginTurnPreserves
<1>7. CASE Limit /\ ~ (next["back"] <= Top)
  <2>1. /\ next' = [next EXCEPT !["back"] = @ + 1]
        /\ UNCHANGED <<chainVars, stored, link, stage, pos, threw>>
    BY <1>4, <1>7 DEF BeginBack
  <2>2. /\ \A i : Event(i)' = Event(i) /\ Block(i)' = Block(i)
        /\ Type' = Type /\ Old' = Old /\ New' = New /\ Diff' = Diff
    BY <2>1 DEF chainVars, Event, Block, Type, Old, New, Diff
  <2>3. /\ next' \in [{"main", "back"} -> Nat \ {0}]
        /\ next'["back"] = next["back"] + 1 /\ next'["main"] = next["main"]
    BY <1>2, <2>1
  <2>4. StageInv'
    BY <1>1, <1>2, <1>3, <1>7, <2>1, <2>2, <2>3 DEF StageInv
  <2>5. ASSUME NEW i \in DOMAIN history, Covered(i)'
        PROVE  Covered(i)
    <3>1. Block(i) \in Nat \ {0} /\ Block(i) < next["back"]
      BY <1>2, <1>5, <1>7
    <3>2. QED
      BY <1>1, <1>2, <1>3, <2>1, <2>2, <2>3, <2>5, <3>1 DEF Covered
  <2>6. QED
    BY <1>1, <1>3, <2>1, <2>3, <2>4, <2>5, BetweenPreserves
<1>8. CASE ~ Limit
  <2>1. stage' = "whole" /\ UNCHANGED <<chainVars, stored, link, next, pos, threw>>
    BY <1>4, <1>8 DEF BeginBack
  <2>2. /\ \A i : Event(i)' = Event(i) /\ Block(i)' = Block(i)
        /\ Type' = Type /\ Old' = Old /\ New' = New /\ Diff' = Diff
    BY <2>1 DEF chainVars, Event, Block, Type, Old, New, Diff
  <2>3. /\ handover' = handover
        /\ Type = "race" => next["main"] <= next["back"]
        /\ Type = "back" => handover < next["back"]
    BY <1>2, <1>3, <1>8
  <2>4. StageInv'
    BY <1>1, <1>2, <1>3, <2>1, <2>2, <2>3 DEF IInv, StageInv
  <2>5. ASSUME NEW i \in DOMAIN history, Covered(i)'
        PROVE  Covered(i)
    <3>1. Block(i) \in Nat \ {0}
      BY <1>5
    <3>2. QED
      BY <1>2, <2>1, <2>2, <2>3, <2>5, <3>1 DEF Covered
  <2>6. QED
    BY <1>1, <1>2, <1>3, <2>1, <2>3, <2>4, <2>5, BetweenPreserves
<1>9. QED
  BY <1>6, <1>7, <1>8

\* The indexer alone, before the update or after it.
LEMMA AlonePreserves ==
    ASSUME ListsClosed, IInv, Before \/ Whole
    PROVE  IInv'
<1>1. PICK list : /\ \/ stage = "before" /\ list = Old
                     \/ stage = "whole" /\ list = New
                  /\ Alone(list)
  BY DEF Before, Whole
<1>2. Passing = "main" /\ Handling = list /\ stage # "chain" /\ stage # "back"
  BY <1>1 DEF Passing, Handling
<1>3. CASE BeginTurn("main") /\ UNCHANGED <<handover, stage>>
  BY <1>2, <1>3, BeginTurnPreserves DEF BeginTurn
<1>4. CASE HandleLog("main", list, stage)
  BY <1>2, <1>4, HandlePreserves
<1>5. CASE EndTurn("main", stage)
  BY <1>2, <1>5, EndTurnPreserves DEF EndTurn
<1>6. QED
  BY <1>1, <1>3, <1>4, <1>5 DEF Alone

LEMMA BackPreserves ==
    ASSUME ListsClosed, IInv, Back
    PROVE  IInv'
<1>1. stage = "back" /\ Passing = "back" /\ Handling = Diff
  BY DEF Back, Passing, Handling
<1>2. CASE HandleLog("back", Diff, "back")
  BY <1>1, <1>2, HandlePreserves
<1>3. CASE EndTurn("back", AfterBack)
  BY <1>1, <1>3, EndTurnPreserves DEF EndTurn
<1>4. QED
  BY <1>2, <1>3 DEF Back

LEMMA FrontPreserves ==
    ASSUME ListsClosed, IInv, FrontTurn
    PROVE  IInv'
<1>1. stage = "front" /\ Passing = "main" /\ Handling = FrontList
  BY DEF FrontTurn, Passing, Handling
<1>2. CASE BeginTurn("main") /\ UNCHANGED <<handover, stage>>
  BY <1>1, <1>2, BeginTurnPreserves DEF BeginTurn
<1>3. CASE HandleLog("main", FrontList, "back")
  BY <1>1, <1>3, HandlePreserves
<1>4. CASE EndTurn("main", "back")
  BY <1>1, <1>4, EndTurnPreserves DEF EndTurn
<1>5. CASE /\ pos = 0 /\ stage' = "back"
           /\ UNCHANGED <<chainVars, stored, link, next, handover, pos, threw>>
  <2>1. /\ \A i : Event(i)' = Event(i) /\ Block(i)' = Block(i)
        /\ Type' = Type /\ Old' = Old /\ New' = New /\ Diff' = Diff
    BY <1>5 DEF chainVars, Event, Block, Type, Old, New, Diff
  <2>2. StageInv' /\ \A i \in DOMAIN history : Covered(i)' => Covered(i)
    BY <1>1, <1>5, <2>1 DEF IInv, StageInv, Covered
  <2>3. next \in [{"main", "back"} -> Nat \ {0}] /\ handover \in Nat
    BY DEF IInv, TypeInv
  <2>4. QED
    BY <1>5, <2>2, <2>3, BetweenPreserves
<1>6. QED
  BY <1>2, <1>3, <1>4, <1>5 DEF FrontTurn

\* IInv is inductive.
LEMMA NextInv ==
    ASSUME ListsClosed, IInv, [Next]_vars
    PROVE  IInv'
<1>1. CASE Chain
  BY <1>1, EmitPreserves DEF Chain
<1>2. CASE StartIndexing \/ StartUpdate
  BY <1>2, StartPreserves
<1>3. CASE Before \/ Whole
  BY <1>3, AlonePreserves
<1>4. CASE BeginBack
  BY <1>4, BeginBackPreserves
<1>5. CASE Back
  BY <1>5, BackPreserves
<1>6. CASE FrontTurn
  BY <1>6, FrontPreserves
<1>7. CASE UNCHANGED vars
  <2>1. /\ \A i : Event(i)' = Event(i) /\ Block(i)' = Block(i)
        /\ Type' = Type /\ Old' = Old /\ New' = New /\ Diff' = Diff /\ Top' = Top
    BY <1>7 DEF vars, chainVars, Event, Block, Type, Old, New, Diff, Top
  <2>2. \A R, B : EmittedIn(R, B)' = EmittedIn(R, B) /\ Emitted(R)' = Emitted(R)
    BY <1>7, <2>1 DEF vars, chainVars, EmittedIn, Emitted
  <2>3. HistoryInv' /\ TypeInv'
    BY <1>7, <2>1, <2>2 DEF vars, chainVars, passVars, IInv, HistoryInv, TypeInv
  <2>4. StageInv' /\ CoverInv'
    BY <1>7, <2>1, <2>2 DEF vars, chainVars, passVars, IInv, StageInv, CoverInv, Covered
  <2>5. TurnInv'
    BY <1>7, <2>1, <2>2 DEF vars, chainVars, passVars, IInv, TurnInv, Passing, Handling, FrontList
  <2>6. HandoverClash' <=> HandoverClash
    BY <1>7, <2>1, <2>2 DEF vars, chainVars, passVars, HandoverClash
  <2>7. RowsAwaited'
    BY <1>7, <2>1, <2>2, <2>6 DEF vars, chainVars, passVars, IInv, RowsAwaited
  <2>8. QED
    BY <2>3, <2>4, <2>5, <2>7 DEF IInv
<1>8. QED
  BY <1>1, <1>2, <1>3, <1>4, <1>5, <1>6, <1>7 DEF Next, Run, Idle

-----------------------------------------------------------------------------
\* The invariant the results rest on.
THEOREM Invariance ==
    ASSUME ListsClosed
    PROVE  Spec => []IInv
<1>1. IInv /\ [Next]_vars => IInv'
  BY NextInv
<1>2. QED
  BY <1>1, InitInv, PTL DEF Spec

\* With closed lists no handler misses a row, neither of an indexer that was
\* always given its list nor in a race update; and in a back update only a
\* handler that the passes make wait: findOneOrFail of event-storer.ts, in
\* whatever order run of the two population indexers has it called.
THEOREM OnlyAwaited ==
    ASSUME ListsClosed
    PROVE  Spec => []RowsAwaited
BY Invariance, PTL DEF IInv

-----------------------------------------------------------------------------
(***************************************************************************)
(* The links.  A second invariant, for what LinksFollowChain needs: the    *)
(* redemption requests of a history are all one event in one block, with   *)
(* nothing but the redemption itself among them; a stored log found its    *)
(* rows, and the old events are stored in the order of the chain.  What    *)
(* decides is that a handler throws for the second of two requests if it   *)
(* throws for the first: old requests that follow one another are all      *)
(* stored when the back pass runs, or none.                                *)
(***************************************************************************)
Request(i) == Event(i) \in RedemptionRequests

RequestsInv ==
    /\ \A i, j \in DOMAIN history :
           Request(i) /\ Request(j) => /\ Event(i) = Event(j) /\ Block(i) = Block(j)
                                       /\ i # j => target = FXrpRedeemed
    /\ \A i \in DOMAIN history : Event(i) = FXrpRedeemed =>
           \E j \in DOMAIN history : j < i /\ Request(j) /\ Block(j) = Block(i)
    /\ \A i, j \in DOMAIN history : Event(i) = FXrpRedeemed /\ Event(j) = FXrpRedeemed => i = j
    /\ \A i \in DOMAIN history : target = FXrpRedeemed /\ Request(i) =>
           /\ \E j \in DOMAIN history : Event(j) = PersonalAccount
           /\ \A j \in DOMAIN history : i < j => Request(j) \/ Event(j) = FXrpRedeemed

StoredInv ==
    /\ \A i \in stored : RowsFound(Event(i))
    /\ \A i \in stored, j \in DOMAIN history :
           j < i /\ Event(i) \in Old /\ Event(j) \in Old => j \in stored

\* No log but a request lies between the old request i and the request j.
Follows(j, i) ==
    /\ i < j /\ Request(i) /\ Request(j) /\ Event(i) \in Old
    /\ \A k \in DOMAIN history : i < k /\ k < j => Request(k)

\* Only the main pass, in its turn, is ever between two such requests.
AdjacentInv ==
    \A i \in stored, j \in DOMAIN history \ stored :
        Follows(j, i) => pos # 0 /\ Passing = "main" /\ i < pos /\ pos <= j

LinkInv ==
    /\ RequestsInv /\ StoredInv /\ AdjacentInv
    /\ \A i \in DOMAIN link : i \in DOMAIN history
    /\ LinksFollowChain

\* What a redemption of a smart account comes to be caused by.
LEMMA RedemptionCauses ==
    LET S == {FXrpRedeemed, PersonalAccount, AgentVaultCreated, CollateralTypeAdded}
                 \cup RedemptionRequests
    IN /\ \A T \in SUBSET S : Causes(T) \subseteq S
       /\ FXrpRedeemed \in Targets => Ancestors[FXrpRedeemed] \subseteq S
<1> DEFINE S == {FXrpRedeemed, PersonalAccount, AgentVaultCreated, CollateralTypeAdded}
                    \cup RedemptionRequests
<1>1. S \subseteq Handled
  <2>1. RedemptionRequests \subseteq Handled
    BY DEF Handled, OfAgentVault
  <2>2. {FXrpRedeemed, PersonalAccount, AgentVaultCreated, CollateralTypeAdded} \subseteq Handled
    <3>1. FXrpRedeemed \in OfPersonalAccount
      BY DEF FXrpRedeemed, OfPersonalAccount, MAC, Of
    <3>2. QED
      BY <3>1 DEF Handled, SmartAccountEvents, OfCollateralType
  <2>3. QED
    BY <2>1, <2>2
<1>2. ASSUME NEW e \in S
      PROVE  e \notin OfReservation \cup {SmartReservation} \cup OfTicket \cup OfWithdrawal
                      \cup OfTransfer \cup OfReturn \cup {FXrpTransferred} \cup KnownByVault
  BY DEF RedemptionRequests, FXrpRedeemed, PersonalAccount, AgentVaultCreated,
     CollateralTypeAdded, OfReservation, SmartReservation, OfTicket, OfWithdrawal, OfTransfer,
     OfReturn, FXrpTransferred, KnownByVault, OldPoolEvents, PoolEvents, PoolTokenTransfer,
     AM, Of
<1>3. ASSUME NEW r \in Requirements, NEW e \in r[1], e \in S
      PROVE  r[2] \subseteq S
  BY <1>2, <1>3 DEF Requirements
<1>4. ASSUME NEW e \in S, NEW R \in CausedBy[e]
      PROVE  R \subseteq S
  <2>1. R \in Requires[e]
    BY <1>1, <1>2 DEF CausedBy
  <2>2. QED
    BY <1>1, <1>3, <2>1 DEF Requires
<1>5. ASSUME NEW T \in SUBSET S
      PROVE  Causes(T) \subseteq S
  BY <1>4 DEF Causes
<1>6. FXrpRedeemed \in Targets => Ancestors[FXrpRedeemed] \subseteq S
  <2>1. Causes({FXrpRedeemed}) \subseteq S
    BY <1>5
  <2>2. Causes(Causes({FXrpRedeemed})) \subseteq S
    BY <1>5, <2>1
  <2>3. Causes(Causes(Causes({FXrpRedeemed}))) \subseteq S
    BY <1>5, <2>2
  <2>4. Causes(Causes(Causes(Causes({FXrpRedeemed})))) \subseteq S
    BY <1>5, <2>3
  <2>5. QED
    BY <2>4 DEF Ancestors
<1>7. QED
  BY <1>5, <1>6

\* The events that are told apart, and what the links' events require.
LEMMA RedemptionFacts ==
    /\ RedemptionRequests # {}
    /\ FXrpRedeemed \notin RedemptionRequests /\ PersonalAccount \notin RedemptionRequests
    /\ AgentVaultCreated \notin RedemptionRequests
    /\ CollateralTypeAdded \notin RedemptionRequests
    /\ \A e \in RedemptionRequests : e \in Handled /\ e \notin KnownByVault
    /\ FXrpRedeemed \in Handled /\ RedemptionRequests \in Requires[FXrpRedeemed]
    /\ {PersonalAccount} \in Requires[FXrpRedeemed]
    /\ \A e \in RedemptionRequests : {AgentVaultCreated} \in Requires[e]
    /\ AgentVaultCreated \in Handled /\ {CollateralTypeAdded} \in Requires[AgentVaultCreated]
    /\ WithinTransaction(FXrpRedeemed) = RedemptionRequests
<1>1. /\ RedemptionRequests # {}
      /\ FXrpRedeemed \notin RedemptionRequests /\ PersonalAccount \notin RedemptionRequests
      /\ AgentVaultCreated \notin RedemptionRequests
      /\ CollateralTypeAdded \notin RedemptionRequests
      /\ FXrpRedeemed \in OfPersonalAccount
  BY DEF RedemptionRequests, FXrpRedeemed, PersonalAccount, AgentVaultCreated,
     CollateralTypeAdded, OfPersonalAccount, AM, MAC, Of
<1>2. \A e \in RedemptionRequests : e \notin KnownByVault
  BY DEF RedemptionRequests, KnownByVault, OldPoolEvents, PoolEvents, PoolTokenTransfer, AM, Of
<1>3. /\ \A e \in RedemptionRequests : e \in Handled
      /\ FXrpRedeemed \in Handled /\ AgentVaultCreated \in Handled
  BY <1>1 DEF Handled, OfAgentVault, OfCollateralType, SmartAccountEvents
<1>4. /\ RedemptionRequests \in Requires[FXrpRedeemed]
      /\ {PersonalAccount} \in Requires[FXrpRedeemed]
  <2>1. /\ <<{FXrpRedeemed}, RedemptionRequests>> \in Requirements
        /\ <<OfPersonalAccount, {PersonalAccount}>> \in Requirements
    BY DEF Requirements
  <2>2. QED
    BY <1>1, <1>3, <2>1 DEF Requires
<1>5. \A e \in RedemptionRequests : {AgentVaultCreated} \in Requires[e]
  <2>1. <<OfAgentVault, {AgentVaultCreated}>> \in Requirements
    BY DEF Requirements
  <2>2. QED
    BY <1>3, <2>1 DEF Requires, OfAgentVault
<1>6. {CollateralTypeAdded} \in Requires[AgentVaultCreated]
  <2>1. <<OfCollateralType, {CollateralTypeAdded}>> \in Requirements
    BY DEF Requirements
  <2>2. QED
    BY <1>3, <2>1 DEF Requires, OfCollateralType
<1>7. WithinTransaction(FXrpRedeemed) = RedemptionRequests
  BY DEF WithinTransaction, FXrpRedeemed, FXrpTransferred, SmartReservation
<1>8. QED
  BY <1>1, <1>2, <1>3, <1>4, <1>5, <1>6, <1>7

LEMMA InitLink == Init => LinkInv
<1> SUFFICES ASSUME Init PROVE LinkInv
  OBVIOUS
<1>1. DOMAIN history = {} /\ stored = {} /\ DOMAIN link = {}
  BY DEF Init
<1>2. RequestsInv
  BY <1>1 DEF RequestsInv
<1>3. QED
  BY <1>1, <1>2 DEF LinkInv, StoredInv, AdjacentInv, LinksFollowChain

\* The chain only logs what keeps the requests together; nothing is stored yet.
LEMMA EmitLink ==
    ASSUME IInv, LinkInv, NEW e \in Ancestors[target], NEW block \in {Top, Top + 1},
           Emit(e, block)
    PROVE  LinkInv'
<1> DEFINE n == Len(history)
<1>1. /\ stage = "chain"
      /\ \A R \in CausedBy[e] : Emitted(R) # {}
      /\ WithinTransaction(e) # {} => EmittedIn(WithinTransaction(e), {block}) # {}
      /\ e \in WithinTransaction(target) =>
             \A R \in CausedBy[target] : e \in R \/ Emitted(R) # {}
      /\ Emitted({e}) = {}
         \/ /\ target = FXrpRedeemed /\ e \in RedemptionRequests
            /\ Emitted({e}) = EmittedIn({e}, {block})
      /\ e \in RedemptionRequests => Emitted(RedemptionRequests \ {e}) = {}
      /\ history' = Append(history, [event |-> e, block |-> block])
      /\ UNCHANGED <<target, update, stored, link, pos>>
  BY DEF Emit
<1>2. /\ DOMAIN history = 1 .. n /\ n \in Nat /\ Top \in Nat
      /\ \A i \in 1 .. n : Block(i) \in Nat \ {0} /\ Block(i) <= Top
  BY LogFacts DEF IInv
<1> DEFINE S == [event : Emittable, block : Nat \ {0}]
<1>3. history \in Seq(S) /\ [event |-> e, block |-> block] \in S
  BY <1>1, <1>2 DEF Emit, Emittable, IInv, HistoryInv, TypeInv
<1> HIDE DEF S
<1>4. /\ DOMAIN history' = 1 .. n + 1
      /\ \A i \in 1 .. n : history'[i] = history[i]
      /\ history'[n + 1] = [event |-> e, block |-> block]
  BY <1>1, <1>2, <1>3
<1> HIDE DEF n
<1>5. /\ \A i \in 1 .. n : Event(i)' = Event(i) /\ Block(i)' = Block(i)
                           /\ Request(i)' = Request(i)
      /\ \A i : i = n + 1 => /\ Event(i)' = e /\ Block(i)' = block
                             /\ Request(i)' <=> e \in RedemptionRequests
  BY <1>4 DEF Event, Block, Request
<1>6. \A R : \A i \in 1 .. n : Event(i) \in R => i \in Emitted(R)
  BY <1>2 DEF Emitted, EmittedIn
<1>7. \A R, B : \A i \in EmittedIn(R, B) : i \in 1 .. n /\ Event(i) \in R /\ Block(i) \in B
  BY <1>2 DEF EmittedIn
<1>8. ASSUME NEW i \in 1 .. n + 1, NEW j \in 1 .. n + 1, Request(i)', Request(j)'
      PROVE  /\ Event(i)' = Event(j)' /\ Block(i)' = Block(j)'
             /\ i # j => target = FXrpRedeemed
  <2>1. ASSUME NEW k \in 1 .. n, Request(k), e \in RedemptionRequests
        PROVE  Event(k) = e /\ Block(k) = block /\ target = FXrpRedeemed
    <3>1. Event(k) = e
      BY <1>1, <1>6, <2>1 DEF Request
    <3>2. k \in Emitted({e})
      BY <1>6, <3>1
    <3>3. QED
      BY <1>1, <1>7, <3>1, <3>2
  <2>2. CASE i \in 1 .. n /\ j \in 1 .. n
    BY <1>2, <1>5, <1>8, <2>2 DEF LinkInv, RequestsInv
  <2>3. CASE i = n + 1 /\ j \in 1 .. n
    BY <1>5, <1>8, <2>1, <2>3
  <2>4. CASE i \in 1 .. n /\ j = n + 1
    BY <1>5, <1>8, <2>1, <2>4
  <2>5. CASE i = n + 1 /\ j = n + 1
    BY <2>5
  <2>6. QED
    BY <1>2, <2>2, <2>3, <2>4, <2>5
<1>9. ASSUME NEW i \in 1 .. n + 1, Event(i)' = FXrpRedeemed
      PROVE  \E j \in 1 .. n + 1 : j < i /\ Request(j)' /\ Block(j)' = Block(i)'
  <2>1. CASE i \in 1 .. n
    <3>1. PICK j \in 1 .. n : j < i /\ Request(j) /\ Block(j) = Block(i)
      BY <1>2, <1>5, <1>9, <2>1 DEF LinkInv, RequestsInv
    <3>2. QED
      BY <1>2, <1>5, <2>1, <3>1
  <2>2. CASE i = n + 1
    <3>1. EmittedIn(RedemptionRequests, {block}) # {}
      BY <1>1, <1>5, <1>9, <2>2, RedemptionFacts
    <3>2. PICK j \in 1 .. n : Event(j) \in RedemptionRequests /\ Block(j) = block
      BY <1>7, <3>1
    <3>3. QED
      BY <1>2, <1>5, <2>2, <3>2 DEF Request
  <2>3. QED
    BY <1>2, <2>1, <2>2
<1>10. ASSUME NEW i \in 1 .. n + 1, NEW j \in 1 .. n + 1,
              Event(i)' = FXrpRedeemed, Event(j)' = FXrpRedeemed
       PROVE  i = j
  <2>1. e = FXrpRedeemed => \A k \in 1 .. n : Event(k) # FXrpRedeemed
    BY <1>1, <1>6, RedemptionFacts
  <2>2. i \in 1 .. n /\ j \in 1 .. n => i = j
    BY <1>2, <1>5, <1>10 DEF LinkInv, RequestsInv
  <2>3. QED
    BY <1>2, <1>5, <1>10, <2>1, <2>2
<1>11. ASSUME NEW i \in 1 .. n + 1, target = FXrpRedeemed, Request(i)'
       PROVE  /\ \E j \in 1 .. n + 1 : Event(j)' = PersonalAccount
              /\ \A j \in 1 .. n + 1 : i < j => Request(j)' \/ Event(j)' = FXrpRedeemed
  <2>1. \E j \in 1 .. n : Event(j) = PersonalAccount
    <3>1. CASE i \in 1 .. n
      BY <1>2, <1>5, <1>11, <3>1 DEF LinkInv, RequestsInv
    <3>2. CASE i = n + 1
      <4>1. e \in WithinTransaction(target) /\ {PersonalAccount} \in CausedBy[target]
            /\ e \notin {PersonalAccount}
        BY <1>5, <1>11, <3>2, RedemptionFacts, AtMostCaused
      <4>2. Emitted({PersonalAccount}) # {}
        BY <1>1, <4>1
      <4>3. QED
        BY <1>7, <4>2 DEF Emitted
    <3>3. QED
      BY <1>2, <3>1, <3>2
  <2>2. ASSUME NEW j \in 1 .. n + 1, i < j
        PROVE  Request(j)' \/ Event(j)' = FXrpRedeemed
    <3>1. i \in 1 .. n
      BY <1>2, <2>2
    <3>2. CASE j \in 1 .. n
      BY <1>2, <1>5, <1>11, <2>2, <3>1, <3>2 DEF LinkInv, RequestsInv
    <3>3. CASE j = n + 1
      <4>1. e \in {FXrpRedeemed, PersonalAccount, AgentVaultCreated, CollateralTypeAdded}
                      \cup RedemptionRequests
        BY <1>11, RedemptionCauses DEF IInv, TypeInv
      <4>2. Request(i)
        BY <1>5, <1>11, <3>1
      <4>3. PICK a \in 1 .. n : Event(a) = AgentVaultCreated
        <5>1. {AgentVaultCreated} \in CausedBy[Event(i)]
          BY <4>2, RedemptionFacts, AtMostCaused DEF Request
        <5>2. \A R \in CausedBy[Event(i)] : \E k \in 1 .. n : Event(k) \in R
          BY <1>2, <3>1 DEF IInv, HistoryInv
        <5>3. QED
          BY <5>1, <5>2
      <4>4. PICK c \in 1 .. n : Event(c) = CollateralTypeAdded
        <5>1. {CollateralTypeAdded} \in CausedBy[Event(a)]
          BY <4>3, RedemptionFacts, AtMostCaused
        <5>2. \A R \in CausedBy[Event(a)] : \E k \in 1 .. n : Event(k) \in R
          BY <1>2 DEF IInv, HistoryInv
        <5>3. QED
          BY <5>1, <5>2
      <4>5. ASSUME NEW k \in 1 .. n, Event(k) = e
            PROVE  e \in RedemptionRequests
        BY <1>1, <1>6, <4>5
      <4>6. QED
        BY <1>5, <2>1, <3>3, <4>1, <4>3, <4>4, <4>5
    <3>4. QED
      BY <1>2, <3>2, <3>3
  <2>3. QED
    BY <1>2, <1>5, <2>1, <2>2
<1>12. RequestsInv'
  BY <1>1, <1>4, <1>8, <1>9, <1>10, <1>11 DEF RequestsInv
<1>13. stored' = {} /\ link' = [i \in {} |-> 0]
  BY <1>1 DEF IInv, StageInv
<1>14. StoredInv' /\ AdjacentInv'
  BY <1>13 DEF StoredInv, AdjacentInv
<1>15. DOMAIN link' = {}
  BY <1>13
<1>16. QED
  BY <1>12, <1>14, <1>15 DEF LinkInv, LinksFollowChain

\* The greatest of some of the first natural numbers.
LEMMA MaxIs ==
    ASSUME NEW n \in Nat, NEW T \in SUBSET (1 .. n), T # {}
    PROVE  Max(T) \in T /\ \A y \in T : Max(T) >= y
<1> DEFINE U == { n - x : x \in T }
<1>1. U \in SUBSET Nat /\ U # {}
  <2>1. \A x \in T : n - x \in Nat
    OBVIOUS
  <2>2. QED
    BY <2>1
<1> HIDE DEF U
<1>2. PICK u \in U : \A v \in U : u <= v
  BY <1>1, LeastNatural
<1>3. PICK x \in T : u = n - x
  BY <1>2 DEF U
<1>4. ASSUME NEW y \in T
      PROVE  x >= y
  <2>1. n - y \in U
    BY DEF U
  <2>2. n - x <= n - y
    BY <1>2, <1>3, <2>1
  <2>3. QED
    BY <2>2
<1>5. QED
  BY <1>4 DEF Max

LEMMA SameMax ==
    ASSUME NEW n \in Nat, NEW T \in SUBSET (1 .. n), NEW U \in SUBSET T, T # {}, Max(T) \in U
    PROVE  Max(U) = Max(T)
<1>1. Max(T) \in T /\ \A y \in T : Max(T) >= y
  BY MaxIs
<1>2. Max(U) \in U /\ \A y \in U : Max(U) >= y
  <2>1. U \in SUBSET (1 .. n) /\ U # {}
    OBVIOUS
  <2>2. QED
    BY <2>1, MaxIs
<1>3. Max(U) \in T /\ Max(T) >= Max(U) /\ Max(U) >= Max(T)
  BY <1>1, <1>2
<1>4. \A x \in T : x \in Nat
  OBVIOUS
<1>5. \A x, y \in Nat : x >= y /\ y >= x => x = y
  OBVIOUS
<1>6. QED
  BY <1>1, <1>3, <1>4, <1>5

\* What the redemption of a smart account met by a pass is linked to.
LEMMA LinkAtLog ==
    ASSUME ListsClosed, IInv, LinkInv, AtLog, pos \notin stored,
           Event(pos) = FXrpRedeemed, RowsFound(FXrpRedeemed)
    PROVE  LET requests == EmittedIn(RedemptionRequests, {Block(pos)})
           IN \/ LastRequest(pos) = Max({ j \in requests : j < pos })
              \/ FXrpRedeemed \in Diff /\ \E j \in requests : pos < j
<1> DEFINE requests == EmittedIn(RedemptionRequests, {Block(pos)})
           T == { j \in requests : j < pos }
           U == { j \in stored : Event(j) \in RedemptionRequests /\ Block(j) = Block(pos) }
<1>1. /\ DOMAIN history = 1 .. Len(history) /\ Len(history) \in Nat
      /\ \A i \in DOMAIN history : Block(i) \in Nat \ {0}
      /\ stored \subseteq DOMAIN history /\ pos \in DOMAIN history
  BY LogFacts DEF IInv, TypeInv, AtLog
<1>2. /\ New = Old \cup Diff /\ New \subseteq Handled
      /\ \A e \in Old : \A R \in CausedBy[e] : R \subseteq Old
  BY ListsAre DEF IInv, TypeInv, Diff
<1>3. RedemptionRequests \in CausedBy[FXrpRedeemed]
  BY RedemptionFacts, AtMostCaused
<1>4. T \in SUBSET (1 .. Len(history)) /\ T # {}
  <2>1. PICK j \in DOMAIN history : j < pos /\ Request(j) /\ Block(j) = Block(pos)
    BY <1>1 DEF LinkInv, RequestsInv
  <2>2. QED
    BY <1>1, <2>1 DEF EmittedIn, Request
<1> DEFINE m == Max(T)
<1>5. m \in T /\ \A y \in T : m >= y
  BY <1>1, <1>4, MaxIs
<1>6. /\ m \in DOMAIN history /\ m < pos /\ Request(m) /\ Block(m) = Block(pos)
  BY <1>5 DEF EmittedIn, Request
<1> HIDE DEF m
<1>7. CASE \A j \in U : j < pos
  <2>1. U \in SUBSET T
    BY <1>1, <1>7 DEF EmittedIn
  <2>2. m \in stored
    <3>1. SUFFICES ASSUME m \notin stored PROVE FALSE
      OBVIOUS
    <3>2. Event(m) \notin KnownByVault
      BY <1>6, RedemptionFacts DEF Request
    <3>3. /\ Type = "back" /\ handover # 0
          /\ \/ stage = "back" /\ Event(m) \in Old
             \/ stage = "front" /\ Block(m) < handover
      BY <1>3, <1>6, <3>1, <3>2, CauseStored DEF Request
    <3>4. stage = "back" /\ Event(m) \in Old
      <4>1. stage = "front" => Block(m) = next["main"] /\ handover <= next["main"]
        BY <1>6, <3>3 DEF AtLog, Passing, IInv, StageInv
      <4>2. next["main"] \in Nat /\ handover \in Nat
        BY DEF IInv, TypeInv
      <4>3. QED
        BY <3>3, <4>1, <4>2
    <3>5. PICK i \in stored : Event(i) \in RedemptionRequests
      BY RedemptionFacts DEF RowsFound
    <3>6. i \in T
      BY <1>1, <1>6, <1>7, <3>5 DEF LinkInv, RequestsInv, Request, EmittedIn
    <3>7. i < m
      <4>1. i # m /\ m >= i
        BY <1>5, <3>1, <3>5, <3>6
      <4>2. i \in Nat /\ m \in Nat
        BY <1>1, <1>6
      <4>3. QED
        BY <4>1, <4>2
    <3>8. Event(i) = Event(m) /\ target = FXrpRedeemed
      BY <1>1, <1>6, <3>5, <3>7 DEF LinkInv, RequestsInv, Request
    <3>9. ASSUME NEW k \in DOMAIN history, i < k, k < m
          PROVE  Request(k)
      <4>1. Request(k) \/ Event(k) = FXrpRedeemed
        BY <1>1, <3>5, <3>8, <3>9 DEF LinkInv, RequestsInv, Request
      <4>2. k # pos
        BY <1>1, <1>6, <3>9
      <4>3. QED
        BY <1>1, <4>1, <4>2 DEF LinkInv, RequestsInv
    <3>10. Follows(m, i)
      BY <1>6, <3>4, <3>5, <3>7, <3>8, <3>9 DEF Follows, Request
    <3>11. Passing = "main"
      BY <1>6, <3>1, <3>10 DEF LinkInv, AdjacentInv
    <3>12. QED
      BY <3>4, <3>11 DEF Passing
  <2>3. Max(T) \in U
    BY <1>6, <2>2 DEF m, Request
  <2>4. Max(U) = Max(T)
    BY <1>1, <1>4, <2>1, <2>3, SameMax
  <2>5. QED
    BY <2>4 DEF LastRequest
<1>8. CASE \E j \in U : ~ (j < pos)
  <2>1. PICK j \in U : ~ (j < pos)
    BY <1>8
  <2>2. j \in requests /\ j \in stored /\ Request(j) /\ pos < j
    <3>1. j # pos
      BY <2>1
    <3>2. QED
      BY <1>1, <2>1, <3>1 DEF EmittedIn, Request
  <2>3. FXrpRedeemed \in Diff
    <3>1. SUFFICES ASSUME FXrpRedeemed \in Old PROVE FALSE
      BY <1>2 DEF AtLog, Handling, FrontList
    <3>2. Event(j) \in Old
      BY <1>2, <1>3, <2>2, <3>1 DEF Request
    <3>3. QED
      BY <1>1, <2>2, <3>1, <3>2 DEF LinkInv, StoredInv
  <2>4. QED
    BY <2>2, <2>3
<1>9. QED
  BY <1>7, <1>8

\* Where nothing is between two requests, a step that stores and links nothing
\* changes nothing.
LEMMA LinkStays ==
    ASSUME LinkInv, UNCHANGED <<chainVars, stored, link>>,
           \/ UNCHANGED <<pos, stage>>
           \/ \A i \in stored, j \in DOMAIN history \ stored : ~ Follows(j, i)
    PROVE  LinkInv'
<1>1. UNCHANGED <<target, history, update, stored, link>>
  BY DEF chainVars
<1>2. /\ \A i : Event(i)' = Event(i) /\ Block(i)' = Block(i) /\ (Request(i)' <=> Request(i))
      /\ Type' = Type /\ Old' = Old /\ New' = New /\ Diff' = Diff
  BY <1>1 DEF Event, Block, Type, Old, New, Diff, Request
<1>3. \A R, B : EmittedIn(R, B)' = EmittedIn(R, B)
  BY <1>1, <1>2 DEF EmittedIn
<1>4. \A e : RowsFound(e)' <=> RowsFound(e)
  BY <1>1, <1>2 DEF RowsFound
<1>5. \A i, j : Follows(j, i)' <=> Follows(j, i)
  BY <1>1, <1>2 DEF Follows
<1>6. RequestsInv'
  BY <1>1, <1>2 DEF LinkInv, RequestsInv
<1>7. StoredInv'
  BY <1>1, <1>2, <1>4 DEF LinkInv, StoredInv
<1>8. AdjacentInv'
  BY <1>1, <1>5 DEF LinkInv, AdjacentInv, Passing
<1>9. LinksFollowChain'
  BY <1>1, <1>2, <1>3 DEF LinkInv, LinksFollowChain
<1>10. QED
  BY <1>1, <1>6, <1>7, <1>8, <1>9 DEF LinkInv

\* The old events are stored in the order of the chain.
LEMMA OldBeforeStored ==
    ASSUME ListsClosed, IInv, AtLog, Event(pos) \in Old,
           NEW j \in DOMAIN history, j < pos, Event(j) \in Old
    PROVE  j \in stored
<1>1. /\ DOMAIN history = 1 .. Len(history) /\ Len(history) \in Nat
      /\ Block(j) \in Nat \ {0} /\ next["main"] \in Nat \ {0}
  BY LogFacts DEF IInv, TypeInv
<1>2. stage # "back" /\ stage # "chain" /\ Passing = "main" /\ pos # 0
  BY DEF AtLog, Handling, Diff, Passing, IInv, TurnInv
<1>3. Event(j) \in Handling
  <2>1. Old \subseteq New
    BY ListsAre DEF IInv, TypeInv
  <2>2. QED
    BY <1>2, <2>1 DEF Handling, FrontList
<1>4. Block(j) <= next["main"]
  BY <1>2 DEF IInv, TurnInv
<1>5. CASE Block(j) = next["main"]
  BY <1>2, <1>3, <1>5 DEF IInv, TurnInv
<1>6. CASE Block(j) < next["main"]
  BY <1>6 DEF IInv, CoverInv, Covered
<1>7. QED
  BY <1>1, <1>4, <1>5, <1>6

\* A log of a turn.
LEMMA HandleLink ==
    ASSUME ListsClosed, IInv, LinkInv, stage # "chain",
           NEW restart, HandleLog(Passing, Handling, restart)
    PROVE  LinkInv'
<1>1. /\ pos # 0 /\ LogInTurn(Passing)
      /\ UNCHANGED <<chainVars, target, history, update, next, handover>>
  BY DEF HandleLog, chainVars
<1>2. /\ DOMAIN history = 1 .. Len(history) /\ Len(history) \in Nat
      /\ pos \in DOMAIN history /\ Block(pos) = next[Passing]
      /\ stored \subseteq DOMAIN history
  BY <1>1, LogFacts DEF LogInTurn, IInv, TypeInv
<1>3. Old \subseteq New
  BY ListsAre DEF IInv, TypeInv
<1>4. ASSUME NEW i \in stored, NEW j \in DOMAIN history \ stored, Follows(j, i)
      PROVE  /\ Passing = "main" /\ i < pos /\ pos <= j /\ Request(pos)
             /\ Event(pos) = Event(i) /\ Event(pos) \in Handling
             /\ SourceKnown(Event(pos)) /\ RowsFound(Event(pos))
  <2>1. Passing = "main" /\ i < pos /\ pos <= j
    BY <1>4 DEF LinkInv, AdjacentInv
  <2>2. i \in DOMAIN history /\ Request(i) /\ Event(i) \in Old
    BY <1>2, <1>4 DEF Follows
  <2>3. Request(pos)
    <3>1. pos = j \/ pos < j
      BY <1>2, <2>1
    <3>2. QED
      BY <1>2, <1>4, <2>1, <3>1 DEF Follows
  <2>4. Event(pos) = Event(i)
    BY <1>2, <2>2, <2>3 DEF LinkInv, RequestsInv
  <2>5. Event(pos) \in Handling
    <3>1. stage \in {"before", "front", "whole"}
      BY <2>1 DEF Passing, IInv, TypeInv
    <3>2. QED
      BY <1>3, <2>2, <2>4, <3>1 DEF Handling, FrontList
  <2>6. Event(pos) \notin KnownByVault
    BY <2>3, RedemptionFacts DEF Request
  <2>7. QED
    BY <2>1, <2>3, <2>4, <2>5, <2>6 DEF LinkInv, StoredInv, SourceKnown
<1>5. CASE /\ Event(pos) \notin Handling \/ pos \in stored \/ ~SourceKnown(Event(pos))
           /\ pos' = pos + 1 /\ UNCHANGED <<stored, link, stage, threw>>
  \* What is skipped is not the second of two requests.
  <2>1. \A i \in stored, j \in DOMAIN history \ stored : Follows(j, i) => pos < j
    BY <1>2, <1>4, <1>5
  <2>2. \A i \in stored, j \in DOMAIN history \ stored :
            Follows(j, i) => Passing = "main" /\ i < pos + 1 /\ pos + 1 <= j /\ pos + 1 # 0
    BY <1>2, <1>4, <2>1
  <2>3. /\ \A i : Event(i)' = Event(i) /\ Block(i)' = Block(i) /\ (Request(i)' <=> Request(i))
        /\ Type' = Type /\ Old' = Old /\ New' = New /\ Diff' = Diff /\ Passing' = Passing
    BY <1>1, <1>5 DEF Event, Block, Type, Old, New, Diff, Request, Passing
  <2>4. \A i, j : Follows(j, i)' <=> Follows(j, i)
    BY <1>1, <2>3 DEF Follows
  <2>5. AdjacentInv'
    BY <1>1, <1>5, <2>2, <2>3, <2>4 DEF AdjacentInv
  <2>6. \A e : RowsFound(e)' <=> RowsFound(e)
    BY <1>5, <2>3 DEF RowsFound
  <2>7. RequestsInv' /\ StoredInv'
    BY <1>1, <1>5, <2>3, <2>6 DEF LinkInv, RequestsInv, StoredInv
  <2>8. \A R, B : EmittedIn(R, B)' = EmittedIn(R, B)
    BY <1>1, <2>3 DEF EmittedIn
  <2>9. LinksFollowChain'
    BY <1>5, <2>3, <2>8 DEF LinkInv, LinksFollowChain
  <2>10. QED
    BY <1>1, <1>5, <2>5, <2>7, <2>9 DEF LinkInv
<1>6. CASE /\ Event(pos) \in Handling /\ pos \notin stored /\ RowsFound(Event(pos))
           /\ stored' = stored \cup {pos}
           /\ link' = IF Event(pos) # FXrpRedeemed THEN link
                      ELSE [i \in DOMAIN link \cup {pos} |->
                                IF i = pos THEN LastRequest(pos) ELSE link[i]]
           /\ pos' = pos + 1 /\ UNCHANGED stage
  <2>1. AtLog
    BY <1>1, <1>2, <1>6 DEF AtLog
  <2>2. /\ \A i : Event(i)' = Event(i) /\ Block(i)' = Block(i) /\ (Request(i)' <=> Request(i))
        /\ Type' = Type /\ Old' = Old /\ New' = New /\ Diff' = Diff /\ Passing' = Passing
    BY <1>1, <1>6 DEF Event, Block, Type, Old, New, Diff, Request, Passing
  <2>3. \A i, j : Follows(j, i)' <=> Follows(j, i)
    BY <1>1, <2>2 DEF Follows
  <2>4. RequestsInv'
    BY <1>1, <2>2 DEF LinkInv, RequestsInv
  <2>5. StoredInv'
    <3>1. \A e : RowsFound(e) => RowsFound(e)'
      BY <1>6, <2>2 DEF RowsFound
    <3>2. \A i \in stored' : RowsFound(Event(i))
      BY <1>6 DEF LinkInv, StoredInv
    <3>3. ASSUME NEW i \in stored', NEW j \in DOMAIN history, j < i,
                 Event(i) \in Old, Event(j) \in Old
          PROVE  j \in stored
      <4>1. CASE i \in stored
        BY <3>3, <4>1 DEF LinkInv, StoredInv
      <4>2. CASE i = pos
        BY <2>1, <3>3, <4>2, OldBeforeStored
      <4>3. QED
        BY <1>6, <4>1, <4>2
    <3>4. QED
      BY <1>1, <1>6, <2>2, <3>1, <3>2, <3>3 DEF StoredInv
  <2>6. AdjacentInv'
    <3>1. ASSUME NEW i \in stored', NEW j \in DOMAIN history \ stored', Follows(j, i)
          PROVE  Passing = "main" /\ i < pos + 1 /\ pos + 1 <= j /\ pos + 1 # 0
      <4>1. j \in DOMAIN history \ stored /\ j # pos
        BY <1>6
      <4>2. CASE i \in stored
        BY <1>2, <1>4, <3>1, <4>1, <4>2
      <4>3. CASE i = pos
        <5>1. Event(pos) \in Old /\ pos < j
          BY <3>1, <4>3 DEF Follows
        <5>2. Passing = "main"
          BY <1>6, <5>1 DEF Passing, Handling, Diff
        <5>3. QED
          BY <1>2, <4>3, <5>1, <5>2
      <4>4. QED
        BY <1>6, <4>2, <4>3
    <3>2. QED
      BY <1>1, <1>6, <2>2, <2>3, <3>1 DEF AdjacentInv
  <2>7. \A R, B : EmittedIn(R, B)' = EmittedIn(R, B)
    BY <1>1, <2>2 DEF EmittedIn
  <2>8. (\A i \in DOMAIN link' : i \in DOMAIN history') /\ LinksFollowChain'
    <3>1. CASE Event(pos) # FXrpRedeemed
      <4>1. link' = link
        BY <1>6, <3>1
      <4>2. QED
        BY <1>1, <2>2, <2>7, <4>1 DEF LinkInv, LinksFollowChain
    <3>2. CASE Event(pos) = FXrpRedeemed
      <4>1. /\ DOMAIN link' = DOMAIN link \cup {pos} /\ link'[pos] = LastRequest(pos)
            /\ \A i \in DOMAIN link : i # pos => link'[i] = link[i]
        BY <1>6, <3>2
      <4>2. LET requests == EmittedIn(RedemptionRequests, {Block(pos)})
            IN \/ link'[pos] = Max({ j \in requests : j < pos })
               \/ FXrpRedeemed \in Diff /\ \E j \in requests : pos < j
        BY <1>6, <2>1, <3>2, <4>1, LinkAtLog
      <4>3. ASSUME NEW i \in DOMAIN link'
            PROVE  LET requests == EmittedIn(RedemptionRequests, {Block(i)})
                   IN \/ link'[i] = Max({ j \in requests : j < i })
                      \/ FXrpRedeemed \in Diff /\ \E j \in requests : i < j
        <5>1. CASE i = pos
          BY <4>2, <5>1
        <5>2. CASE i # pos
          <6>1. i \in DOMAIN link /\ link'[i] = link[i]
            BY <4>1, <5>2
          <6>2. QED
            BY <6>1 DEF LinkInv, LinksFollowChain
        <5>3. QED
          BY <5>1, <5>2
      <4>4. \A i \in DOMAIN link' : i \in DOMAIN history'
        BY <1>1, <1>2, <4>1 DEF LinkInv
      <4>5. QED
        BY <2>2, <2>7, <4>3, <4>4 DEF LinksFollowChain
    <3>3. QED
      BY <3>1, <3>2
  <2>9. QED
    BY <2>4, <2>5, <2>6, <2>8 DEF LinkInv
<1>7. CASE ~ RowsFound(Event(pos)) /\ UNCHANGED <<stored, link>>
  BY <1>1, <1>4, <1>7, LinkStays
<1>8. QED
  BY <1>5, <1>6, <1>7 DEF HandleLog

\* The end of a turn: both of two requests are behind it, or neither is.
LEMMA EndLink ==
    ASSUME ListsClosed, IInv, LinkInv, stage # "chain", pos # 0, ~ LogInTurn(Passing),
           UNCHANGED <<chainVars, stored, link>>
    PROVE  LinkInv'
<1>1. /\ DOMAIN history = 1 .. Len(history) /\ Len(history) \in Nat
      /\ \A i \in DOMAIN history : Block(i) \in Nat \ {0}
      /\ stored \subseteq DOMAIN history /\ next[Passing] \in Nat \ {0}
  BY LogFacts DEF IInv, TypeInv, Passing
<1>2. ASSUME NEW i \in stored, NEW j \in DOMAIN history \ stored, Follows(j, i)
      PROVE  FALSE
  <2>1. Passing = "main" /\ i < pos /\ pos <= j
    BY <1>2 DEF LinkInv, AdjacentInv
  <2>2. /\ i \in DOMAIN history /\ Request(j) /\ Event(i) \in Old
        /\ Event(j) = Event(i) /\ Block(j) = Block(i)
    BY <1>1, <1>2 DEF Follows, LinkInv, RequestsInv
  <2>3. Block(i) <= next[Passing] /\ Block(j) >= next[Passing]
    BY <2>1, <2>2 DEF IInv, TurnInv
  <2>4. Block(j) = next[Passing]
    BY <1>1, <2>2, <2>3
  <2>5. Event(j) \in Handling
    <3>1. stage \in {"before", "front", "whole"} /\ Old \subseteq New
      BY <2>1, ListsAre DEF Passing, IInv, TypeInv
    <3>2. QED
      BY <2>2, <3>1 DEF Handling, FrontList
  <2>6. Event(j) \notin KnownByVault
    BY <2>2, RedemptionFacts DEF Request
  <2>7. QED
    BY <1>2, <2>4, <2>5, <2>6, BlockDone
<1>3. QED
  BY <1>2, LinkStays

\* Between turns no two requests are apart.
LEMMA BetweenLink ==
    ASSUME LinkInv, pos = 0, UNCHANGED <<chainVars, stored, link>>
    PROVE  LinkInv'
<1>1. \A i \in stored, j \in DOMAIN history \ stored : ~ Follows(j, i)
  BY DEF LinkInv, AdjacentInv
<1>2. QED
  BY <1>1, LinkStays

LEMMA NextLink ==
    ASSUME ListsClosed, IInv, LinkInv, [Next]_vars
    PROVE  LinkInv'
<1>1. CASE Chain
  BY <1>1, EmitLink DEF Chain
<1>2. CASE StartIndexing \/ StartUpdate
  <2>1. pos = 0 /\ UNCHANGED <<chainVars, stored, link>>
    BY <1>2 DEF StartIndexing, StartUpdate, IInv, StageInv
  <2>2. QED
    BY <2>1, BetweenLink
<1>3. CASE BeginBack
  <2>1. pos = 0 /\ UNCHANGED <<chainVars, stored, link>>
    BY <1>3 DEF BeginBack, BeginTurn
  <2>2. QED
    BY <2>1, BetweenLink
<1>4. ASSUME NEW pass, NEW list, NEW restart, NEW then,
             stage # "chain", pass = Passing, list = Handling,
             BeginTurn(pass) \/ HandleLog(pass, list, restart) \/ EndTurn(pass, then)
      PROVE  LinkInv'
  <2>1. CASE BeginTurn(pass)
    BY <2>1, BetweenLink DEF BeginTurn
  <2>2. CASE HandleLog(pass, list, restart)
    BY <1>4, <2>2, HandleLink
  <2>3. CASE EndTurn(pass, then)
    BY <1>4, <2>3, EndLink DEF EndTurn
  <2>4. QED
    BY <1>4, <2>1, <2>2, <2>3
<1>5. CASE Before \/ Whole
  <2>1. PICK list : /\ \/ stage = "before" /\ list = Old
                       \/ stage = "whole" /\ list = New
                    /\ Alone(list)
    BY <1>5 DEF Before, Whole
  <2>2. stage # "chain" /\ Passing = "main" /\ list = Handling
    BY <2>1 DEF Passing, Handling
  <2>3. BeginTurn("main") \/ HandleLog("main", list, stage) \/ EndTurn("main", stage)
    BY <2>1 DEF Alone
  <2>4. QED
    BY <1>4, <2>2, <2>3
<1>6. CASE Back
  <2>1. stage = "back" /\ Passing = "back" /\ Handling = Diff
    BY <1>6 DEF Back, Passing, Handling
  <2>2. HandleLog("back", Diff, "back") \/ EndTurn("back", AfterBack)
    BY <1>6 DEF Back
  <2>3. QED
    BY <1>4, <2>1, <2>2
<1>7. CASE FrontTurn
  <2>1. stage = "front" /\ Passing = "main" /\ Handling = FrontList
    BY <1>7 DEF FrontTurn, Passing, Handling
  <2>2. \/ BeginTurn("main") \/ HandleLog("main", FrontList, "back") \/ EndTurn("main", "back")
        \/ pos = 0 /\ UNCHANGED <<chainVars, stored, link>>
    BY <1>7 DEF FrontTurn
  <2>3. QED
    BY <1>4, <2>1, <2>2, BetweenLink
<1>8. CASE UNCHANGED vars
  BY <1>8, LinkStays DEF vars, passVars
<1>9. QED
  BY <1>1, <1>2, <1>3, <1>5, <1>6, <1>7, <1>8 DEF Next, Run, Idle

\* A smart account's redemption is linked to the request the chain gave it,
\* unless the back pass of an update met it when a later request of the
\* transaction had been stored: storeFxrpRedeemed, which takes the last stored
\* request of the transaction.
THEOREM LinksOfChain ==
    ASSUME ListsClosed
    PROVE  Spec => []LinksFollowChain
<1>1. IInv /\ LinkInv /\ [Next]_vars => LinkInv'
  BY NextLink
<1>2. LinkInv => LinksFollowChain
  BY DEF LinkInv
<1>3. QED
  BY <1>1, <1>2, InitLink, Invariance, PTL DEF Spec
=============================================================================
