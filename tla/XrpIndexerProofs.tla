-------------------------- MODULE XrpIndexerProofs --------------------------
(***************************************************************************)
(* Theorems about XrpIndexer, for every set of transactions, ledgers,      *)
(* vaults and bounds: its type invariant, that no referenced payment below *)
(* the pointer is missing, and that a transaction of a vault created       *)
(* before it is missing there only where the greedy pass stored the rest   *)
(* of the ledger before it tracked the vault.                              *)
(***************************************************************************)
EXTENDS XrpIndexer, TLAPS

-----------------------------------------------------------------------------
(* The inductive invariant.  A turn has stored all that was due below the  *)
(* ledger at hand, whether in this turn, an earlier one or greedily; and   *)
(* what is stored at all of a ledger includes its referenced payments.     *)

Numbers ==
    /\ ledger \in Nat /\ current \in Nat /\ lastGreedy \in Nat
    /\ start \in Nat /\ at \in Nat /\ endBlock \in Int
    /\ endBlock <= ledger /\ (pc = "pointer" => at <= endBlock)
    /\ txs \subseteq Tx

\* Every one of S in a ledger from MinBlock on and below n is stored.
StoredBelow(S, n) == \A tx \in S : LedgerOf[tx] \in MinBlock .. n - 1 => tx \in txs

\* A ledger of which a row exists has all of S that it contains.
WholeLedgers(S) == \A tx \in S : LedgerOf[tx] \in blocks => tx \in txs

TurnDone(S) ==
    /\ firstUnhandled # NoBlock => StoredBelow(S, firstUnhandled)
    /\ pc = "track" => StoredBelow(S, start)
    /\ pc \in {"settled", "pointer"} => StoredBelow(S, at)
    /\ pc = "pointer" => \A tx \in S : LedgerOf[tx] = at => tx \in txs

IInv == TypeOK /\ Numbers /\ WholeLedgers(Referenced) /\ TurnDone(Referenced)

-----------------------------------------------------------------------------
(* What a ledger's transaction does, whichever pass it belongs to.         *)

LEMMA ProcessBlockStores ==
    ASSUME IInv, NEW n \in Nat, ProcessBlock(n)
    PROVE  /\ txs \subseteq txs' /\ txs' \subseteq Tx
           /\ blocks' = {LedgerOf[tx] : tx \in txs'}
           /\ blocks \subseteq blocks'
           /\ \A tx \in Tx : LedgerOf[tx] = n /\ Relevant(tx) /\ n \notin blocks => tx \in txs'
           /\ \A tx \in txs' \ txs : LedgerOf[tx] = n /\ Relevant(tx)
           /\ \A m \in blocks' \ blocks : m = n
           /\ n \in blocks => txs' = txs
<1> DEFINE new == {tx \in Tx : LedgerOf[tx] = n /\ Relevant(tx)}
<1>1. CASE n \in blocks
  BY <1>1 DEF ProcessBlock, IInv, TypeOK, Numbers
<1>2. CASE n \notin blocks
  <2>1. txs' = txs \cup new /\ blocks' = IF new = {} THEN blocks ELSE blocks \cup {n}
    BY <1>2 DEF ProcessBlock
  <2>2. blocks' = {LedgerOf[tx] : tx \in txs'}
    BY <2>1 DEF IInv, TypeOK
  <2>3. QED
    BY <2>1, <2>2, <1>2 DEF IInv, Numbers
<1>3. QED
  BY <1>1, <1>2

LEMMA ProcessBlockReferences ==
    ASSUME IInv, NEW n \in Nat, ProcessBlock(n)
    PROVE  /\ WholeLedgers(Referenced)'
           /\ \A tx \in Referenced : LedgerOf[tx] = n => tx \in txs'
<1>1. \A tx \in Referenced : LedgerOf[tx] = n => tx \in txs'
  BY ProcessBlockStores, XrpAssumption DEF IInv, WholeLedgers, Relevant
<1>2. QED
  BY <1>1, ProcessBlockStores DEF IInv, WholeLedgers

-----------------------------------------------------------------------------
LEMMA Initially == Init => IInv
BY XrpAssumption DEF Init, IInv, TypeOK, Numbers, WholeLedgers, TurnDone, StoredBelow

\* One step per action; those that write no row disturb at most the place a
\* turn stands at.
LEMMA Preserved ==
    ASSUME IInv, [Next]_vars
    PROVE  IInv'
<1> USE XrpAssumption
<1>1. CASE CloseLedger
  BY <1>1 DEF CloseLedger, IInv, TypeOK, Numbers, WholeLedgers, TurnDone, StoredBelow,
              dbVars, memVars, turnVars
<1>2. ASSUME NEW v \in Vault, IndexVault(v)
      PROVE  IInv'
  BY <1>2 DEF IndexVault, IInv, TypeOK, Numbers, WholeLedgers, TurnDone, StoredBelow,
              dbVars, memVars, turnVars
<1>3. ASSUME NEW n \in 1 .. MaxLedger, IndexCurrentBlock(n)
      PROVE  IInv'
  BY <1>3 DEF IndexCurrentBlock, IInv, TypeOK, Numbers, WholeLedgers, TurnDone, StoredBelow,
              dbVars, memVars, turnVars
<1>4. CASE RunHistoric
  <2> USE DEF IInv, TypeOK, Numbers
  <2>1. TypeOK' /\ Numbers' /\ WholeLedgers(Referenced)'
    BY <1>4 DEF RunHistoric, FirstUnhandledBlock, LastBlockToHandle, WholeLedgers,
                coreVars, dbVars, memVars
  <2>2. StoredBelow(Referenced, start)'
    BY <1>4 DEF RunHistoric, FirstUnhandledBlock, TurnDone, StoredBelow, dbVars
  <2>3. QED
    BY <1>4, <2>1, <2>2 DEF RunHistoric, TurnDone, StoredBelow, dbVars
<1>5. CASE UpdateTrackedAddresses
  BY <1>5 DEF UpdateTrackedAddresses, IInv, TypeOK, Numbers, WholeLedgers, TurnDone,
              StoredBelow, coreVars, dbVars
<1>6. CASE ProcessSettled
  <2>1. ProcessBlock(at) /\ at \in Nat
    BY <1>6 DEF ProcessSettled, IInv, Numbers
  <2>2. TypeOK' /\ Numbers'
    BY <1>6, <2>1, ProcessBlockStores DEF ProcessSettled, IInv, TypeOK, Numbers, coreVars, memVars
  <2>3. TurnDone(Referenced)'
    BY <1>6, <2>1, ProcessBlockStores, ProcessBlockReferences
       DEF ProcessSettled, IInv, TurnDone, StoredBelow
  <2>4. QED
    BY <2>1, <2>2, <2>3, ProcessBlockReferences DEF IInv
<1>7. CASE SetFirstUnhandledBlock
  <2>1. TypeOK' /\ Numbers' /\ WholeLedgers(Referenced)'
    BY <1>7 DEF SetFirstUnhandledBlock, IInv, TypeOK, Numbers, WholeLedgers, coreVars
  <2>2. StoredBelow(Referenced, at)'
    BY <1>7 DEF SetFirstUnhandledBlock, IInv, Numbers, TurnDone, StoredBelow
  <2>3. QED
    BY <1>7, <2>1, <2>2 DEF SetFirstUnhandledBlock, IInv, TurnDone, StoredBelow
<1>8. CASE BeginGreedy
  BY <1>8 DEF BeginGreedy, LatestBlockToHandle, IInv, TypeOK, Numbers, WholeLedgers,
              TurnDone, StoredBelow, coreVars, dbVars, memVars
<1>9. CASE ProcessGreedy
  <2>1. ProcessBlock(at) /\ at \in Nat
    BY <1>9 DEF ProcessGreedy, IInv, Numbers
  <2>2. TypeOK' /\ Numbers'
    BY <1>9, <2>1, ProcessBlockStores DEF ProcessGreedy, IInv, TypeOK, Numbers, coreVars
  <2>3. TurnDone(Referenced)'
    BY <1>9, <2>1, ProcessBlockStores DEF ProcessGreedy, IInv, TurnDone, StoredBelow
  <2>4. QED
    BY <2>1, <2>2, <2>3, ProcessBlockReferences DEF IInv
<1>10. CASE EndTurn
  BY <1>10 DEF EndTurn, IInv, TypeOK, Numbers, WholeLedgers, TurnDone, StoredBelow,
               coreVars, dbVars, memVars
<1>11. CASE Fail
  BY <1>11 DEF Fail, IInv, TypeOK, Numbers, WholeLedgers, TurnDone, StoredBelow,
               coreVars, dbVars, memVars
<1>12. CASE Restart
  BY <1>12 DEF Restart, IInv, TypeOK, Numbers, WholeLedgers, TurnDone, StoredBelow,
               coreVars, dbVars
<1>13. CASE UNCHANGED vars
  BY <1>13 DEF vars, coreVars, dbVars, memVars, turnVars, IInv, TypeOK, Numbers,
               WholeLedgers, TurnDone, StoredBelow
<1>14. QED
  BY <1>1, <1>2, <1>3, <1>4, <1>5, <1>6, <1>7, <1>8, <1>9, <1>10, <1>11, <1>12, <1>13
     DEF Next, Core, Run

\* The invariant the other theorems rest on.
THEOREM Invariance == Spec => []IInv
<1>1. Init => IInv
  BY Initially
<1>2. IInv /\ [Next]_vars => IInv'
  BY Preserved
<1>3. QED
  BY <1>1, <1>2, PTL DEF Spec

\* The type invariant of the XRP indexer's rows, memory and locals.
THEOREM TypeCorrect == Spec => []TypeOK
<1>1. IInv => TypeOK
  BY DEF IInv
<1>2. QED
  BY <1>1, Invariance, PTL

\* Below firstUnhandledXrpBlock no referenced payment is missing, for every
\* order of the two passes, of failures and of what the EVM indexer commits.
THEOREM ReferencesStored == Spec => []ReferencesComplete
<1>1. IInv => ReferencesComplete
  BY XrpAssumption DEF IInv, TurnDone, StoredBelow, ReferencesComplete, Below
<1>2. QED
  BY <1>1, Invariance, PTL

-----------------------------------------------------------------------------
(* The transactions of vaults.  A ledger is skipped when any row of it     *)
(* exists, so what the greedy pass stores of a ledger is all there will    *)
(* ever be of it: of each vault, all if it was tracked then.               *)

VaultTx(v) == {tx \in Tx : v \in Parties[tx] /\ CreatedAt[v] < LedgerOf[tx]}

Kept(tx, v) == tx \in txs \/ (<<LedgerOf[tx], v>> \in early /\ LedgerOf[tx] \in blocks)

KeptBelow(n) ==
    \A v \in Vault : \A tx \in VaultTx(v) : LedgerOf[tx] \in MinBlock .. n - 1 => Kept(tx, v)

\* The vaults created before the end of the settled range are known: to the
\* EVM side when the end is read, and to this process before it starts.
VaultsKnown ==
    /\ \A v \in Vault : CreatedAt[v] < current => v \in vaults
    /\ pc = "track" => \A v \in Vault : CreatedAt[v] < endBlock => v \in vaults
    /\ pc \in {"settled", "pointer"} => \A v \in Vault : CreatedAt[v] < endBlock => v \in tracked

\* A ledger of which a row exists has all of a vault that it ever will.
RowsInv == \A v \in Vault : \A tx \in VaultTx(v) : LedgerOf[tx] \in blocks => Kept(tx, v)

TurnInv ==
    /\ firstUnhandled # NoBlock => KeptBelow(firstUnhandled)
    /\ pc = "track" => KeptBelow(start)
    /\ pc \in {"settled", "pointer"} => KeptBelow(at)
    /\ pc = "pointer" => \A v \in Vault : \A tx \in VaultTx(v) : LedgerOf[tx] = at => Kept(tx, v)

VInv == VaultsKnown /\ RowsInv /\ TurnInv

LEMMA VaultsInitially == Init => VInv
BY XrpAssumption DEF Init, VInv, VaultsKnown, RowsInv, TurnInv, KeptBelow

\* What is kept stays kept when rows are only added.
LEMMA KeptStays ==
    ASSUME txs \subseteq txs', blocks \subseteq blocks', early \subseteq early'
    PROVE  /\ \A tx, v : Kept(tx, v) => Kept(tx, v)'
           /\ \A n : KeptBelow(n) => \A v \in Vault : \A tx \in VaultTx(v) :
                  LedgerOf[tx] \in MinBlock .. n - 1 => Kept(tx, v)'
BY DEF Kept, KeptBelow

\* A ledger's transaction keeps the rest of what the ledger has of a vault, if
\* the vault is tracked or the ledger is noted as stored without it.
LEMMA ProcessBlockKeeps ==
    ASSUME IInv, RowsInv, NEW n \in Nat, ProcessBlock(n), early \subseteq early',
           \A v \in Vault \ tracked : \A tx \in VaultTx(v) :
               LedgerOf[tx] = n /\ n \in blocks' \ blocks => <<n, v>> \in early'
    PROVE  /\ RowsInv'
           /\ \A v \in Vault \cap tracked : \A tx \in VaultTx(v) :
                  LedgerOf[tx] = n => Kept(tx, v)'
<1>1. /\ txs \subseteq txs' /\ blocks \subseteq blocks'
      /\ \A tx \in Tx : LedgerOf[tx] = n /\ Relevant(tx) /\ n \notin blocks => tx \in txs'
      /\ \A m \in blocks' \ blocks : m = n
  BY ProcessBlockStores
<1>2. ASSUME NEW v \in Vault, NEW tx \in VaultTx(v), LedgerOf[tx] \in blocks
      PROVE  Kept(tx, v)'
  BY <1>1, <1>2, KeptStays DEF RowsInv
<1>3. ASSUME NEW v \in Vault \cap tracked, NEW tx \in VaultTx(v), LedgerOf[tx] = n,
             n \notin blocks
      PROVE  Kept(tx, v)'
  <2>1. tx \in Tx /\ Relevant(tx)
    BY DEF VaultTx, Relevant
  <2>2. QED
    BY <1>1, <1>3, <2>1 DEF Kept
<1>4. ASSUME NEW v \in Vault, NEW tx \in VaultTx(v), LedgerOf[tx] \in blocks' \ blocks
      PROVE  Kept(tx, v)'
  <2>1. LedgerOf[tx] = n /\ n \notin blocks
    BY <1>1, <1>4
  <2>2. CASE v \in tracked
    BY <1>3, <2>1, <2>2
  <2>3. CASE v \notin tracked
    <3>1. <<LedgerOf[tx], v>> \in early'
      BY <1>4, <2>1, <2>3
    <3>2. QED
      BY <1>4, <3>1 DEF Kept
  <2>4. QED
    BY <2>2, <2>3
<1>5. QED
  BY <1>2, <1>3, <1>4 DEF RowsInv

\* One step per action; only the two passes store anything.
LEMMA VaultsPreserved ==
    ASSUME IInv, VInv, [Next]_vars
    PROVE  VInv'
<1> USE XrpAssumption
<1>1. CASE CloseLedger
  BY <1>1 DEF CloseLedger, VInv, VaultsKnown, RowsInv, TurnInv, KeptBelow, Kept,
              dbVars, memVars, turnVars
<1>2. ASSUME NEW v \in Vault, IndexVault(v)
      PROVE  VInv'
  BY <1>2 DEF IndexVault, VInv, VaultsKnown, RowsInv, TurnInv, KeptBelow, Kept,
              dbVars, memVars, turnVars
<1>3. ASSUME NEW n \in 1 .. MaxLedger, IndexCurrentBlock(n)
      PROVE  VInv'
  BY <1>3 DEF IndexCurrentBlock, VInv, VaultsKnown, RowsInv, TurnInv, KeptBelow, Kept,
              dbVars, memVars, turnVars
<1>4. CASE RunHistoric
  <2>1. VaultsKnown' /\ RowsInv'
    BY <1>4 DEF RunHistoric, LastBlockToHandle, VInv, VaultsKnown, RowsInv, Kept,
                coreVars, dbVars, memVars
  <2>2. KeptBelow(start)'
    BY <1>4 DEF RunHistoric, FirstUnhandledBlock, IInv, TypeOK, VInv, TurnInv, KeptBelow,
                Kept, dbVars
  <2>3. QED
    BY <1>4, <2>1, <2>2 DEF RunHistoric, VInv, TurnInv, KeptBelow, Kept, dbVars
<1>5. CASE UpdateTrackedAddresses
  <2>1. VaultsKnown' /\ RowsInv'
    BY <1>5 DEF UpdateTrackedAddresses, IInv, Numbers, VInv, VaultsKnown, RowsInv, Kept,
                coreVars, dbVars
  <2>2. QED
    BY <1>5, <2>1 DEF UpdateTrackedAddresses, VInv, TurnInv, KeptBelow, Kept, dbVars
<1>6. CASE ProcessSettled
  <2>1. ProcessBlock(at) /\ at \in Nat /\ endBlock \in Int /\ at <= endBlock /\ early' = early
    BY <1>6 DEF ProcessSettled, IInv, Numbers
  <2>2. \A v \in Vault : \A tx \in VaultTx(v) : LedgerOf[tx] = at => v \in tracked
    BY <1>6, <2>1 DEF ProcessSettled, VInv, VaultsKnown, VaultTx
  <2>3. /\ RowsInv'
        /\ \A v \in Vault \cap tracked : \A tx \in VaultTx(v) : LedgerOf[tx] = at => Kept(tx, v)'
    BY <2>1, <2>2, ProcessBlockKeeps DEF VInv
  <2>4. VaultsKnown'
    BY <1>6 DEF ProcessSettled, VInv, VaultsKnown, coreVars, memVars
  <2>5. TurnInv'
    BY <1>6, <2>1, <2>2, <2>3, KeptStays, ProcessBlockStores
       DEF ProcessSettled, VInv, TurnInv, KeptBelow
  <2>6. QED
    BY <2>3, <2>4, <2>5 DEF VInv
<1>7. CASE SetFirstUnhandledBlock
  <2>1. VaultsKnown' /\ RowsInv'
    BY <1>7 DEF SetFirstUnhandledBlock, VInv, VaultsKnown, RowsInv, Kept, coreVars
  <2>2. KeptBelow(at)'
    BY <1>7 DEF SetFirstUnhandledBlock, IInv, Numbers, VInv, VaultTx, TurnInv, KeptBelow, Kept
  <2>3. QED
    BY <1>7, <2>1, <2>2 DEF SetFirstUnhandledBlock, VInv, TurnInv, KeptBelow
<1>8. CASE BeginGreedy
  BY <1>8 DEF BeginGreedy, VInv, VaultsKnown, RowsInv, TurnInv, KeptBelow, Kept,
              coreVars, dbVars, memVars
<1>9. CASE ProcessGreedy
  <2>1. /\ ProcessBlock(at) /\ at \in Nat
        /\ early' = early \cup (blocks' \ blocks) \X (Vault \ tracked)
    BY <1>9 DEF ProcessGreedy, IInv, Numbers
  <2>2. RowsInv'
    BY <2>1, ProcessBlockKeeps DEF VInv
  <2>3. TurnInv' /\ VaultsKnown'
    BY <1>9, <2>1, KeptStays, ProcessBlockStores
       DEF ProcessGreedy, VInv, VaultsKnown, TurnInv, KeptBelow, coreVars
  <2>4. QED
    BY <2>2, <2>3 DEF VInv
<1>10. CASE EndTurn
  BY <1>10 DEF EndTurn, VInv, VaultsKnown, RowsInv, TurnInv, KeptBelow, Kept,
               coreVars, dbVars, memVars
<1>11. CASE Fail
  BY <1>11 DEF Fail, VInv, VaultsKnown, RowsInv, TurnInv, KeptBelow, Kept,
               coreVars, dbVars, memVars
<1>12. CASE Restart
  BY <1>12 DEF Restart, VInv, VaultsKnown, RowsInv, TurnInv, KeptBelow, Kept, coreVars, dbVars
<1>13. CASE UNCHANGED vars
  BY <1>13 DEF vars, coreVars, dbVars, memVars, turnVars, VInv, VaultsKnown, RowsInv, TurnInv,
               KeptBelow, Kept
<1>14. QED
  BY <1>1, <1>2, <1>3, <1>4, <1>5, <1>6, <1>7, <1>8, <1>9, <1>10, <1>11, <1>12, <1>13
     DEF Next, Core, Run

\* For all vaults, ledgers and interleavings: what is missing of a vault below
\* firstUnhandledXrpBlock is in a ledger the greedy pass stored before it
\* tracked the vault.  lastBlockToHandle is read before the addresses, so that
\* the settled pass never skips a vault itself.
THEOREM VaultsStored == Spec => []VaultsUnlessGreedy
<1>1. Init => VInv
  BY VaultsInitially
<1>2. IInv /\ VInv /\ [Next]_vars => VInv'
  BY VaultsPreserved
<1>3. ASSUME IInv, VInv
      PROVE  VaultsUnlessGreedy
  <2> SUFFICES ASSUME NEW tx \in Tx, NEW v \in Parties[tx] \cap Vault,
                      Below(tx), CreatedAt[v] < LedgerOf[tx]
               PROVE  \/ tx \in txs
                      \/ /\ <<LedgerOf[tx], v>> \in early
                         /\ \E k \in txs : LedgerOf[k] = LedgerOf[tx]
    BY DEF VaultsUnlessGreedy
  <2>1. Kept(tx, v)
    BY <1>3 DEF Below, VaultTx, VInv, TurnInv, KeptBelow
  <2>2. QED
    BY <1>3, <2>1 DEF Kept, IInv, TypeOK
<1>4. QED
  BY <1>1, <1>2, <1>3, Invariance, PTL DEF Spec
=============================================================================
