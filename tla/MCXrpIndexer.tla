---------------------------- MODULE MCXrpIndexer ----------------------------
(***************************************************************************)
(* An instance of XrpIndexer for TLC: two vaults, created at ledgers 1 and *)
(* 2.  The first one's agent is paid in ledger 2, beside a transaction of  *)
(* nobody's interest; in ledger 3 a minter pays it with a reference, and   *)
(* the second one's agent pays somebody.                                   *)
(***************************************************************************)
EXTENDS XrpIndexer, TLC

CONSTANTS agent, lateAgent, minter, other, topup, payment, withdrawal, foreign

MCTx == {topup, payment, withdrawal, foreign}
MCLedgerOf == (topup :> 2) @@ (foreign :> 2) @@ (payment :> 3) @@ (withdrawal :> 3)
MCParties == (topup :> {other, agent}) @@ (payment :> {minter, agent})
          @@ (withdrawal :> {lateAgent, other}) @@ (foreign :> {other})
MCCreatedAt == (agent :> 1) @@ (lateAgent :> 2)
=============================================================================
