---------------------------- MODULE MCBackReindex ----------------------------
(***************************************************************************)
(* Instances of BackReindex for TLC.  The database has agent vaults and    *)
(* redemption requests; the update adds redemption tickets and the         *)
(* redemptions performed.  A redemption is performed in a later block than *)
(* it is requested: README.md keeps the back indexer for events without    *)
(* closer dependencies.                                                    *)
(***************************************************************************)
EXTENDS BackReindex, TLC

CONSTANTS vault, ticket, request, performed, laterTicket, laterPerformed

MCLog == {vault, ticket, request, performed, laterTicket, laterPerformed}
MCBlockOf == (vault :> 1) @@ (ticket :> 1) @@ (request :> 2) @@ (performed :> 3)
          @@ (laterTicket :> 3) @@ (laterPerformed :> 5)
MCIndexOf == (vault :> 0) @@ (ticket :> 1) @@ (request :> 0) @@ (performed :> 1)
          @@ (laterTicket :> 0) @@ (laterPerformed :> 0)
MCSource == [l \in MCLog |-> IF l = ticket THEN {vault} ELSE {}]
MCRefs == [l \in MCLog |-> CASE l = request -> {vault}
                             [] l = performed -> {request, ticket}
                             [] l = laterPerformed -> {request, laterTicket}
                             [] OTHER -> {}]
MCOld  == {vault, request}
MCDiff == MCLog \ MCOld

ASSUME ClosedAssumption == OldClosed /\ AllClosed /\ SourcesKept
=============================================================================
