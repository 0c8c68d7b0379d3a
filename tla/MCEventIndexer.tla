--------------------------- MODULE MCEventIndexer ---------------------------
(***************************************************************************)
(* Instances of EventIndexer for TLC.  Six logs: an agent vault creation,  *)
(* a reservation and, later, an event of the vault's pool and the          *)
(* execution of the reservation; a reservation nobody tracks, because its  *)
(* event is not in the list, and its execution, an orphan.                 *)
(***************************************************************************)
EXTENDS EventIndexer, TLC

CONSTANTS vault, request, pool, execution, foreign, orphan

MCLog == {vault, request, pool, execution, foreign, orphan}
MCBlockOf == (vault :> 1) @@ (request :> 2) @@ (foreign :> 2)
          @@ (pool :> 2) @@ (execution :> 3) @@ (orphan :> 3)
MCIndexOf == (vault :> 0) @@ (request :> 0) @@ (foreign :> 1)
          @@ (pool :> 2) @@ (execution :> 0) @@ (orphan :> 1)
MCSource == [l \in MCLog |-> IF l = pool THEN {vault} ELSE {}]
MCRefs   == [l \in MCLog |-> CASE l = execution -> {request}
                               [] l = orphan -> {foreign}
                               [] l = request -> {vault}
                               [] OTHER -> {}]

TrackedEvents == MCLog \ {foreign}

ASSUME SourcesTrackedAssumption == SourcesTracked
=============================================================================
