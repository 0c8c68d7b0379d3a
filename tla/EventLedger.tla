----------------------------- MODULE EventLedger -----------------------------
(***************************************************************************)
(* What an event indexer promises, whatever it does inside: a ledger that  *)
(* replays the settled logs of the chain once each and in chain order.     *)
(* Only at its end does the chain settle logs, and a stored log is never   *)
(* taken back.                                                             *)
(***************************************************************************)
EXTENDS EventLogs

VARIABLES
    settled,  \* logs the ledger has to contain in the end
    stored    \* logs it contains

LedgerInit == settled = {} /\ stored = {}

Settle ==
    /\ settled \subseteq settled'
    /\ \A k \in settled : \A l \in settled' \ settled : Before(k, l)
    /\ UNCHANGED stored

Record(l) ==
    /\ l \in settled \ stored
    /\ \A k \in settled : Before(k, l) => k \in stored
    /\ stored' = stored \cup {l}
    /\ UNCHANGED settled

LedgerNext == Settle \/ \E l \in Log : Record(l)

LedgerSpec == LedgerInit /\ [][LedgerNext]_<<settled, stored>>

\* The stored logs are always a prefix of the settled ones.
Prefix ==
    /\ stored \subseteq settled
    /\ \A l \in stored : \A k \in settled : Before(k, l) => k \in stored

\* A ledger that another indexer has begun.
ResumedSpec == Prefix /\ [][LedgerNext]_<<settled, stored>>
=============================================================================
