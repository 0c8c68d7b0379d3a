------------------------------ MODULE EventLogs ------------------------------
(***************************************************************************)
(* The logs an EVM chain can emit, and what the indexer's parser and       *)
(* handlers ask of the database before they accept one.                    *)
(*                                                                         *)
(* A log is an opaque value with a position; its payload matters here only *)
(* through the rows it is looked up against:                               *)
(*   - Source[l] : the logs that created the AgentVault row by which       *)
(*     EventParser.logSource recognises the emitter of l.  While one is    *)
(*     missing the parser returns null and l is dropped without a trace;   *)
(*   - Refs[l]   : the logs that created the rows the handler of l fetches *)
(*     with findOneOrFail.  While one is missing the handler throws.       *)
(***************************************************************************)
EXTENDS Integers, FiniteSets

CONSTANTS
    Log,       \* every log some history of the chain may contain
    BlockOf,   \* Log -> Nat, the block a log is emitted in
    IndexOf,   \* Log -> Nat, its log index inside the block
    Source,    \* Log -> SUBSET Log, rows the parser looks up
    Refs       \* Log -> SUBSET Log, rows the handler requires

(***************************************************************************)
(* EventScraper.logOrder: by block number, then by log index.              *)
(***************************************************************************)
Before(k, l) ==
    \/ BlockOf[k] < BlockOf[l]
    \/ BlockOf[k] = BlockOf[l] /\ IndexOf[k] < IndexOf[l]

IsFirstUnsorted(l, S) == l \in S \* mutant: the logs are not sorted

\* The next log of an array sorted by logOrder.
IsFirst(l, S) == l \in S /\ \A k \in S \ {l} : Before(l, k)

\* What a log reads was written by earlier logs: an agent vault exists before
\* its pool emits, a request before its resolution.
ASSUME LogAssumption ==
    /\ BlockOf \in [Log -> Nat]
    /\ IndexOf \in [Log -> Nat]
    /\ Source \in [Log -> SUBSET Log]
    /\ Refs \in [Log -> SUBSET Log]
    /\ \A l \in Log : \A k \in Source[l] \cup Refs[l] : Before(k, l)
    /\ \A k, l \in Log : k # l => Before(k, l) \/ Before(l, k)

\* A history in which every log is emitted after the logs it reads.
Causal(S) == \A l \in S : Source[l] \cup Refs[l] \subseteq S

LogsIn(S, from, to) == {l \in S : BlockOf[l] \in from .. to}
=============================================================================
