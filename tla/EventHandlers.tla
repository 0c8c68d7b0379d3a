----------------------------- MODULE EventHandlers -----------------------------
(***************************************************************************)
(* Does a handler ever look for a row that is not there?  For every event  *)
(* of EventLists: the events that lead up to it, an update that moves the  *)
(* indexer from one list of events to another, and the handlers, which     *)
(* throw when a row they need is missing.                                  *)
(*                                                                         *)
(* What a pass does within a turn, and crashes, are the business of        *)
(* EventIndexer, RaceReindex and BackReindex: here a turn is one block,    *)
(* and a block is one transaction.                                         *)
(***************************************************************************)
EXTENDS EventLists, Integers, Sequences, SequencesExt

CONSTANTS
    Targets,  \* the events whose history is played
    Updates   \* a sequence of [type, old, new]: the lists before and after, and
              \* how one becomes the other ("none": the list is always new)

ASSUME HandlersAssumption ==
    /\ Targets \subseteq Handled
    /\ \A u \in Range(Updates) : /\ u.type \in {"none", "race", "back"}
                                 /\ u.old \subseteq u.new /\ u.new \subseteq Handled

VARIABLES
    target,   \* the event the history leads up to
    history,  \* the logs, in chain order: [event, block]
    update,   \* the one of Updates, by its place
    stored,   \* the logs stored, by their place in history
    link,     \* SM_FxrpRedeemed: the redemption each refers to
    next,     \* first unhandled block of the main (front) and the back pass
    handover, \* lastEventBlock_<name> of a back update, 0 while it is not set
    stage,    \* what runs: the chain, or a pass
    pos,      \* the log the turn is at, 0 between turns
    threw     \* history variable: the handlers that threw, [pass, log]

chainVars == <<target, history, update>>
passVars  == <<next, handover, stage>>
vars      == <<chainVars, stored, link, passVars, pos, threw>>

Type == Updates[update].type
Old  == Updates[update].old
New  == Updates[update].new
Diff == New \ Old

Init ==
    /\ target \in Targets /\ history = <<>> /\ update \in DOMAIN Updates
    /\ stored = {} /\ link = [i \in {} |-> 0]
    /\ next = [main |-> 1, back |-> 1] /\ handover = 0
    /\ stage = "chain" /\ pos = 0 /\ threw = {}

-----------------------------------------------------------------------------
(* The logs that lead up to an event.  The contracts emit what an event    *)
(* refers to before it, and for some within the same transaction.  The     *)
(* history is complete before the indexer runs: what lies above a pass     *)
(* makes no difference to it.                                              *)

Block(i)   == history[i].block
Event(i)   == history[i].event
Top        == IF history = <<>> THEN 0 ELSE Block(Len(history))
EmittedIn(R, B) == { i \in DOMAIN history : Event(i) \in R /\ Block(i) \in B }
Emitted(R) == EmittedIn(R, 1 .. Top)

CausedBy ==
    [e \in Handled |-> Requires[e] \cup
                       IF e \in KnownByVault THEN {{AgentVaultCreated}} ELSE {}]
Causes(S) == S \cup UNION { UNION CausedBy[e] : e \in S }
Ancestors == [e \in Targets |-> Causes(Causes(Causes(Causes({e}))))]

WithinTransaction(e) ==
    CASE e = FXrpRedeemed -> RedemptionRequests
      [] e = FXrpTransferred -> {TokenTransfer}
      [] e = SmartReservation -> {CollateralReserved}
      [] OTHER -> {}

Emit(e, block) ==
    /\ stage = "chain"
    /\ block # 0
    /\ \A R \in CausedBy[e] : Emitted(R) # {}
    /\ WithinTransaction(e) # {} => EmittedIn(WithinTransaction(e), {block}) # {}
    /\ e \in WithinTransaction(target) =>
           \A R \in CausedBy[target] : e \in R \/ Emitted(R) # {}
    \* One of each, but a transaction may redeem twice.
    /\ Emitted({e}) = {}
       \/ /\ target = FXrpRedeemed /\ e \in RedemptionRequests
          /\ Emitted({e}) = EmittedIn({e}, {block}) /\ Cardinality(Emitted({e})) < 2
    /\ e \in RedemptionRequests => Emitted(RedemptionRequests \ {e}) = {}
    /\ Emitted({target}) # {} => target = FXrpRedeemed
    /\ history' = Append(history, [event |-> e, block |-> block])
    /\ UNCHANGED <<target, update, stored, link, passVars, pos, threw>>

-----------------------------------------------------------------------------
(* The handlers.                                                           *)

\* findOneOrFail of each row the handler needs
RowsFound(e) == \A R \in Requires[e] : \E i \in stored : Event(i) \in R

SourceKnown(e) == e \in KnownByVault => \E i \in stored : Event(i) = AgentVaultCreated

FirstRequest(i) == \* mutant: orderBy index ASC
    Min({ j \in stored : Event(j) \in RedemptionRequests /\ Block(j) = Block(i) })

\* The last stored one of the log's transaction.
LastRequest(i) ==
    Max({ j \in stored : Event(j) \in RedemptionRequests /\ Block(j) = Block(i) })

LogInTurn(pass) == pos <= Len(history) /\ Block(pos) = next[pass]

HandleLog(pass, list, restart) ==
    /\ pos # 0 /\ LogInTurn(pass)
    /\ IF Event(pos) \notin list \/ pos \in stored \/ ~SourceKnown(Event(pos))
       THEN pos' = pos + 1 /\ UNCHANGED <<stored, link, stage, threw>>
       ELSE IF RowsFound(Event(pos))
       THEN /\ stored' = stored \cup {pos}
            /\ link' = IF Event(pos) # FXrpRedeemed THEN link
                       ELSE [i \in DOMAIN link \cup {pos} |->
                                IF i = pos THEN LastRequest(pos) ELSE link[i]]
            /\ pos' = pos + 1 /\ UNCHANGED <<stage, threw>>
       ELSE \* the transaction is rolled back, and the runner starts over
            /\ threw' = threw \cup {[pass |-> pass, log |-> pos]}
            /\ pos' = 0 /\ stage' = restart /\ UNCHANGED <<stored, link>>
    /\ UNCHANGED <<chainVars, next, handover>>

BeginTurn(pass) ==
    /\ pos = 0 /\ next[pass] <= Top
    /\ pos' = Min({ i \in DOMAIN history : Block(i) = next[pass] })
    /\ UNCHANGED <<chainVars, stored, link, next, threw>>

EndTurn(pass, then) ==
    /\ pos # 0 /\ ~LogInTurn(pass)
    /\ next' = [next EXCEPT ![pass] = @ + 1]
    /\ pos' = 0 /\ stage' = then
    /\ UNCHANGED <<chainVars, stored, link, handover, threw>>

-----------------------------------------------------------------------------
(* The passes.                                                             *)

\* The indexer as it runs before the update, and alone after it.
StartIndexing ==
    /\ stage = "chain" /\ Emitted({target}) # {}
    /\ stage' = IF Type = "none" THEN "whole" ELSE "before"
    /\ UNCHANGED <<chainVars, stored, link, next, handover, pos, threw>>

Alone(list) ==
    \/ BeginTurn("main") /\ UNCHANGED <<handover, stage>>
    \/ HandleLog("main", list, stage)
    \/ EndTurn("main", stage)

Before == stage = "before" /\ Alone(Old)
Whole  == stage = "whole" /\ Alone(New)

\* The process is started again with the update configured.
StartUpdate ==
    /\ stage = "before" /\ pos = 0
    /\ stage' = "back"
    /\ UNCHANGED <<chainVars, stored, link, next, handover, pos, threw>>

RaceLimitInclusive == next.back <= next.main \* mutant: meets the front's next block
RaceLimit == next.back < next.main

\* What a back pass inserts ends with the block the main one stood at.
BackLimit == next.back <= (IF handover = 0 THEN next.main ELSE handover)

BeginBack ==
    /\ stage = "back" /\ pos = 0
    /\ handover' = IF Type = "race" THEN 0
                   ELSE IF handover = 0 THEN next.main ELSE handover
    /\ IF (IF Type = "race" THEN RaceLimit ELSE BackLimit)
       THEN IF next.back <= Top THEN BeginTurn("back") /\ UNCHANGED stage
            ELSE \* nothing there: the turn covers the block at once
                 /\ next' = [next EXCEPT !.back = @ + 1]
                 /\ UNCHANGED <<chainVars, stored, link, stage, pos, threw>>
       ELSE stage' = "whole" /\ UNCHANGED <<chainVars, stored, link, next, pos, threw>>

\* A race is over as soon as the back pass has caught up.
AfterBack ==
    IF Type = "race" /\ next.back + 1 >= next.main THEN "whole" ELSE "front"

Back ==
    /\ stage = "back"
    /\ HandleLog("back", Diff, "back") \/ EndTurn("back", AfterBack)

FrontList == IF Type = "race" THEN Old ELSE New

\* The front pass has its turn, or too few blocks lie ahead of it.
FrontTurn ==
    /\ stage = "front"
    /\ \/ BeginTurn("main") /\ UNCHANGED <<handover, stage>>
       \/ HandleLog("main", FrontList, "back")
       \/ EndTurn("main", "back")
       \/ /\ pos = 0 /\ stage' = "back"
          /\ UNCHANGED <<chainVars, stored, link, next, handover, pos, threw>>

Chain == \E e \in Ancestors[target], b \in {Top, Top + 1} : Emit(e, b)

Run == StartIndexing \/ Before \/ StartUpdate \/ BeginBack \/ Back \/ FrontTurn \/ Whole

\* Nothing left to index.
Idle == stage = "whole" /\ pos = 0 /\ next.main > Top /\ UNCHANGED vars

Next == Chain \/ Run \/ Idle

Spec == Init /\ [][Next]_vars

\* The runner never stops calling run, and the target is emitted in the end.
FairSpec == Spec /\ WF_vars(Run) /\ WF_vars(Chain)

-----------------------------------------------------------------------------
\* An event of the update that refers to one of the old list in the block of
\* the hand-over itself, which the back pass indexes without the main one.
HandoverClash ==
    /\ Type = "back" /\ handover # 0
    /\ \E i, j \in EmittedIn(Handled, {handover}) :
           /\ Event(i) \in Diff /\ Event(j) \in Old
           /\ \E R \in Requires[Event(i)] : Event(j) \in R

\* What a list has to name with an event: all that may create the rows its
\* handler needs.  And the vaults by which a back update's main pass tells the
\* emitters of its events, which it would drop, are old ones.
ListsClosed ==
    \A u \in Range(Updates) :
        /\ \A list \in {u.old, u.new} : \A e \in list : \A R \in CausedBy[e] : R \subseteq list
        /\ u.type = "back" => AgentVaultCreated \notin u.new \ u.old

\* The lists are closed and the passes meet the events in the right order:
\* with every shipped list, and in a race between any two, no handler misses a
\* row.  In a back update the back pass may in the hand-over block, and the
\* main pass where all that would have created the row is new and lies below
\* the hand-over.
RowsAwaited ==
    \A t \in threw :
        /\ Type = "back"
        /\ IF t.pass = "back" THEN HandoverClash /\ Block(t.log) = handover
           ELSE \E R \in Requires[Event(t.log)] :
                    LET causes == { i \in Emitted(R) : i < t.log }
                    IN causes # {} /\ causes \subseteq EmittedIn(Diff, 1 .. handover - 1)

\* Every event of the list is stored in the end, none is dropped because the
\* row that would tell its source was not there yet, and no pass waits for a
\* row for ever, but for a back update with a clash in the hand-over block.
AllStored ==
    \/ <>[](stage = "whole" /\ stored = Emitted(New))
    \/ <>HandoverClash

\* A smart account's redemption is the last one its transaction requested
\* before it, unless the back pass of an update came across it when a later
\* one of the transaction had been stored.
LinksFollowChain ==
    \A i \in DOMAIN link :
        LET requests == EmittedIn(RedemptionRequests, {Block(i)})
        IN \/ link[i] = Max({ j \in requests : j < i })
           \/ FXrpRedeemed \in Diff /\ \E j \in requests : i < j
=============================================================================
