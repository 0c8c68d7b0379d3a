----------------------------- MODULE AgentState -----------------------------
(***************************************************************************)
(* What is known of an agent vault beyond its events: whether it exists    *)
(* and the info the asset manager reports of it, here whether it takes     *)
(* public mintings.  Two processes write it.  The indexer (StateUpdater    *)
(* and the agent handlers of EventStorer) applies the events one after     *)
(* another, far behind the head of the chain; the watchdog overwrites the  *)
(* info with what the chain says at its head, a round of all agents in one *)
(* transaction.                                                            *)
(*                                                                         *)
(* Rows a round has written are locked until it commits: a handler that    *)
(* changes one waits.  Reorganisations are EventIndexer's subject.         *)
(***************************************************************************)
EXTENDS Integers, Sequences

CONSTANTS
    Agent,       \* agent vaults
    MaxHistory,  \* bound: length of the event history
    MaxFaults    \* bound: failed or killed handlers and rounds

ASSUME AgentAssumption == MaxHistory \in Nat /\ MaxFaults \in Nat

VARIABLES
    history,    \* the events of the chain up to its head
    handled,    \* how many of them the indexer has committed
    vault,      \* AgentVault rows: the destroyed flag
    info,       \* AgentVaultInfo rows: publiclyAvailable
    untracked,  \* UntrackedAgentVault rows
    gone,       \* AgentVaultDestroyed rows
    reading,    \* what the handler under way has read: <<>> or one value
    inRound,    \* the watchdog is in a round,
    todo,       \* agents it has still to update,
    got,        \* <<>>, or the agent at hand and the position of the chain
                \* at which its info was read
    pending,    \* the same for the rows written but not committed
    faults,
    seen        \* history: position at which the info last committed by a
                \* reader of the chain was read

indexerVars  == <<handled, vault, untracked, gone, reading>>
watchdogVars == <<inRound, todo, got, pending>>
infoVars     == <<info, seen>>
vars == <<history, indexerVars, watchdogVars, infoVars, faults>>

Init ==
    /\ history = <<>> /\ handled = 0
    /\ vault = <<>> /\ info = <<>> /\ untracked = {} /\ gone = {}
    /\ reading = <<>>
    /\ inRound = FALSE /\ todo = {} /\ got = <<>> /\ pending = <<>>
    /\ faults = 0 /\ seen = <<>>

Put(f, x, v) == [y \in DOMAIN f \cup {x} |-> IF y = x THEN v ELSE f[y]]

-----------------------------------------------------------------------------
(* The asset manager.  An agent leaves the list of available agents before *)
(* it is destroyed, and its vault's address is never used again.           *)

Occurred(kind, a, k) ==
    { i \in 1 .. k : i <= Len(history) /\ history[i] = [kind |-> kind, agent |-> a] }
Registered(a, k) ==
    Occurred("AgentVaultCreated", a, k) # {} /\ Occurred("AgentDestroyed", a, k) = {}
Available(a, k) ==
    \E i \in Occurred("AgentAvailable", a, k) :
        \A j \in Occurred("AvailableAgentExited", a, k) : j < i

Emittable(e) ==
    LET a == e.agent
        now == Len(history)
    IN  CASE e.kind = "AgentVaultCreated" -> Occurred("AgentVaultCreated", a, now) = {}
          [] e.kind = "AgentAvailable" -> Registered(a, now) /\ ~Available(a, now)
          [] e.kind = "AvailableAgentExited" -> Registered(a, now) /\ Available(a, now)
          [] e.kind = "AgentDestroyed" -> Registered(a, now) /\ ~Available(a, now)

Kinds == {"AgentVaultCreated", "AgentAvailable", "AvailableAgentExited", "AgentDestroyed"}

Emit ==
    /\ Len(history) < MaxHistory
    /\ \E e \in [kind : Kinds, agent : Agent] :
           Emittable(e) /\ history' = Append(history, e)
    /\ UNCHANGED <<indexerVars, watchdogVars, infoVars, faults>>

-----------------------------------------------------------------------------
(* The indexer: the handler of the next event.                             *)

Due(kind) == handled < Len(history) /\ history[handled + 1].kind = kind
Subject == history[handled + 1].agent

Commit ==
    /\ handled' = handled + 1
    /\ reading' = <<>>
    /\ UNCHANGED <<history, watchdogVars, faults>>

\* StateUpdater.onAgentVaultCreated asks the asset manager of today, not that
\* of the event's block.
ReadAgentInfo ==
    /\ Due("AgentVaultCreated") /\ reading = <<>>
    /\ reading' = <<Len(history)>>
    /\ UNCHANGED <<history, handled, vault, untracked, gone, watchdogVars, infoVars, faults>>

CreateVault ==
    /\ Due("AgentVaultCreated") /\ reading # <<>>
    /\ Registered(Subject, reading[1])
    /\ vault' = Put(vault, Subject, FALSE)
    /\ info' = Put(info, Subject, Available(Subject, reading[1]))
    /\ seen' = Put(seen, Subject, reading[1])
    /\ Commit /\ UNCHANGED <<untracked, gone>>

CreateUntrackedRowless == \* mutant: the nested transaction is lost
    /\ Due("AgentVaultCreated") /\ reading # <<>>
    /\ ~Registered(Subject, reading[1])
    /\ vault' = Put(vault, Subject, TRUE)
    /\ Commit /\ UNCHANGED <<untracked, gone, infoVars>>

\* The agent has been destroyed since: the asset manager rejects its address.
CreateUntracked ==
    /\ Due("AgentVaultCreated") /\ reading # <<>>
    /\ ~Registered(Subject, reading[1])
    /\ vault' = Put(vault, Subject, TRUE)
    /\ untracked' = untracked \cup {Subject}
    /\ Commit /\ UNCHANGED <<gone, infoVars>>

DueAvailability == Due("AgentAvailable") \/ Due("AvailableAgentExited")

SkipUntrackedWithRow == \* mutant: the row is required of untracked agents too
    /\ DueAvailability /\ Subject \in untracked /\ Subject \in DOMAIN info
    /\ Commit /\ UNCHANGED <<vault, untracked, gone, infoVars>>

SkipUntracked ==
    /\ DueAvailability /\ Subject \in untracked
    /\ Commit /\ UNCHANGED <<vault, untracked, gone, infoVars>>

\* findOneOrFail of the info row: the committed one, whoever holds a lock.
ReadAvailability ==
    /\ DueAvailability /\ Subject \notin untracked
    /\ reading = <<>> /\ Subject \in DOMAIN info
    /\ reading' = <<info[Subject]>>
    /\ UNCHANGED <<history, handled, vault, untracked, gone, watchdogVars, infoVars, faults>>

SetAvailabilitySwapped == \* mutant: the two handlers exchanged
    LET available == Due("AvailableAgentExited") IN
    /\ DueAvailability /\ reading # <<>>
    /\ \/ reading[1] = available /\ UNCHANGED info
       \/ /\ reading[1] # available /\ Subject \notin DOMAIN pending
          /\ info' = [info EXCEPT ![Subject] = available]
    /\ Commit /\ UNCHANGED <<vault, untracked, gone, seen>>

\* onAgentEnteredAvailable, onAvailableAgentExited: an UPDATE is issued only
\* if the value differs from the one read.
SetAvailability ==
    LET available == Due("AgentAvailable") IN
    /\ DueAvailability /\ reading # <<>>
    /\ \/ reading[1] = available /\ UNCHANGED info
       \/ /\ reading[1] # available /\ Subject \notin DOMAIN pending
          /\ info' = [info EXCEPT ![Subject] = available]
    /\ Commit /\ UNCHANGED <<vault, untracked, gone, seen>>

DestroyVaultOther == \* mutant: the other case of the name, onAgentDestroyed
    /\ Due("AgentDestroyed") /\ Subject \in DOMAIN vault
    /\ vault' = [vault EXCEPT ![Subject] = TRUE]
    /\ info' = [a \in DOMAIN info \ {Subject} |-> info[a]]
    /\ seen' = [a \in DOMAIN seen \ {Subject} |-> seen[a]]
    /\ Commit /\ UNCHANGED <<untracked, gone>>

\* AGENT_VAULT_DESTROYED and AGENT_DESTROYED are one name: the handler is
\* onAgentVaultDestroyed, and onAgentDestroyed is never reached.
DestroyVault ==
    /\ Due("AgentDestroyed") /\ Subject \in DOMAIN vault
    /\ gone' = gone \cup {Subject}
    /\ Commit /\ UNCHANGED <<vault, untracked, infoVars>>

\* The handler fails or the indexer is killed, and the log is met again.
HandlerFails ==
    /\ reading # <<>> /\ faults < MaxFaults
    /\ reading' = <<>>
    /\ faults' = faults + 1
    /\ UNCHANGED <<history, handled, vault, untracked, gone, watchdogVars, infoVars>>

-----------------------------------------------------------------------------
(* The watchdog.                                                           *)

BeginRound ==
    /\ ~inRound
    /\ inRound' = TRUE
    /\ todo' = { a \in DOMAIN vault : ~vault[a] }
    /\ UNCHANGED <<history, indexerVars, infoVars, got, pending, faults>>

GetAgentInfoCached(a) == \* mutant: the answer of an earlier block is taken
    /\ a \in todo /\ got = <<>>
    /\ IF a \notin untracked /\ Registered(a, Len(history))
       THEN got' = <<a, seen[a]>> /\ UNCHANGED todo
       ELSE todo' = todo \ {a} /\ UNCHANGED got
    /\ UNCHANGED <<history, indexerVars, infoVars, inRound, pending, faults>>

\* An agent the asset manager does not know, or no longer, is passed over.
GetAgentInfo(a) ==
    /\ a \in todo /\ got = <<>>
    /\ IF a \notin untracked /\ Registered(a, Len(history))
       THEN got' = <<a, Len(history)>> /\ UNCHANGED todo
       ELSE todo' = todo \ {a} /\ UNCHANGED got
    /\ UNCHANGED <<history, indexerVars, infoVars, inRound, pending, faults>>

UpsertAgentInfo ==
    /\ got # <<>>
    /\ pending' = Put(pending, got[1], got[2])
    /\ todo' = todo \ {got[1]}
    /\ got' = <<>>
    /\ UNCHANGED <<history, indexerVars, infoVars, inRound, faults>>

Leave ==
    /\ inRound' = FALSE
    /\ todo' = {} /\ got' = <<>> /\ pending' = <<>>
    /\ UNCHANGED <<history, indexerVars>>

CommitRound ==
    /\ inRound /\ todo = {}
    /\ info' = [a \in DOMAIN info \cup DOMAIN pending |->
                   IF a \in DOMAIN pending THEN Available(a, pending[a]) ELSE info[a]]
    /\ seen' = [a \in DOMAIN seen \cup DOMAIN pending |->
                   IF a \in DOMAIN pending THEN pending[a] ELSE seen[a]]
    /\ Leave /\ UNCHANGED faults

\* The transaction fails or the watchdog is killed: nothing of the round is
\* left.
RoundFails ==
    /\ inRound /\ faults < MaxFaults
    /\ faults' = faults + 1
    /\ Leave /\ UNCHANGED infoVars

-----------------------------------------------------------------------------
Index ==
    \/ ReadAgentInfo \/ CreateVault \/ CreateUntracked
    \/ SkipUntracked \/ ReadAvailability \/ SetAvailability
    \/ DestroyVault

Watch ==
    \/ BeginRound \/ UpsertAgentInfo \/ CommitRound
    \/ \E a \in Agent : GetAgentInfo(a)

Next == Emit \/ Index \/ Watch \/ HandlerFails \/ RoundFails

Spec == Init /\ [][Next]_vars

\* Both loops never stop.  An UPDATE that waits for the lock of a round is
\* served when the round ends, before the next one starts.
FairSpec ==
    /\ Spec
    /\ WF_vars(Index) /\ SF_vars(SetAvailability)
    /\ WF_vars(Watch)

-----------------------------------------------------------------------------
TypeOK ==
    /\ handled \in 0 .. Len(history)
    /\ vault \in [DOMAIN vault -> BOOLEAN] /\ info \in [DOMAIN info -> BOOLEAN]
    /\ DOMAIN vault = { a \in Agent : Occurred("AgentVaultCreated", a, handled) # {} }
    /\ gone = { a \in Agent : Occurred("AgentDestroyed", a, handled) # {} }
    /\ DOMAIN info = DOMAIN seen
    /\ inRound \in BOOLEAN /\ todo \subseteq Agent
    /\ pending \in [DOMAIN pending -> 0 .. Len(history)]

\* "untracked agents don't have agent vault info property" (event-storer.ts),
\* and all others have, also while rounds and handlers cross: otherwise the
\* next availability event of the agent would stop the indexer.
InfoUnlessUntracked ==
    /\ DOMAIN info = DOMAIN vault \ untracked
    /\ DOMAIN pending \subseteq DOMAIN info

\* The info is never older than both readers: it is what the indexer's last
\* event says or what the chain said when it was last read, whichever way a
\* round and a handler cross.
InfoExplained ==
    \A a \in DOMAIN info :
        info[a] \in {Available(a, handled), Available(a, seen[a])}

\* The info of a registered agent agrees with the chain in the end, although
\* a round may overwrite a newer event and an event a newer round.
InfoConverges ==
    <>[](\A a \in DOMAIN info :
            Registered(a, Len(history)) => info[a] = Available(a, Len(history)))

\* Every event is handled in the end, those of agents that were destroyed
\* before the indexer met their creation included.
EventuallyHandled == <>[](handled = Len(history))

\* README.md: the watchdog keeps track of "registered agent's info on chain".
\* An agent that the indexer knows to be destroyed is not listed any more:
\* the API lists the info rows of vaults with destroyed = FALSE.
Listed(a) == a \in DOMAIN info /\ ~vault[a]
DestroyedNotListed == \A a \in gone : ~Listed(a)
=============================================================================
