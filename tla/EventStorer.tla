---------------------------- MODULE EventStorer ----------------------------
(***************************************************************************)
(* EventStorer.processEvent: what the handlers make of an event beyond a   *)
(* row of its own, and what becomes of that when the events are handled by *)
(* the two passes of an update, replayed, or found in a database that an   *)
(* older version has written.                                              *)
(*                                                                         *)
(* A request has the resolution its last resolving event gave it; a        *)
(* redemption ticket the value of its last update until it is destroyed; a *)
(* token balance is the sum of the holder's transfers; the settings are    *)
(* read from the chain at the first start and then follow their events;    *)
(* events of the old collateral pools are kept in the rows of the new.     *)
(***************************************************************************)
EXTENDS Integers, Sequences

CONSTANTS
    Request,     \* reservations, redemptions, core vault transfers and
                 \* returns, underlying withdrawals
    Outcomes,    \* the resolutions, in the order of add-resolutions.ts
    Ticket,      \* redemption tickets
    Holder,      \* token holders
    Amount,      \* ticket values, and the values of the setting
    FirstSize,   \* the value of the setting before any change
    Transfers,   \* the transfers that occur: [from, to, value]
    Scenarios,   \* what may happen together, [legacy, kinds, type, diff]: the
                 \* events an older version has indexed, which knew neither
                 \* resolutions nor the new pool rows; the kinds emitted from
                 \* then on; the type of the update ("none") and those it adds
    MaxEvents,   \* bound: events emitted
    MaxFaults    \* bound: failed or killed turns

Kinds == {"Requested", "Resolved", "TicketCreated", "TicketUpdated",
          "TicketDeleted", "Transfer", "SettingChanged", "PoolEvent"}
Outcome == { Outcomes[i] : i \in DOMAIN Outcomes }

\* What an older version may have indexed: the chain's beginning, as far as it
\* left other rows than this version would.
OldHistory(h) ==
    /\ h \in Seq([kind : {"Requested"}, id : Request]
                 \cup [kind : {"Resolved"}, id : Request, outcome : Outcome]
                 \cup [kind : {"PoolEvent"}])
    /\ \A i, j \in DOMAIN h :
           h[i].kind = "Requested" /\ h[j].kind = "Requested" /\ h[i].id = h[j].id => i = j
    /\ \A i \in DOMAIN h : h[i].kind = "Resolved" =>
           \E j \in 1 .. i : h[j].kind = "Requested" /\ h[j].id = h[i].id

ASSUME StorerAssumption ==
    /\ Outcomes \in Seq(Outcome) /\ Outcome \cap {"NONE", "NULL"} = {}
    /\ Amount \subseteq Nat \ {0} /\ FirstSize \in Amount
    /\ Transfers \subseteq [from : Holder, to : Holder, value : Nat]
    /\ \A s \in Scenarios :
           /\ OldHistory(s.legacy) /\ s.type \in {"none", "race", "back"}
           /\ s.kinds \subseteq Kinds
           /\ s.diff \subseteq s.kinds /\ (s.diff = {} <=> s.type = "none")
    /\ MaxEvents \in Nat /\ MaxFaults \in Nat

VARIABLES
    scenario,
    history,    \* the final events, in chain order
    stored,     \* EvmLog rows: the positions of the events stored
    db,         \* the rows of the handlers:
                \*   resolution   of each request ("NULL" if never set)
                \*   ticket       RedemptionTicket
                \*   balance      TokenBalance
                \*   lotSize      AssetManagerSettings, <<>> or one row
                \*   oldPool, newPool   CollateralPoolEntered, CPEntered, ...
    mode,       \* the indexer is down, or runs before, in or after the update
    position,   \* events each pass is done with, of which
    pointer,    \* events its committed pointer covers
    backEnd,    \* the end of a back pass
    toMigrate,  \* old pool rows the migration has found and not yet moved
    script,     \* statements add-resolutions.ts has executed
    faults

passVars == <<mode, position, pointer, backEnd>>
vars     == <<scenario, history, stored, db, passVars, toMigrate, script, faults>>

Pass == {"front", "back"}

Init ==
    /\ scenario \in Scenarios
    /\ history = scenario.legacy
    /\ stored = DOMAIN history
    /\ db = [resolution |-> [r \in { history[i].id : i \in { j \in stored :
                                       history[j].kind = "Requested" } } |-> "NULL"],
             ticket |-> <<>>, balance |-> <<>>, lotSize |-> <<>>, newPool |-> {},
             oldPool |-> { i \in stored : history[i].kind = "PoolEvent" }]
    /\ mode = "down" /\ backEnd = 0
    /\ position = [front |-> Len(history), back |-> 0]
    /\ pointer = [front |-> Len(history), back |-> 0]
    /\ toMigrate = {} /\ script = 0 /\ faults = 0

-----------------------------------------------------------------------------
(* What the contracts emit.  A request may be resolved more than once: a   *)
(* defaulted redemption can still be performed or fail.                    *)

Emitted(k) == { i \in DOMAIN history : history[i].kind = k }
About(k, x) == { i \in Emitted(k) : history[i].id = x }
TicketLive(t) == About("TicketCreated", t) # {} /\ About("TicketDeleted", t) = {}

Event ==
    [kind : {"Requested"}, id : { r \in Request : About("Requested", r) = {} }]
    \cup [kind : {"Resolved"}, id : { r \in Request : About("Requested", r) # {} },
          outcome : Outcome]
    \cup [kind : {"TicketCreated"}, id : { t \in Ticket : About("TicketCreated", t) = {} },
          value : Amount]
    \cup [kind : {"TicketUpdated"}, id : { t \in Ticket : TicketLive(t) }, value : Amount]
    \cup [kind : {"TicketDeleted"}, id : { t \in Ticket : TicketLive(t) }]
    \cup { [kind |-> "Transfer", from |-> x.from, to |-> x.to, value |-> x.value] :
           x \in Transfers }
    \cup [kind : {"SettingChanged"}, value : Amount]
    \cup [kind : {"PoolEvent"}]

Emit ==
    /\ Len(history) < Len(scenario.legacy) + MaxEvents
    /\ \E e \in Event : e.kind \in scenario.kinds /\ history' = Append(history, e)
    /\ UNCHANGED <<scenario, stored, db, passVars, toMigrate, script, faults>>

Last(S) == CHOOSE i \in S : \A j \in S : j <= i
SettingAfter(S) ==
    LET changes == S \cap Emitted("SettingChanged")
    IN IF changes = {} THEN FirstSize ELSE history[Last(changes)].value

-----------------------------------------------------------------------------
(* processEvent: one transaction.  A handler that does not find the row it *)
(* needs throws, and nothing of the transaction remains.                   *)

Put(f, x, v) == [y \in DOMAIN f \cup {x} |-> IF y = x THEN v ELSE f[y]]

LogExistsNever(i) == FALSE \* mutant
LogExists(i) == i \in stored

\* createRedemptionRequest, and onCollateralReserved and the others like it
CreateRequest(e) ==
    e.kind = "Requested" /\ db' = [db EXCEPT !.resolution = Put(@, e.id, "NONE")]

ResolveOnce(e) == \* mutant: the first resolution stays
    /\ e.kind = "Resolved" /\ e.id \in DOMAIN db.resolution
    /\ db' = IF db.resolution[e.id] = "NONE"
             THEN [db EXCEPT !.resolution[e.id] = e.outcome] ELSE db

\* onRedemptionPerformed, onRedemptionDefault, ...: the last one wins
Resolve(e) ==
    /\ e.kind = "Resolved" /\ e.id \in DOMAIN db.resolution
    /\ db' = [db EXCEPT !.resolution[e.id] = e.outcome]

CreateTicket(e) ==
    /\ e.kind = "TicketCreated"
    /\ db' = [db EXCEPT !.ticket = Put(@, e.id, [value |-> e.value, destroyed |-> FALSE])]

UpdateTicket(e) ==
    /\ e.kind = "TicketUpdated" /\ e.id \in DOMAIN db.ticket
    /\ db' = [db EXCEPT !.ticket[e.id].value = e.value]

DeleteTicketKeepsValue(e) == \* mutant: the value is not reset
    /\ e.kind = "TicketDeleted" /\ e.id \in DOMAIN db.ticket
    /\ db' = [db EXCEPT !.ticket[e.id].destroyed = TRUE]

DeleteTicket(e) ==
    /\ e.kind = "TicketDeleted" /\ e.id \in DOMAIN db.ticket
    /\ db' = [db EXCEPT !.ticket[e.id] = [value |-> 0, destroyed |-> TRUE]]

ChangeTokenBalance(b, holder, diff) ==
    Put(b, holder, (IF holder \in DOMAIN b THEN b[holder] ELSE 0) + diff)

\* The receiver first, then the sender, who may be the same holder.
TransferTokens(e) ==
    /\ e.kind = "Transfer"
    /\ db' = [db EXCEPT !.balance =
                 ChangeTokenBalance(ChangeTokenBalance(@, e.to, e.value), e.from, -e.value)]

ChangeSetting(e) ==
    /\ e.kind = "SettingChanged" /\ db.lotSize # <<>>
    /\ db' = [db EXCEPT !.lotSize = <<e.value>>]

StorePoolEventOld(i) == \* mutant: the row of the old table is persisted
    /\ history[i].kind = "PoolEvent"
    /\ db' = [db EXCEPT !.oldPool = @ \cup {i}]

\* Also of an old pool: its row is converted before it is stored.
StorePoolEvent(i) ==
    /\ history[i].kind = "PoolEvent"
    /\ db' = [db EXCEPT !.newPool = @ \cup {i}]

Handle(i) ==
    LET e == history[i]
    IN \/ CreateRequest(e) \/ Resolve(e)
       \/ CreateTicket(e) \/ UpdateTicket(e) \/ DeleteTicket(e)
       \/ TransferTokens(e) \/ ChangeSetting(e) \/ StorePoolEvent(i)

\* A row the handler of the event needs is missing.
RowMissing(i) ==
    \/ history[i].kind = "Resolved" /\ history[i].id \notin DOMAIN db.resolution
    \/ /\ history[i].kind \in {"TicketUpdated", "TicketDeleted"}
       /\ history[i].id \notin DOMAIN db.ticket

-----------------------------------------------------------------------------
(* The process.  At each start it makes sure of the settings' rows and     *)
(* lists the old pool rows, which it then moves one by one.                *)

EnsureDataAnew(d) == [d EXCEPT !.lotSize = <<SettingAfter(DOMAIN history)>>] \* mutant

EnsureData(d) ==
    IF d.lotSize = <<>> THEN [d EXCEPT !.lotSize = <<SettingAfter(DOMAIN history)>>] ELSE d

BootAs(m) ==
    /\ mode' = m
    /\ db' = EnsureData(db)
    /\ toMigrate' = db.oldPool
    /\ position' = pointer
    /\ UNCHANGED <<scenario, history, stored, pointer, script>>

Start ==
    /\ mode = "down"
    /\ BootAs(IF scenario.type = "none" THEN "whole" ELSE "before")
    /\ UNCHANGED <<backEnd, faults>>

Restart ==
    /\ mode # "down" /\ faults < MaxFaults
    /\ BootAs(mode)
    /\ faults' = faults + 1 /\ UNCHANGED backEnd

\* The indexer is deployed with the update.  The block a back pass ends with
\* is the first the main one has not handled; it may hold an event.
StartUpdate ==
    /\ mode = "before"
    /\ BootAs("update")
    /\ backEnd' \in { n \in {pointer["front"], pointer["front"] + 1} : n <= Len(history) }
    /\ UNCHANGED faults

MigratePoolEvent(i) ==
    /\ i \in toMigrate
    /\ db' = [db EXCEPT !.newPool = @ \cup {i}, !.oldPool = @ \ {i}]
    /\ toMigrate' = toMigrate \ {i}
    /\ UNCHANGED <<scenario, history, stored, passVars, script, faults>>

\* add-resolutions.ts, run by hand: one UPDATE for each resolution, for the
\* requests that have none yet and an event of it; the last one for the rest.
AddResolutions ==
    /\ scenario.legacy # <<>> /\ script <= Len(Outcomes)
    /\ script' = script + 1
    /\ LET Due(r) == /\ db.resolution[r] = "NULL"
                     /\ script' <= Len(Outcomes) =>
                            \E i \in stored \cap About("Resolved", r) :
                                history[i].outcome = Outcomes[script']
           value == IF script' <= Len(Outcomes) THEN Outcomes[script'] ELSE "NONE"
       IN db' = [db EXCEPT !.resolution =
                    [r \in DOMAIN @ |-> IF Due(r) THEN value ELSE @[r]]]
    /\ UNCHANGED <<scenario, history, stored, passVars, toMigrate, faults>>

-----------------------------------------------------------------------------
(* The passes, in turns.  In a race the front indexer handles the old      *)
(* events until the back one, which handles the new ones, has caught up;   *)
(* in a back update the main indexer handles all from where it stands.     *)

InTurn(p) == position[p] # pointer[p]
Next1(p)  == position[p] + 1
Handles(p) ==
    CASE mode = "before" -> scenario.kinds \ scenario.diff
      [] mode = "update" /\ p = "back" -> scenario.diff
      [] mode = "update" /\ p = "front" /\ scenario.type = "race" ->
             scenario.kinds \ scenario.diff
      [] OTHER -> scenario.kinds

BackLimitShort == \* mutant: the hand-over's event is nobody's
    (IF scenario.type = "race" THEN pointer["front"] ELSE backEnd) - 1

BackLimit == IF scenario.type = "race" THEN pointer["front"] ELSE backEnd

Ready(p) ==
    /\ \A q \in Pass \ {p} : ~InTurn(q)
    /\ CASE p = "front" -> mode # "down" /\ Next1(p) <= Len(history)
         [] p = "back"  -> mode = "update" /\ Next1(p) <= BackLimit

Done(p) ==
    /\ position' = [position EXCEPT ![p] = @ + 1]
    /\ UNCHANGED <<scenario, history, mode, pointer, backEnd, toMigrate, script, faults>>

SkipEvent(p) ==
    /\ Ready(p)
    /\ history[Next1(p)].kind \notin Handles(p) \/ LogExists(Next1(p))
    /\ Done(p) /\ UNCHANGED <<stored, db>>

StoreEvent(p) ==
    /\ Ready(p)
    /\ history[Next1(p)].kind \in Handles(p) /\ ~LogExists(Next1(p))
    /\ Handle(Next1(p))
    /\ stored' = stored \cup {Next1(p)}
    /\ Done(p)

\* The handler throws: the runner starts over, from the pointer.
RejectEvent(p) ==
    /\ Ready(p) /\ InTurn(p)
    /\ history[Next1(p)].kind \in Handles(p) /\ ~LogExists(Next1(p))
    /\ RowMissing(Next1(p))
    /\ position' = [position EXCEPT ![p] = pointer[p]]
    /\ UNCHANGED <<scenario, history, stored, db, mode, pointer, backEnd, toMigrate,
                   script, faults>>

CommitPointerPast(p) == \* mutant: off by one
    /\ InTurn(p)
    /\ pointer' = [pointer EXCEPT ![p] = position[p] + 1]
    /\ UNCHANGED <<scenario, history, stored, db, mode, position, backEnd, toMigrate,
                   script, faults>>

CommitPointer(p) ==
    /\ InTurn(p)
    /\ pointer' = [pointer EXCEPT ![p] = position[p]]
    /\ UNCHANGED <<scenario, history, stored, db, mode, position, backEnd, toMigrate,
                   script, faults>>

Switch ==
    /\ mode = "update" /\ \A p \in Pass : ~InTurn(p)
    /\ pointer["back"] >= BackLimit
    /\ mode' = "whole"
    /\ UNCHANGED <<scenario, history, stored, db, position, pointer, backEnd, toMigrate,
                   script, faults>>

\* A turn fails for another reason: the pass starts at its pointer.
Fail(p) ==
    /\ InTurn(p) /\ faults < MaxFaults
    /\ position' = [position EXCEPT ![p] = pointer[p]]
    /\ faults' = faults + 1
    /\ UNCHANGED <<scenario, history, stored, db, mode, pointer, backEnd, toMigrate, script>>

\* A turn with nothing to do.
Idle == mode = "whole" /\ (\A p \in Pass : ~Ready(p)) /\ UNCHANGED vars

Run ==
    \/ Start \/ StartUpdate \/ Switch \/ Idle
    \/ \E p \in Pass : SkipEvent(p) \/ StoreEvent(p) \/ RejectEvent(p) \/ CommitPointer(p)
    \/ \E i \in toMigrate : MigratePoolEvent(i)

Next == Emit \/ Run \/ AddResolutions \/ Restart \/ \E p \in Pass : Fail(p)

Spec == Init /\ [][Next]_vars

\* The loop never stops, and each pass gets its turn whatever the other meets;
\* the update is deployed in the end.  Nothing makes anyone run the script.
FairSpec ==
    /\ Spec
    /\ WF_vars(Start) /\ WF_vars(Switch)
    /\ SF_vars(StartUpdate)
    /\ \A p \in Pass : /\ SF_vars(SkipEvent(p) \/ StoreEvent(p))
                       /\ WF_vars(CommitPointer(p) \/ RejectEvent(p))
    /\ WF_vars(\E i \in toMigrate : MigratePoolEvent(i))

-----------------------------------------------------------------------------
StoredAbout(k, x) == stored \cap About(k, x)

\* The back pass of a back update stores events older than those the main one
\* has handled since; what the last event decides is then as it happens.
OutOfOrder(kinds) == scenario.type = "back" /\ scenario.diff \cap kinds # {}

TypeOK ==
    /\ DOMAIN db.resolution \subseteq Request
    /\ \A r \in DOMAIN db.resolution : db.resolution[r] \in Outcome \cup {"NONE", "NULL"}
    /\ DOMAIN db.ticket \subseteq Ticket
    /\ \A t \in DOMAIN db.ticket :
           db.ticket[t] \in [value : Amount \cup {0}, destroyed : BOOLEAN]
    /\ DOMAIN db.balance \subseteq Holder
    /\ \A p \in Pass : pointer[p] <= position[p] /\ position[p] <= Len(history)
    /\ stored \subseteq 1 .. Len(history) /\ toMigrate \subseteq db.oldPool

\* The resolution of a request is that of its last resolving event among
\* those stored, in the order of the chain, whichever pass stored them and
\* however often they were replayed.  Of a request that an older version
\* indexed it is not set until a new event or the script sets it, to that of
\* one of its events, and never to NONE when there is one.
ResolutionsFollowChain ==
    \A r \in DOMAIN db.resolution :
        LET S == StoredAbout("Resolved", r)
            resolution == db.resolution[r]
            legacy == S \subseteq DOMAIN scenario.legacy
                      /\ StoredAbout("Requested", r) \subseteq DOMAIN scenario.legacy
        IN /\ resolution = "NULL" => legacy /\ script <= Len(Outcomes)
           /\ resolution # "NULL" =>
                 IF S = {} THEN resolution = "NONE"
                 ELSE \E i \in S : /\ resolution = history[i].outcome
                                   /\ i = Last(S) \/ legacy \/ OutOfOrder({"Resolved"})

\* A ticket is as its last stored event, in chain order, left it; once the
\* chain has deleted it it is destroyed and worth nothing.
TicketsFollowChain ==
    \A t \in DOMAIN db.ticket :
        LET Valued == StoredAbout("TicketCreated", t) \cup StoredAbout("TicketUpdated", t)
        IN \/ OutOfOrder({"TicketCreated", "TicketUpdated", "TicketDeleted"})
           \/ db.ticket[t] =
                IF StoredAbout("TicketDeleted", t) # {}
                THEN [value |-> 0, destroyed |-> TRUE]
                ELSE [value |-> history[Last(Valued)].value, destroyed |-> FALSE]

\* What a transfer brings the holder, minus what it takes.
Move(h, i) == (IF history[i].to = h THEN history[i].value ELSE 0)
            - (IF history[i].from = h THEN history[i].value ELSE 0)

\* What the stored ones among the first events have brought the holder.
Brought(h) ==
    LET sum[n \in Nat] ==
            IF n = 0 THEN 0
            ELSE sum[n - 1]
                 + (IF n \in stored \cap Emitted("Transfer") THEN Move(h, n) ELSE 0)
    IN sum

\* A holder's balance is what the stored transfers brought minus what they
\* took, each counted once, a transfer to oneself as nothing, in whatever
\* order the passes of any update store them.
BalancesExact ==
    \A h \in Holder :
        (IF h \in DOMAIN db.balance THEN db.balance[h] ELSE 0) = Brought(h)[Len(history)]

\* The setting is that of its last stored change, however often the process
\* is started; one read from the chain gives way to the changes before it.
SettingsFollowChain ==
    db.lotSize # <<>> /\ stored \cap Emitted("SettingChanged") # {} =>
        OutOfOrder({"SettingChanged"}) \/ db.lotSize = <<SettingAfter(stored)>>

\* Every event is stored in the end: no handler waits for a row for ever; and
\* every pool event, whoever stored it, is in the new rows and not in the old.
EventuallyMirrored ==
    <>[](/\ stored = DOMAIN history
         /\ db.oldPool = {} /\ db.newPool = Emitted("PoolEvent"))
=============================================================================
