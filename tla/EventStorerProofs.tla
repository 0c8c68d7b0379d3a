-------------------------- MODULE EventStorerProofs --------------------------
(***************************************************************************)
(* Theorems about EventStorer, for every set of requests, tickets, amounts *)
(* and scenarios and all bounds: whatever a pass replays and wherever an   *)
(* update hands over, resolutions, tickets and settings are what the last  *)
(* stored event of theirs says, in the order of the chain.                 *)
(***************************************************************************)
EXTENDS EventStorer, SequenceTheorems, WellFoundedInduction, TLAPS

TicketKinds == {"TicketCreated", "TicketUpdated", "TicketDeleted"}

EventRecord ==
    [kind : {"Requested"}, id : Request]
    \cup [kind : {"Resolved"}, id : Request, outcome : Outcome]
    \cup [kind : {"TicketCreated", "TicketUpdated"}, id : Ticket, value : Amount]
    \cup [kind : {"TicketDeleted"}, id : Ticket]
    \cup [kind : {"Transfer"}, from : Holder, to : Holder, value : Nat]
    \cup [kind : {"SettingChanged"}, value : Amount]
    \cup [kind : {"PoolEvent"}]

-----------------------------------------------------------------------------
(* The inductive invariant.  Of two kinds of event that the same pass      *)
(* handles none is stored before an earlier one is (OrderInv), because a   *)
(* pass leaves none behind it (Covered).  Hence an event being stored is   *)
(* the last of its kind, and the row it changes is the last one's.         *)

Kind(i) == history[i].kind
Places  == 1 .. Len(history)
Legacy  == 1 .. Len(scenario.legacy)

HistoryInv ==
    /\ scenario \in Scenarios
    /\ history \in Seq(EventRecord)
    /\ Len(scenario.legacy) <= Len(history)
    /\ \A i \in Places : IF i \in Legacy THEN Kind(i) \in {"Requested", "Resolved", "PoolEvent"}
                         ELSE Kind(i) \in scenario.kinds
    /\ \A i, j \in Places :
           /\ Kind(i) = Kind(j) /\ Kind(i) \in {"Requested", "TicketCreated"}
           /\ history[i].id = history[j].id
           => i = j
    /\ \A i, j \in Places :
           /\ Kind(i) = "TicketDeleted" /\ Kind(j) \in TicketKinds
           /\ history[i].id = history[j].id
           => j <= i
    /\ \A i \in Places : Kind(i) \in {"TicketUpdated", "TicketDeleted"} =>
           \E j \in Places : Kind(j) = "TicketCreated" /\ history[j].id = history[i].id

Covered(i) ==
    /\ i <= position["front"] /\ Kind(i) \notin scenario.diff => i \in stored
    /\ i <= position["front"] /\ scenario.type = "race" /\ mode = "whole" => i \in stored
    /\ i <= position["back"] /\ scenario.type = "race" /\ Kind(i) \in scenario.diff => i \in stored

PassInv ==
    /\ mode \in {"down", "before", "update", "whole"}
    /\ scenario.type = "none" => mode \in {"down", "whole"}
    /\ position \in [Pass -> Nat] /\ pointer \in [Pass -> Nat]
    /\ \A p \in Pass : pointer[p] <= position[p] /\ position[p] <= Len(history)
    /\ backEnd \in 0 .. Len(history)
    /\ stored \subseteq Places /\ Legacy \subseteq stored
    /\ \A i \in Places : Covered(i)

SamePass(k, l) ==
    /\ k \in scenario.diff <=> l \in scenario.diff
    /\ ~(scenario.type = "back" /\ k \in scenario.diff)

OrderInv ==
    \A i \in Places : \A j \in stored : i < j /\ SamePass(Kind(i), Kind(j)) => i \in stored

Fields == {"resolution", "ticket", "balance", "lotSize", "newPool", "oldPool"}

ShapeInv ==
    /\ DOMAIN db = Fields
    /\ db.resolution \in [DOMAIN db.resolution -> Outcome \cup {"NONE", "NULL"}]
    /\ DOMAIN db.resolution \subseteq Request
    /\ db.ticket \in [DOMAIN db.ticket -> [value : Amount \cup {0}, destroyed : BOOLEAN]]
    /\ DOMAIN db.ticket \subseteq Ticket
    /\ DOMAIN db.balance \subseteq Holder
    /\ toMigrate \subseteq db.oldPool

Of(k, x) == { i \in stored : Kind(i) = k /\ history[i].id = x }
LastOf(i, S) == i \in S /\ \A j \in S : j <= i

Old(r) == Of("Requested", r) \subseteq Legacy /\ Of("Resolved", r) \subseteq Legacy

ResolutionInv ==
    /\ script \in Nat
    /\ \A i \in stored : Kind(i) \in {"Requested", "Resolved"} =>
           history[i].id \in DOMAIN db.resolution
    /\ \A r \in DOMAIN db.resolution :
           /\ Of("Requested", r) # {}
           /\ db.resolution[r] = "NULL" =>
                 /\ Old(r) /\ script <= Len(Outcomes)
                 /\ \A i \in Of("Resolved", r), n \in 1 .. script :
                        history[i].outcome # Outcomes[n]
           /\ db.resolution[r] # "NULL" /\ Of("Resolved", r) = {} => db.resolution[r] = "NONE"
           /\ db.resolution[r] # "NULL" /\ Of("Resolved", r) # {} =>
                 \E i \in Of("Resolved", r) :
                     /\ db.resolution[r] = history[i].outcome
                     /\ \/ LastOf(i, Of("Resolved", r))
                        \/ Old(r) \/ OutOfOrder({"Resolved"})

Changes == { i \in stored : Kind(i) = "SettingChanged" }

SettingInv ==
    Changes # {} =>
        /\ db.lotSize # <<>>
        /\ \/ OutOfOrder({"SettingChanged"})
           \/ \E i \in Changes : LastOf(i, Changes) /\ db.lotSize = <<history[i].value>>

\* No update takes the kinds of one ticket's events apart.
TicketsTogether ==
    \A s \in Scenarios : TicketKinds \subseteq s.diff \/ TicketKinds \cap s.diff = {}

Valued(t) == Of("TicketCreated", t) \cup Of("TicketUpdated", t)

TicketInv ==
    /\ \A i \in stored : Kind(i) \in TicketKinds => history[i].id \in DOMAIN db.ticket
    /\ \A t \in DOMAIN db.ticket :
           /\ Of("TicketCreated", t) # {}
           /\ \/ OutOfOrder(TicketKinds)
              \/ /\ Of("TicketDeleted", t) # {}
                 /\ db.ticket[t] = [value |-> 0, destroyed |-> TRUE]
              \/ /\ Of("TicketDeleted", t) = {}
                 /\ \E i \in Valued(t) : /\ LastOf(i, Valued(t))
                                         /\ db.ticket[t] = [value |-> history[i].value,
                                                            destroyed |-> FALSE]

BaseInv == HistoryInv /\ PassInv /\ OrderInv
IInv == BaseInv /\ ShapeInv /\ ResolutionInv /\ SettingInv

-----------------------------------------------------------------------------
(* Events.                                                                 *)

LEMMA EventFields ==
    ASSUME NEW e \in EventRecord
    PROVE  /\ e.kind \in Kinds
           /\ e.kind \in {"Requested", "Resolved"} => e.id \in Request
           /\ e.kind = "Resolved" => e.outcome \in Outcome
           /\ e.kind \in TicketKinds => e.id \in Ticket
           /\ e.kind \in {"TicketCreated", "TicketUpdated"} => e.value \in Amount
           /\ e.kind = "Transfer" => e.from \in Holder /\ e.to \in Holder
           /\ e.kind = "SettingChanged" => e.value \in Amount
BY DEF EventRecord, Kinds, TicketKinds

LEMMA EmittedEvents == Event \subseteq EventRecord
BY StorerAssumption DEF Event, EventRecord

\* A change of one of the rows' tables.
LEMMA FieldSet ==
    ASSUME DOMAIN db = Fields, NEW f \in Fields, NEW v, db' = [db EXCEPT ![f] = v]
    PROVE  DOMAIN db' = Fields /\ db'[f] = v /\ \A g \in Fields \ {f} : db'[g] = db[g]
OBVIOUS

-----------------------------------------------------------------------------
LEMMA Initially == Init => IInv /\ TicketInv
<1> SUFFICES ASSUME Init PROVE IInv /\ TicketInv
  OBVIOUS
<1>1. /\ scenario \in Scenarios /\ history = scenario.legacy
      /\ OldHistory(history)
  BY StorerAssumption DEF Init
<1>2. /\ history \in Seq([kind : {"Requested"}, id : Request]
                 \cup [kind : {"Resolved"}, id : Request, outcome : Outcome]
                 \cup [kind : {"PoolEvent"}])
      /\ Len(history) \in Nat /\ DOMAIN history = Places
  BY <1>1 DEF OldHistory, Places
<1>3. /\ history \in Seq(EventRecord)
      /\ \A i \in Places : Kind(i) \in {"Requested", "Resolved", "PoolEvent"}
  BY <1>2 DEF EventRecord, Kind, Places
<1>4. HistoryInv
  BY <1>1, <1>2, <1>3 DEF HistoryInv, OldHistory, Kind, Legacy, Places, TicketKinds
<1>5. /\ stored = Places /\ mode = "down" /\ position["front"] = Len(history)
      /\ position["back"] = 0 /\ pointer = position
      /\ position = [front |-> Len(history), back |-> 0] /\ backEnd = 0
  BY <1>2 DEF Init
<1>6. PassInv /\ OrderInv
  <2>1. position \in [Pass -> Nat]
    BY <1>2, <1>5 DEF Pass
  <2>2. Legacy \subseteq stored
    BY <1>1, <1>5 DEF Legacy, Places
  <2>3. QED
    BY <1>2, <1>5, <2>1, <2>2 DEF PassInv, OrderInv, Covered, Pass, Places
<1>7. /\ DOMAIN db = Fields /\ db.ticket = <<>> /\ db.balance = <<>>
      /\ db.resolution = [r \in { history[i].id : i \in { j \in stored : Kind(j) = "Requested" } }
                              |-> "NULL"]
      /\ toMigrate = {} /\ script = 0
  BY DEF Init, Fields, Kind
<1>8. ShapeInv
  <2>1. DOMAIN db.resolution \subseteq Request
    BY <1>2, <1>3, <1>5, <1>7, EventFields DEF Places, Kind
  <2>2. QED
    BY <1>7, <2>1 DEF ShapeInv
<1>9. ResolutionInv
  <2>1. ASSUME NEW i \in stored, Kind(i) = "Resolved"
        PROVE  history[i].id \in DOMAIN db.resolution
    <3>1. PICK j \in 1 .. i : Kind(j) = "Requested" /\ history[j].id = history[i].id
      BY <1>1, <1>2, <1>5, <2>1 DEF OldHistory, Kind
    <3>2. j \in stored
      BY <1>2, <1>5, <3>1 DEF Places
    <3>3. QED
      BY <1>7, <3>1, <3>2
  <2>2. ASSUME NEW r \in DOMAIN db.resolution
        PROVE  Of("Requested", r) # {} /\ db.resolution[r] = "NULL" /\ Old(r)
    BY <1>1, <1>5, <1>7 DEF Of, Old, Legacy, Places
  <2>3. Len(Outcomes) \in Nat
    BY StorerAssumption
  <2>4. \A i \in stored : Kind(i) = "Requested" => history[i].id \in DOMAIN db.resolution
    BY <1>7
  <2>5. script = 0 /\ 1 .. script = {}
    BY <1>7
  <2>6. QED
    BY <2>1, <2>2, <2>3, <2>4, <2>5 DEF ResolutionInv
<1>10. SettingInv /\ TicketInv
  BY <1>3, <1>5, <1>7 DEF SettingInv, TicketInv, Changes, TicketKinds
<1>11. QED
  BY <1>4, <1>6, <1>8, <1>9, <1>10 DEF IInv, BaseInv
-----------------------------------------------------------------------------
(* The chain goes on: what is stored and what it says stays.               *)

LEMMA EmitPreserves ==
    ASSUME IInv, Emit
    PROVE  IInv' /\ (TicketInv => TicketInv')
<1>0. PICK n : n = Len(history) + 1
  OBVIOUS
<1>1. PICK e \in Event : e.kind \in scenario.kinds /\ history' = Append(history, e)
  BY DEF Emit
<1>2. /\ stored' = stored /\ db' = db /\ scenario' = scenario /\ mode' = mode
      /\ position' = position /\ pointer' = pointer /\ toMigrate' = toMigrate
      /\ script' = script /\ backEnd' = backEnd
  BY DEF Emit, passVars
<1>3. /\ e \in EventRecord /\ history \in Seq(EventRecord) /\ Len(history) \in Nat
      /\ scenario \in Scenarios /\ Len(scenario.legacy) <= Len(history)
      /\ Len(scenario.legacy) \in Nat
  BY EmittedEvents, StorerAssumption DEF IInv, BaseInv, HistoryInv, OldHistory
<1>4. /\ Places' = Places \cup {n} /\ n \notin Places
      /\ Kind(n)' = e.kind /\ history'[n] = e
      /\ \A i \in Places : Kind(i)' = Kind(i) /\ history'[i] = history[i]
      /\ Legacy' = Legacy /\ n \notin Legacy
      /\ history' \in Seq(EventRecord) /\ Len(history') = n
  <2>1. /\ history' \in Seq(EventRecord) /\ Len(history') = n /\ history'[n] = e
        /\ \A i \in 1 .. Len(history) : history'[i] = history[i]
    BY <1>0, <1>1, <1>3, AppendProperties
  <2>2. QED
    BY <1>0, <1>2, <1>3, <2>1 DEF Places, Kind, Legacy
<1>5. stored \subseteq Places /\ DOMAIN history = Places
  BY <1>3 DEF IInv, BaseInv, PassInv, Places
<1>6. HistoryInv'
  <2>1. ASSUME NEW i \in Places, Kind(i) \in {"Requested", "TicketCreated"}, Kind(i) = e.kind
        PROVE  history[i].id # e.id
    BY <1>5, <2>1 DEF Event, About, Emitted, Kind
  <2>2. ASSUME NEW i \in Places, Kind(i) = "TicketDeleted", e.kind \in TicketKinds
        PROVE  history[i].id # e.id
    <3>1. CASE e.kind = "TicketCreated"
      <4>1. PICK j \in Places : Kind(j) = "TicketCreated" /\ history[j].id = history[i].id
        BY <2>2 DEF IInv, BaseInv, HistoryInv
      <4>2. QED
        BY <2>1, <3>1, <4>1
    <3>2. CASE e.kind \in {"TicketUpdated", "TicketDeleted"}
      BY <1>5, <2>2, <3>2 DEF Event, About, Emitted, Kind, TicketLive
    <3>3. QED
      BY <2>2, <3>1, <3>2 DEF TicketKinds
  <2>3. ASSUME e.kind \in {"TicketUpdated", "TicketDeleted"}
        PROVE  \E j \in Places : Kind(j) = "TicketCreated" /\ history[j].id = e.id
    BY <1>5, <2>3 DEF Event, About, Emitted, Kind, TicketLive
  <2>4. /\ \A i \in Places' : IF i \in Legacy' THEN Kind(i)' \in {"Requested", "Resolved", "PoolEvent"}
                                ELSE Kind(i)' \in scenario'.kinds
        /\ scenario' \in Scenarios /\ Len(scenario'.legacy) <= Len(history')
    BY <1>1, <1>2, <1>3, <1>4 DEF IInv, BaseInv, HistoryInv
  <2>5. ASSUME NEW i \in Places', NEW j \in Places', Kind(i)' = Kind(j)',
               Kind(i)' \in {"Requested", "TicketCreated"}, history'[i].id = history'[j].id
        PROVE  i = j
    BY <1>4, <2>1, <2>5 DEF IInv, BaseInv, HistoryInv
  <2>6. ASSUME NEW i \in Places', NEW j \in Places', Kind(i)' = "TicketDeleted",
               Kind(j)' \in TicketKinds, history'[i].id = history'[j].id
        PROVE  j <= i
    BY <1>0, <1>3, <1>4, <2>2, <2>6 DEF IInv, BaseInv, HistoryInv, Places
  <2>7. ASSUME NEW i \in Places', Kind(i)' \in {"TicketUpdated", "TicketDeleted"}
        PROVE  \E j \in Places' : Kind(j)' = "TicketCreated" /\ history'[j].id = history'[i].id
    BY <1>4, <2>3, <2>7 DEF IInv, BaseInv, HistoryInv
  <2>8. QED
    BY <1>4, <2>4, <2>5, <2>6, <2>7 DEF HistoryInv
<1>7. PassInv' /\ OrderInv'
  <2>1. ASSUME NEW i \in Places
        PROVE  Covered(i)'
    BY <1>2, <1>4, <2>1 DEF IInv, BaseInv, PassInv, Covered
  <2>2. position["front"] \in Nat /\ position["back"] \in Nat
        /\ position["front"] <= Len(history) /\ position["back"] <= Len(history)
    BY DEF IInv, BaseInv, PassInv, Pass
  <2>3. Covered(n)'
    BY <1>0, <1>2, <1>3, <2>2 DEF Covered
  <2>4. PassInv'
    BY <1>0, <1>2, <1>3, <1>4, <2>1, <2>3 DEF IInv, BaseInv, PassInv, Pass
  <2>5. OrderInv'
    BY <1>2, <1>3, <1>4, <1>5 DEF IInv, BaseInv, OrderInv, SamePass, Places
  <2>6. QED
    BY <2>4, <2>5
<1>8. /\ \A k, x : Of(k, x)' = Of(k, x) /\ Changes' = Changes
      /\ \A r : Old(r)' = Old(r)
      /\ \A t : Valued(t)' = Valued(t)
      /\ \A K : OutOfOrder(K)' = OutOfOrder(K)
  <2>1. \A k, x : Of(k, x)' = Of(k, x)
    BY <1>2, <1>4, <1>5 DEF Of
  <2>2. Changes' = Changes
    BY <1>2, <1>4, <1>5 DEF Changes
  <2>3. QED
    BY <1>2, <1>4, <2>1, <2>2 DEF Old, Valued, OutOfOrder
<1>9. /\ \A k, x : Of(k, x) \subseteq Places
      /\ Changes \subseteq Places
  BY <1>5 DEF Of, Changes
<1>10. ShapeInv' /\ SettingInv'
  BY <1>2, <1>4, <1>8, <1>9 DEF IInv, ShapeInv, SettingInv, LastOf
<1>11. ResolutionInv'
  BY <1>2, <1>4, <1>5, <1>8, <1>9 DEF IInv, ResolutionInv, LastOf
<1>12. TicketInv => TicketInv'
  <2>1. \A t : Valued(t) \subseteq Places
    BY <1>9 DEF Valued
  <2>2. QED
    BY <1>2, <1>4, <1>5, <1>8, <2>1 DEF TicketInv, LastOf
<1>13. QED
  BY <1>6, <1>7, <1>10, <1>11, <1>12 DEF IInv, BaseInv

-----------------------------------------------------------------------------
(* Steps that store nothing.                                               *)

\* What is said of a row is about the stored events only.
LEMMA SameEvents ==
    ASSUME scenario' = scenario, history' = history, stored' = stored
    PROVE  /\ \A i : Kind(i)' = Kind(i)
           /\ Places' = Places /\ Legacy' = Legacy
           /\ \A k, x : Of(k, x)' = Of(k, x)
           /\ Changes' = Changes
           /\ \A r : Old(r)' = Old(r)
           /\ \A t : Valued(t)' = Valued(t)
           /\ \A K : OutOfOrder(K)' = OutOfOrder(K)
BY DEF Kind, Places, Legacy, Of, Changes, Old, Valued, OutOfOrder

LEMMA RowsStay ==
    ASSUME IInv, scenario' = scenario, history' = history, stored' = stored, script' = script,
           DOMAIN db' = Fields, \A f \in Fields \ {"lotSize", "oldPool", "newPool"} : db'[f] = db[f],
           db'.lotSize = db.lotSize \/ db.lotSize = <<>>,
           toMigrate' \subseteq db'.oldPool
    PROVE  /\ HistoryInv' /\ OrderInv' /\ ShapeInv' /\ ResolutionInv' /\ SettingInv'
           /\ TicketInv => TicketInv'
<1>1. db'.resolution = db.resolution /\ db'.ticket = db.ticket /\ db'.balance = db.balance
  BY DEF Fields
<1>2. HistoryInv' /\ OrderInv'
  BY SameEvents DEF IInv, BaseInv, HistoryInv, OrderInv, SamePass
<1>3. ShapeInv'
  BY <1>1 DEF IInv, ShapeInv
<1>4. ResolutionInv'
  BY <1>1, SameEvents DEF IInv, ResolutionInv, LastOf
<1>5. SettingInv'
  BY SameEvents DEF IInv, SettingInv, LastOf
<1>6. TicketInv => TicketInv'
  BY <1>1, SameEvents DEF TicketInv, LastOf
<1>7. QED
  BY <1>2, <1>3, <1>4, <1>5, <1>6

\* The event at which a pass stands.
LEMMA AtPlace ==
    ASSUME IInv, NEW p \in Pass, Ready(p)
    PROVE  /\ Next1(p) \in Places /\ Next1(p) = position[p] + 1 /\ position[p] \in Nat
           /\ p = "front" => mode # "down"
           /\ p = "back" => mode = "update"
<1>1. /\ position[p] \in Nat /\ Len(history) \in Nat
      /\ pointer["front"] \in Nat /\ pointer["front"] <= Len(history)
      /\ backEnd <= Len(history) /\ backEnd \in Nat
  BY DEF IInv, BaseInv, PassInv, HistoryInv, Pass
<1>2. CASE p = "front"
  BY <1>1, <1>2 DEF Ready, Next1, Places
<1>3. CASE p = "back"
  BY <1>1, <1>3 DEF Ready, Next1, Places, BackLimit
<1>4. QED
  BY <1>2, <1>3 DEF Pass

\* What a pass does not handle is the other's, or stored already.
LEMMA SkippedCovered ==
    ASSUME IInv, NEW p \in Pass, Ready(p), NEW i \in Places,
           Kind(i) \notin Handles(p) \/ i \in stored
    PROVE  /\ p = "front" /\ Kind(i) \notin scenario.diff => i \in stored
           /\ p = "front" /\ scenario.type = "race" /\ mode = "whole" => i \in stored
           /\ p = "back" /\ scenario.type = "race" /\ Kind(i) \in scenario.diff => i \in stored
<1>1. i \in Legacy => i \in stored
  BY DEF IInv, BaseInv, PassInv
<1>2. i \notin Legacy => Kind(i) \in scenario.kinds
  BY DEF IInv, BaseInv, HistoryInv
<1>3. p = "back" => Handles(p) = scenario.diff
  BY AtPlace DEF Handles
<1>4. p = "front" => scenario.kinds \ scenario.diff \subseteq Handles(p)
  BY DEF Handles
<1>5. p = "front" /\ mode = "whole" => Handles(p) = scenario.kinds
  BY DEF Handles
<1>6. QED
  BY <1>1, <1>2, <1>3, <1>4, <1>5

\* A pass that is done with an event leaves none behind it.
LEMMA MovesOn ==
    ASSUME IInv, NEW p \in Pass, Ready(p), Done(p), stored \subseteq stored',
           stored' \subseteq Places, Kind(Next1(p)) \notin Handles(p) \/ Next1(p) \in stored'
    PROVE  PassInv'
<1>1. /\ Next1(p) \in Places /\ Next1(p) = position[p] + 1 /\ position[p] \in Nat
      /\ p = "front" => mode # "down"
      /\ p = "back" => mode = "update"
  BY AtPlace
<1>2. /\ position' = [position EXCEPT ![p] = @ + 1] /\ scenario' = scenario
      /\ history' = history /\ mode' = mode /\ pointer' = pointer /\ backEnd' = backEnd
  BY DEF Done
<1>3. /\ position \in [Pass -> Nat] /\ pointer \in [Pass -> Nat]
      /\ \A q \in Pass : pointer[q] <= position[q] /\ position[q] <= Len(history)
      /\ Len(history) \in Nat
  BY DEF IInv, BaseInv, PassInv, HistoryInv
<1>4. /\ position'[p] = Next1(p) /\ \A q \in Pass \ {p} : position'[q] = position[q]
      /\ position' \in [Pass -> Nat]
  BY <1>1, <1>2, <1>3
<1>5. ASSUME NEW i \in Places
      PROVE  Covered(i)'
  <2>1. Kind(i)' = Kind(i) /\ i \in Nat
    BY <1>2 DEF Kind, Places
  <2>2. CASE i = Next1(p) /\ i \notin stored'
    <3>1. Kind(i) \notin Handles(p)
      BY <2>2
    <3>2. QED
      BY <1>2, <1>4, <2>1, <2>2, <3>1, SkippedCovered DEF Covered, IInv, BaseInv, PassInv, Pass
  <2>3. CASE i # Next1(p)
    <3>1. ASSUME NEW q \in Pass, i <= position'[q]
          PROVE  i <= position[q]
      <4>1. CASE q = p
        BY <1>1, <1>4, <2>1, <2>3, <3>1, <4>1
      <4>2. CASE q # p
        BY <1>4, <3>1, <4>2
      <4>3. QED
        BY <4>1, <4>2
    <3>2. QED
      BY <1>2, <2>1, <3>1 DEF Covered, IInv, BaseInv, PassInv, Pass
  <2>4. CASE i \in stored'
    BY <2>4 DEF Covered
  <2>5. QED
    BY <2>2, <2>3, <2>4
<1>6. \A q \in Pass : pointer'[q] <= position'[q] /\ position'[q] <= Len(history)
  BY <1>1, <1>2, <1>3, <1>4 DEF Places
<1>7. QED
  BY <1>2, <1>3, <1>4, <1>5, <1>6 DEF IInv, BaseInv, PassInv, Places, Legacy

LEMMA SkipPreserves ==
    ASSUME IInv, NEW p \in Pass, SkipEvent(p)
    PROVE  IInv' /\ (TicketInv => TicketInv')
<1>1. /\ Ready(p) /\ Done(p) /\ stored' = stored /\ db' = db
      /\ Kind(Next1(p)) \notin Handles(p) \/ Next1(p) \in stored
  BY DEF SkipEvent, LogExists, Kind
<1>2. stored \subseteq Places
  BY DEF IInv, BaseInv, PassInv
<1>3. PassInv'
  BY <1>1, <1>2, MovesOn
<1>4. scenario' = scenario /\ history' = history /\ script' = script /\ toMigrate' = toMigrate
  BY <1>1 DEF Done
<1>5. DOMAIN db' = Fields /\ toMigrate' \subseteq db'.oldPool
  BY <1>1, <1>4 DEF IInv, ShapeInv
<1>6. QED
  BY <1>1, <1>3, <1>4, <1>5, RowsStay DEF IInv, BaseInv

\* A pass goes back to its pointer, or its pointer follows; and the update ends
\* when the back pass has caught up.
LEMMA PointerPreserves ==
    ASSUME IInv, Switch \/ \E p \in Pass : RejectEvent(p) \/ CommitPointer(p) \/ Fail(p)
    PROVE  IInv' /\ (TicketInv => TicketInv')
<1>1. /\ scenario' = scenario /\ history' = history /\ stored' = stored /\ db' = db
      /\ script' = script /\ toMigrate' = toMigrate /\ backEnd' = backEnd
  BY DEF Switch, RejectEvent, CommitPointer, Fail
<1>2. DOMAIN db' = Fields /\ toMigrate' \subseteq db'.oldPool
  BY <1>1 DEF IInv, ShapeInv
<1>3. /\ position \in [Pass -> Nat] /\ pointer \in [Pass -> Nat]
      /\ \A q \in Pass : pointer[q] <= position[q] /\ position[q] <= Len(history)
      /\ Len(history) \in Nat /\ \A i \in Places : Covered(i)
      /\ "front" \in Pass /\ "back" \in Pass
  BY DEF IInv, BaseInv, PassInv, HistoryInv, Pass
<1>4. \A i \in Places : Kind(i)' = Kind(i) /\ i \in Nat
  BY <1>1, <1>3 DEF Kind, Places
<1>5. PassInv'
  <2>1. CASE Switch
    <3>1. /\ mode = "update" /\ mode' = "whole" /\ position' = position /\ pointer' = pointer
          /\ position = pointer /\ pointer["back"] >= BackLimit
      <4>1. \A p \in Pass : position[p] = pointer[p]
        BY <2>1 DEF Switch, InTurn
      <4>2. position = pointer
        BY <1>3, <4>1
      <4>3. QED
        BY <2>1, <4>2 DEF Switch
    <3>2. scenario.type = "race" => position["front"] <= position["back"]
      BY <1>3, <3>1 DEF BackLimit
    <3>3. ASSUME NEW i \in Places
          PROVE  Covered(i)'
      BY <1>1, <1>3, <1>4, <3>1, <3>2 DEF Covered
    <3>4. scenario.type # "none"
      BY <3>1 DEF IInv, BaseInv, PassInv
    <3>5. QED
      BY <1>1, <3>1, <3>3, <3>4 DEF IInv, BaseInv, PassInv, Places, Legacy
  <2>2. ASSUME NEW p \in Pass, RejectEvent(p) \/ CommitPointer(p) \/ Fail(p)
        PROVE  PassInv'
    <3>1. /\ mode' = mode
          /\ \/ position' = [position EXCEPT ![p] = pointer[p]] /\ pointer' = pointer
             \/ position' = position /\ pointer' = [pointer EXCEPT ![p] = position[p]]
      BY <2>2 DEF RejectEvent, CommitPointer, Fail
    <3>2. /\ position' \in [Pass -> Nat] /\ pointer' \in [Pass -> Nat]
          /\ \A q \in Pass : pointer'[q] <= position'[q] /\ position'[q] <= position[q]
      <4>1. /\ position \in [Pass -> Nat] /\ pointer \in [Pass -> Nat]
            /\ \A q \in Pass : pointer[q] <= position[q]
        BY <1>3
      <4>2. CASE position' = [position EXCEPT ![p] = pointer[p]] /\ pointer' = pointer
        BY <4>1, <4>2
      <4>3. CASE position' = position /\ pointer' = [pointer EXCEPT ![p] = position[p]]
        BY <4>1, <4>3
      <4>4. QED
        BY <3>1, <4>2, <4>3
    <3>3. ASSUME NEW i \in Places
          PROVE  Covered(i)'
      BY <1>1, <1>3, <1>4, <3>1, <3>2 DEF Covered
    <3>4. \A q \in Pass : position'[q] <= Len(history)
      BY <1>3, <3>2
    <3>5. QED
      BY <1>1, <3>1, <3>2, <3>3, <3>4 DEF IInv, BaseInv, PassInv, Places, Legacy
  <2>3. QED
    BY <2>1, <2>2
<1>6. QED
  BY <1>1, <1>2, <1>5, RowsStay DEF IInv, BaseInv

\* A start, whatever it interrupts.
LEMMA BootPreserves ==
    ASSUME IInv, Start \/ Restart \/ StartUpdate
    PROVE  IInv' /\ (TicketInv => TicketInv')
<1>1. /\ scenario' = scenario /\ history' = history /\ stored' = stored
      /\ script' = script /\ toMigrate' = db.oldPool /\ db' = EnsureData(db)
      /\ position' = pointer /\ pointer' = pointer
  BY DEF Start, Restart, StartUpdate, BootAs
<1>2. DOMAIN db = Fields
  BY DEF IInv, ShapeInv
<1>3. /\ DOMAIN db' = Fields
      /\ \A f \in Fields \ {"lotSize"} : db'[f] = db[f]
      /\ db'.lotSize = db.lotSize \/ db.lotSize = <<>>
  BY <1>1, <1>2 DEF EnsureData, Fields
<1>4. toMigrate' \subseteq db'.oldPool
  BY <1>1, <1>3 DEF Fields
<1>5. /\ position \in [Pass -> Nat] /\ pointer \in [Pass -> Nat]
      /\ \A q \in Pass : pointer[q] <= position[q] /\ position[q] <= Len(history)
      /\ Len(history) \in Nat /\ \A i \in Places : Covered(i)
      /\ "front" \in Pass /\ "back" \in Pass /\ backEnd \in 0 .. Len(history)
  BY DEF IInv, BaseInv, PassInv, HistoryInv, Pass
<1>6. /\ mode' \in {"down", "before", "update", "whole"}
      /\ scenario.type = "none" => mode' \in {"down", "whole"}
      /\ mode' = "whole" => mode = "whole" \/ scenario.type = "none"
  BY DEF Start, Restart, StartUpdate, BootAs, IInv, BaseInv, PassInv
<1>7. backEnd' \in 0 .. Len(history)
  BY <1>5 DEF Start, Restart, StartUpdate
<1>8. ASSUME NEW i \in Places
      PROVE  Covered(i)'
  <2>1. Kind(i)' = Kind(i) /\ i \in Nat
    BY <1>1, <1>5 DEF Kind, Places
  <2>2. \A q \in Pass : i <= position'[q] => i <= position[q]
    BY <1>1, <1>5, <2>1
  <2>3. QED
    BY <1>1, <1>5, <1>6, <2>1, <2>2 DEF Covered
<1>9. PassInv'
  <2>1. \A q \in Pass : position'[q] <= Len(history)
    BY <1>1, <1>5
  <2>2. \A q \in Pass : pointer'[q] <= position'[q]
    BY <1>1, <1>5
  <2>3. QED
    BY <1>1, <1>5, <1>6, <1>7, <1>8, <2>1, <2>2 DEF IInv, BaseInv, PassInv, Places, Legacy
<1>10. QED
  BY <1>1, <1>3, <1>4, <1>9, RowsStay DEF IInv, BaseInv

LEMMA MigrationPreserves ==
    ASSUME IInv, NEW i \in toMigrate, MigratePoolEvent(i)
    PROVE  IInv' /\ (TicketInv => TicketInv')
<1>1. /\ scenario' = scenario /\ history' = history /\ stored' = stored
      /\ script' = script /\ toMigrate' = toMigrate \ {i}
      /\ db' = [db EXCEPT !.newPool = @ \cup {i}, !.oldPool = @ \ {i}]
      /\ UNCHANGED passVars
  BY DEF MigratePoolEvent
<1>2. DOMAIN db = Fields /\ toMigrate \subseteq db.oldPool
  BY DEF IInv, ShapeInv
<1>3. /\ DOMAIN db' = Fields /\ db'.oldPool = db.oldPool \ {i}
      /\ \A f \in Fields \ {"oldPool", "newPool"} : db'[f] = db[f]
  BY <1>1, <1>2 DEF Fields
<1>4. /\ toMigrate' \subseteq db'.oldPool /\ db'.lotSize = db.lotSize
  BY <1>1, <1>2, <1>3 DEF Fields
<1>5. PassInv'
  BY <1>1, SameEvents DEF IInv, BaseInv, PassInv, Covered, passVars
<1>6. QED
  BY <1>1, <1>3, <1>4, <1>5, RowsStay DEF IInv, BaseInv

-----------------------------------------------------------------------------
(* The script gives old requests, and them only, a resolution of theirs.   *)

LEMMA ScriptPreserves ==
    ASSUME IInv, AddResolutions
    PROVE  IInv' /\ (TicketInv => TicketInv')
<1> DEFINE Due(r) == /\ db.resolution[r] = "NULL"
                     /\ script' <= Len(Outcomes) =>
                            \E i \in stored \cap About("Resolved", r) :
                                history[i].outcome = Outcomes[script']
           value == IF script' <= Len(Outcomes) THEN Outcomes[script'] ELSE "NONE"
           New == [r \in DOMAIN db.resolution |-> IF Due(r) THEN value ELSE db.resolution[r]]
<1>1. /\ scenario' = scenario /\ history' = history /\ stored' = stored
      /\ toMigrate' = toMigrate /\ UNCHANGED passVars
      /\ script' = script + 1 /\ script <= Len(Outcomes)
      /\ db' = [db EXCEPT !.resolution = New]
  BY DEF AddResolutions
<1>2. /\ DOMAIN db = Fields /\ toMigrate \subseteq db.oldPool /\ stored \subseteq Places
      /\ script \in Nat /\ Len(Outcomes) \in Nat /\ DOMAIN history = Places
      /\ \A n \in 1 .. Len(Outcomes) : Outcomes[n] \in Outcome
      /\ Outcome \cap {"NONE", "NULL"} = {}
      /\ \A o \in Outcome : \E n \in 1 .. Len(Outcomes) : o = Outcomes[n]
  <2>1. DOMAIN Outcomes = 1 .. Len(Outcomes) /\ Len(Outcomes) \in Nat
    BY StorerAssumption
  <2>2. /\ \A n \in 1 .. Len(Outcomes) : Outcomes[n] \in Outcome
        /\ \A o \in Outcome : \E n \in 1 .. Len(Outcomes) : o = Outcomes[n]
    BY <2>1 DEF Outcome
  <2>3. DOMAIN history = Places
    BY DEF IInv, BaseInv, HistoryInv, Places
  <2>4. /\ DOMAIN db = Fields /\ toMigrate \subseteq db.oldPool /\ stored \subseteq Places
        /\ script \in Nat
    BY DEF IInv, ShapeInv, BaseInv, PassInv, ResolutionInv
  <2>5. QED
    BY <2>1, <2>2, <2>3, <2>4, StorerAssumption
<1>3. /\ DOMAIN db' = Fields /\ db'.resolution = New
      /\ \A f \in Fields \ {"resolution"} : db'[f] = db[f]
  BY <1>1, <1>2 DEF Fields
<1>4. \A r : stored \cap About("Resolved", r) = Of("Resolved", r)
  BY <1>2 DEF About, Emitted, Of, Kind
<1>5. \A r \in DOMAIN db.resolution : Due(r) => value \in Outcome \cup {"NONE"}
  BY <1>1, <1>2
<1>6. HistoryInv' /\ PassInv' /\ OrderInv' /\ SettingInv' /\ (TicketInv => TicketInv')
  <2>1. db'.lotSize = db.lotSize /\ db'.ticket = db.ticket
    BY <1>3 DEF Fields
  <2>2. HistoryInv' /\ OrderInv'
    BY <1>1, SameEvents DEF IInv, BaseInv, HistoryInv, OrderInv, SamePass
  <2>3. PassInv'
    BY <1>1, SameEvents DEF IInv, BaseInv, PassInv, Covered, passVars
  <2>4. QED
    BY <1>1, <2>1, <2>2, <2>3, SameEvents DEF IInv, SettingInv, TicketInv, LastOf
<1>7. ShapeInv'
  <2>1. /\ db'.ticket = db.ticket /\ db'.balance = db.balance /\ db'.oldPool = db.oldPool
    BY <1>3 DEF Fields
  <2>2. /\ DOMAIN db'.resolution = DOMAIN db.resolution
        /\ db'.resolution \in [DOMAIN db.resolution -> Outcome \cup {"NONE", "NULL"}]
    BY <1>3, <1>5 DEF IInv, ShapeInv
  <2>3. QED
    BY <1>1, <1>3, <2>1, <2>2 DEF IInv, ShapeInv
<1>8. ResolutionInv'
  <2>1. ASSUME NEW r \in DOMAIN db.resolution
        PROVE  /\ New[r] = "NULL" =>
                      /\ Old(r) /\ script' <= Len(Outcomes)
                      /\ \A i \in Of("Resolved", r), n \in 1 .. script' :
                             history[i].outcome # Outcomes[n]
               /\ New[r] # "NULL" /\ Of("Resolved", r) = {} => New[r] = "NONE"
               /\ New[r] # "NULL" /\ Of("Resolved", r) # {} =>
                      \E i \in Of("Resolved", r) :
                          /\ New[r] = history[i].outcome
                          /\ \/ LastOf(i, Of("Resolved", r))
                             \/ Old(r) \/ OutOfOrder({"Resolved"})
    <3>1. CASE db.resolution[r] # "NULL"
      <4>1. New[r] = db.resolution[r]
        BY <3>1
      <4>2. QED
        BY <3>1, <4>1 DEF IInv, ResolutionInv
    <3>2. CASE db.resolution[r] = "NULL"
      <4>1. /\ Old(r)
            /\ \A i \in Of("Resolved", r), n \in 1 .. script : history[i].outcome # Outcomes[n]
            /\ \A i \in Of("Resolved", r) : history[i].outcome \in Outcome
        <5>1. ASSUME NEW i \in Of("Resolved", r)
              PROVE  history[i].outcome \in Outcome
          <6>1. history[i] \in EventRecord /\ history[i].kind = "Resolved"
            BY <1>2 DEF Of, Kind, IInv, BaseInv, HistoryInv, Places
          <6>2. QED
            BY <6>1, EventFields
        <5>2. QED
          BY <3>2, <5>1 DEF IInv, ResolutionInv
      <4>2. CASE script' <= Len(Outcomes) /\ Due(r)
        <5>1. New[r] = Outcomes[script'] /\ New[r] # "NULL"
          BY <1>1, <1>2, <4>2
        <5>2. PICK i \in Of("Resolved", r) : history[i].outcome = Outcomes[script']
          BY <1>4, <4>2
        <5>3. QED
          BY <4>1, <5>1, <5>2
      <4>3. CASE script' <= Len(Outcomes) /\ ~Due(r)
        <5>1. New[r] = "NULL"
          BY <3>2, <4>3
        <5>2. \A i \in Of("Resolved", r) : history[i].outcome # Outcomes[script']
          BY <1>4, <3>2, <4>3
        <5>3. \A n \in 1 .. script' : n \in 1 .. script \/ n = script'
          BY <1>1, <1>2
        <5>4. QED
          BY <4>1, <4>3, <5>1, <5>2, <5>3
      <4>4. CASE ~(script' <= Len(Outcomes))
        <5>1. New[r] = "NONE"
          BY <3>2, <4>4
        <5>2. script = Len(Outcomes)
          BY <1>1, <1>2, <4>4
        <5>3. Of("Resolved", r) = {}
          BY <1>2, <4>1, <5>2
        <5>4. QED
          BY <5>1, <5>3
      <4>5. QED
        BY <4>2, <4>3, <4>4
    <3>3. QED
      BY <3>1, <3>2
  <2>2. DOMAIN New = DOMAIN db.resolution
    OBVIOUS
  <2>3. script' \in Nat
    BY <1>1, <1>2
  <2> HIDE DEF New
  <2>4. QED
    BY <1>1, <1>3, <2>1, <2>2, <2>3, SameEvents DEF IInv, ResolutionInv, LastOf
<1>9. QED
  BY <1>6, <1>7, <1>8 DEF IInv, BaseInv

-----------------------------------------------------------------------------
(* The transaction of an event.                                            *)

\* The event is new and the last of those its pass handles.
LEMMA StoredEvent ==
    ASSUME IInv, NEW p \in Pass, StoreEvent(p), NEW n, n = Next1(p)
    PROVE  /\ HistoryInv' /\ PassInv' /\ OrderInv'
           /\ n \in Places /\ n \notin stored /\ n \notin Legacy
           /\ Handle(n) /\ history[n] \in EventRecord /\ Kind(n) = history[n].kind
           /\ stored' = stored \cup {n} /\ stored \subseteq Places
           /\ scenario' = scenario /\ history' = history /\ script' = script
           /\ toMigrate' = toMigrate
           /\ \A j \in stored : SamePass(Kind(n), Kind(j)) => j < n
           /\ DOMAIN db = Fields /\ Places \subseteq Nat
<1>1. /\ Ready(p) /\ Done(p) /\ Kind(n) \in Handles(p) /\ n \notin stored
      /\ Handle(n) /\ stored' = stored \cup {n}
  BY DEF StoreEvent, LogExists, Kind
<1>2. n \in Places /\ position[p] \in Nat /\ n = position[p] + 1
      /\ (p = "front" => mode # "down") /\ (p = "back" => mode = "update")
  BY <1>1, AtPlace
<1>3. /\ scenario' = scenario /\ history' = history /\ script' = script /\ toMigrate' = toMigrate
      /\ mode' = mode
  BY <1>1 DEF Done
<1>4. stored \subseteq Places /\ Legacy \subseteq stored /\ Places \subseteq Nat
  BY DEF IInv, BaseInv, PassInv, Places
<1>5. HistoryInv' /\ PassInv'
  <2>1. HistoryInv'
    BY <1>3 DEF IInv, BaseInv, HistoryInv, Kind, Places, Legacy
  <2>2. QED
    BY <1>1, <1>2, <1>4, <2>1, MovesOn
<1>6. ASSUME NEW i \in Places, i < n, SamePass(Kind(i), Kind(n))
      PROVE  i \in stored
  <2>1. i <= position[p] /\ Covered(i)
    BY <1>2, <1>4, <1>6 DEF IInv, BaseInv, PassInv
  <2>2. CASE p = "back"
    <3>1. Handles(p) = scenario.diff
      BY <1>2, <2>2 DEF Handles
    <3>2. scenario.type = "race" /\ Kind(i) \in scenario.diff
      BY <1>1, <1>2, <1>6, <2>2, <3>1, StorerAssumption DEF SamePass, IInv, BaseInv, PassInv, HistoryInv
    <3>3. QED
      BY <2>1, <2>2, <3>2 DEF Covered
  <2>3. CASE p = "front" /\ Kind(n) \notin scenario.diff
    BY <1>6, <2>1, <2>3 DEF Covered, SamePass
  <2>4. CASE p = "front" /\ Kind(n) \in scenario.diff
    <3>1. scenario.type = "race"
      BY <1>6, <2>4, StorerAssumption DEF SamePass, IInv, BaseInv, HistoryInv
    <3>2. mode = "whole"
      BY <1>1, <1>2, <2>4, <3>1 DEF Handles, IInv, BaseInv, PassInv
    <3>3. QED
      BY <2>1, <2>4, <3>1, <3>2 DEF Covered
  <2>5. QED
    BY <2>2, <2>3, <2>4 DEF Pass
<1>7. ASSUME NEW j \in stored, SamePass(Kind(n), Kind(j))
      PROVE  j < n
  <2>1. ~(n < j)
    BY <1>1, <1>2, <1>7 DEF IInv, BaseInv, OrderInv
  <2>2. QED
    BY <1>1, <1>2, <1>4, <2>1
<1>8. OrderInv'
  <2>1. \A i : Kind(i)' = Kind(i)
    BY <1>3 DEF Kind
  <2>2. QED
    BY <1>1, <1>2, <1>3, <1>6, <2>1 DEF IInv, BaseInv, OrderInv, SamePass, Places
<1>9. history[n] \in EventRecord /\ DOMAIN db = Fields
  BY <1>2 DEF IInv, BaseInv, HistoryInv, ShapeInv, Places
<1>10. QED
  BY <1>1, <1>2, <1>3, <1>4, <1>5, <1>7, <1>8, <1>9 DEF Kind

\* The kinds a handler is for, and the table it writes.
Table(k) ==
    CASE k \in {"Requested", "Resolved"} -> "resolution"
      [] k \in TicketKinds -> "ticket"
      [] k = "Transfer" -> "balance"
      [] k = "SettingChanged" -> "lotSize"
      [] k = "PoolEvent" -> "newPool"

LEMMA OneTable ==
    ASSUME DOMAIN db = Fields, NEW n, Handle(n)
    PROVE  /\ DOMAIN db' = Fields /\ Kind(n) \in Kinds
           /\ \A f \in Fields \ {Table(Kind(n))} : db'[f] = db[f]
<1> DEFINE e == history[n]
<1>1. CASE CreateRequest(e) \/ Resolve(e)
  <2>1. /\ \E v : db' = [db EXCEPT !["resolution"] = v]
        /\ Kind(n) \in {"Requested", "Resolved"}
    BY <1>1 DEF CreateRequest, Resolve, Kind
  <2>2. Table(Kind(n)) = "resolution" /\ Kind(n) \in Kinds
    BY <2>1 DEF Table, TicketKinds, Kinds
  <2>3. QED
    BY <2>1, <2>2 DEF Fields
<1>2. CASE CreateTicket(e) \/ UpdateTicket(e) \/ DeleteTicket(e)
  <2>1. /\ \E v : db' = [db EXCEPT !["ticket"] = v]
        /\ Kind(n) \in TicketKinds
    BY <1>2 DEF CreateTicket, UpdateTicket, DeleteTicket, Kind, TicketKinds
  <2>2. Table(Kind(n)) = "ticket" /\ Kind(n) \in Kinds
    BY <2>1 DEF Table, TicketKinds, Kinds
  <2>3. QED
    BY <2>1, <2>2 DEF Fields
<1>3. CASE TransferTokens(e)
  <2>1. (\E v : db' = [db EXCEPT !["balance"] = v]) /\ Kind(n) = "Transfer"
    BY <1>3 DEF TransferTokens, Kind
  <2>2. Table(Kind(n)) = "balance" /\ Kind(n) \in Kinds
    BY <2>1 DEF Table, TicketKinds, Kinds
  <2>3. QED
    BY <2>1, <2>2 DEF Fields
<1>4. CASE ChangeSetting(e)
  <2>1. (\E v : db' = [db EXCEPT !["lotSize"] = v]) /\ Kind(n) = "SettingChanged"
    BY <1>4 DEF ChangeSetting, Kind
  <2>2. Table(Kind(n)) = "lotSize" /\ Kind(n) \in Kinds
    BY <2>1 DEF Table, TicketKinds, Kinds
  <2>3. QED
    BY <2>1, <2>2 DEF Fields
<1>5. CASE StorePoolEvent(n)
  <2>1. (\E v : db' = [db EXCEPT !["newPool"] = v]) /\ Kind(n) = "PoolEvent"
    BY <1>5 DEF StorePoolEvent, Kind
  <2>2. Table(Kind(n)) = "newPool" /\ Kind(n) \in Kinds
    BY <2>1 DEF Table, TicketKinds, Kinds
  <2>3. QED
    BY <2>1, <2>2 DEF Fields
<1>6. QED
  BY <1>1, <1>2, <1>3, <1>4, <1>5 DEF Handle

LEMMA OfAfter ==
    ASSUME IInv, NEW p \in Pass, StoreEvent(p), NEW n, n = Next1(p)
    PROVE  /\ \A k, x : Of(k, x)' = Of(k, x) \cup
                          (IF Kind(n) = k /\ history[n].id = x THEN {n} ELSE {})
           /\ Changes' = Changes \cup (IF Kind(n) = "SettingChanged" THEN {n} ELSE {})
           /\ Legacy' = Legacy /\ \A K : OutOfOrder(K)' = OutOfOrder(K)
           /\ \A i : Kind(i)' = Kind(i)
<1>1. stored' = stored \cup {n} /\ history' = history /\ scenario' = scenario
  BY StoredEvent
<1>2. \A i : Kind(i)' = Kind(i)
  BY <1>1 DEF Kind
<1>3. Legacy' = Legacy /\ \A K : OutOfOrder(K)' = OutOfOrder(K)
  BY <1>1 DEF Legacy, OutOfOrder
<1>4. Changes' = Changes \cup (IF Kind(n) = "SettingChanged" THEN {n} ELSE {})
  BY <1>1, <1>2 DEF Changes
<1>5. ASSUME NEW k, NEW x
      PROVE  Of(k, x)' = Of(k, x) \cup (IF Kind(n) = k /\ history[n].id = x THEN {n} ELSE {})
  BY <1>1, <1>2 DEF Of
<1>6. QED
  BY <1>2, <1>3, <1>4, <1>5

\* Of its own kind the event is the last, or the kind is out of order.
LEMMA NewIsLast ==
    ASSUME IInv, NEW p \in Pass, StoreEvent(p), NEW n, n = Next1(p)
    PROVE  \/ OutOfOrder({Kind(n)})
           \/ \A j \in stored : Kind(j) = Kind(n) => j < n
BY StoredEvent DEF SamePass, OutOfOrder

LEMMA SettingStored ==
    ASSUME IInv, NEW p \in Pass, StoreEvent(p), NEW n, n = Next1(p)
    PROVE  SettingInv'
<1>1. /\ Handle(n) /\ history' = history /\ DOMAIN db = Fields /\ n \in Nat
      /\ n \in Places /\ Places \subseteq Nat /\ stored \subseteq Places
  BY StoredEvent
<1>2. CASE Kind(n) = "SettingChanged"
  <2>1. ChangeSetting(history[n])
    BY <1>1, <1>2 DEF Handle, Kind, CreateRequest, Resolve, CreateTicket, UpdateTicket,
                      DeleteTicket, TransferTokens, StorePoolEvent
  <2>2. db'.lotSize = <<history[n].value>> /\ Changes' = Changes \cup {n}
    BY <1>1, <1>2, <2>1, OfAfter DEF ChangeSetting, Fields
  <2>3. db'.lotSize # <<>>
    BY <2>2
  <2>4. OutOfOrder({"SettingChanged"}) \/ \A j \in Changes : j < n
    BY <1>2, NewIsLast DEF Changes
  <2>5. (\A j \in Changes : j < n) => LastOf(n, Changes')
    <3>1. Changes \subseteq Nat
      BY <1>1 DEF Changes
    <3>2. QED
      BY <1>1, <2>2, <3>1 DEF LastOf
  <2>6. QED
    BY <1>1, <2>2, <2>3, <2>4, <2>5, OfAfter DEF SettingInv, LastOf
<1>3. CASE Kind(n) # "SettingChanged"
  <2>1. db'.lotSize = db.lotSize
    BY <1>1, <1>3, OneTable DEF Table, Fields, TicketKinds, Kinds
  <2>2. Changes' = Changes
    BY <1>3, OfAfter
  <2>3. QED
    BY <1>1, <2>1, <2>2, OfAfter DEF IInv, SettingInv, LastOf
<1>4. QED
  BY <1>2, <1>3

LEMMA ResolutionStored ==
    ASSUME IInv, NEW p \in Pass, StoreEvent(p), NEW n, n = Next1(p)
    PROVE  ResolutionInv'
<1> DEFINE e == history[n]
           Row(r) == /\ Of("Requested", r)' # {}
                     /\ db'.resolution[r] = "NULL" =>
                           /\ Old(r)' /\ script <= Len(Outcomes)
                           /\ \A i \in Of("Resolved", r)', m \in 1 .. script :
                                  history[i].outcome # Outcomes[m]
                     /\ db'.resolution[r] # "NULL" /\ Of("Resolved", r)' = {} =>
                           db'.resolution[r] = "NONE"
                     /\ db'.resolution[r] # "NULL" /\ Of("Resolved", r)' # {} =>
                           \E i \in Of("Resolved", r)' :
                               /\ db'.resolution[r] = history[i].outcome
                               /\ \/ LastOf(i, Of("Resolved", r)')
                                  \/ Old(r)' \/ OutOfOrder({"Resolved"})
<1>0. PICK x : x = e.id
  OBVIOUS
<1>1. /\ Handle(n) /\ history' = history /\ script' = script /\ DOMAIN db = Fields
      /\ n \in Places /\ n \notin stored /\ n \notin Legacy
      /\ Places \subseteq Nat /\ stored \subseteq Places /\ stored' = stored \cup {n}
      /\ e \in EventRecord /\ Kind(n) = e.kind
  BY StoredEvent
<1>2. \A k, r : Of(k, r)' = Of(k, r) \cup (IF e.kind = k /\ x = r THEN {n} ELSE {})
  BY <1>0, <1>1, OfAfter
<1>3. \A r : e.kind \notin {"Requested", "Resolved"} \/ x # r =>
          /\ Of("Requested", r)' = Of("Requested", r)
          /\ Of("Resolved", r)' = Of("Resolved", r)
          /\ Old(r)' = Old(r)
  BY <1>2, OfAfter DEF Old
<1>4. ASSUME NEW r \in DOMAIN db.resolution,
             e.kind \notin {"Requested", "Resolved"} \/ x # r,
             db'.resolution[r] = db.resolution[r]
      PROVE  Row(r)
  BY <1>3, <1>4 DEF IInv, ResolutionInv
<1>5. \A k, r : \A i \in Of(k, r) : i \in stored /\ Kind(i) = k /\ history[i].id = r
  BY DEF Of
<1>6. CASE e.kind = "Requested"
  <2>1. db' = [db EXCEPT !.resolution = Put(@, e.id, "NONE")]
    BY <1>1, <1>6 DEF Handle, CreateRequest, Resolve, CreateTicket, UpdateTicket,
                      DeleteTicket, TransferTokens, StorePoolEvent, ChangeSetting
  <2>2. /\ db'.resolution = [r \in DOMAIN db.resolution \cup {x} |->
                                 IF r = x THEN "NONE" ELSE db.resolution[r]]
    BY <1>0, <1>1, <2>1 DEF Fields, Put
  <2>3. x \notin DOMAIN db.resolution
    <3>1. SUFFICES ASSUME x \in DOMAIN db.resolution PROVE FALSE
      OBVIOUS
    <3>2. PICK i \in Of("Requested", x) : TRUE
      BY <3>1 DEF IInv, ResolutionInv
    <3>3. i \in stored /\ Kind(i) = "Requested" /\ history[i].id = x
      BY <3>2 DEF Of
    <3>4. i \in Places /\ i # n
      BY <1>1, <3>3
    <3>5. QED
      BY <1>0, <1>1, <1>6, <3>3, <3>4 DEF IInv, BaseInv, HistoryInv
  <2>4. Of("Resolved", x) = {}
    BY <1>5, <2>3 DEF IInv, ResolutionInv
  <2>5. Row(x)
    <3>1. Of("Requested", x)' = Of("Requested", x) \cup {n}
          /\ Of("Resolved", x)' = {} /\ db'.resolution[x] = "NONE"
      BY <1>2, <1>6, <2>2, <2>4
    <3>2. QED
      BY <3>1
  <2>6. ASSUME NEW r \in DOMAIN db.resolution
        PROVE  Row(r)
    BY <1>4, <2>2, <2>3
  <2>7. \A i \in stored' : Kind(i) \in {"Requested", "Resolved"} =>
            history[i].id \in DOMAIN db'.resolution
    BY <1>0, <1>1, <2>2 DEF IInv, ResolutionInv
  <2>8. \A r \in DOMAIN db'.resolution : Row(r)
    BY <2>2, <2>5, <2>6
  <2>9. QED
    BY <1>1, <2>7, <2>8, OfAfter DEF IInv, ResolutionInv, LastOf
<1>7. CASE e.kind = "Resolved"
  <2>1. x \in DOMAIN db.resolution /\ db' = [db EXCEPT !.resolution[e.id] = e.outcome]
    BY <1>0, <1>1, <1>7 DEF Handle, CreateRequest, Resolve, CreateTicket, UpdateTicket,
                      DeleteTicket, TransferTokens, StorePoolEvent, ChangeSetting
  <2>2. /\ db'.resolution = [db.resolution EXCEPT ![x] = e.outcome]
        /\ DOMAIN db'.resolution = DOMAIN db.resolution
        /\ db'.resolution[x] = e.outcome
        /\ \A r \in DOMAIN db.resolution \ {x} : db'.resolution[r] = db.resolution[r]
    BY <1>0, <1>1, <2>1 DEF Fields, IInv, ShapeInv
  <2>3. Row(x)
    <3>1. /\ Of("Resolved", x)' = Of("Resolved", x) \cup {n}
          /\ Of("Requested", x)' = Of("Requested", x)
          /\ Of("Requested", x) # {}
      BY <1>2, <1>7, <2>1 DEF IInv, ResolutionInv
    <3>2. e.outcome \in Outcome /\ e.outcome # "NULL"
      BY <1>1, <1>7, EventFields, StorerAssumption
    <3>3. OutOfOrder({"Resolved"}) \/ \A j \in Of("Resolved", x) : j < n
      <4>1. Kind(n) = "Resolved"
        BY <1>1, <1>7
      <4>2. OutOfOrder({"Resolved"}) \/ \A j \in stored : Kind(j) = "Resolved" => j < n
        BY <4>1, NewIsLast
      <4>3. QED
        BY <1>5, <4>2
    <3>4. (\A j \in Of("Resolved", x) : j < n) => LastOf(n, Of("Resolved", x)')
      <4>1. Of("Resolved", x) \subseteq Nat /\ n \in Nat
        BY <1>1, <1>5
      <4>2. QED
        BY <3>1, <4>1 DEF LastOf
    <3>5. n \in Of("Resolved", x)'
      BY <3>1
    <3>6. QED
      BY <2>2, <3>1, <3>2, <3>3, <3>4, <3>5
  <2>4. ASSUME NEW r \in DOMAIN db.resolution, r # x
        PROVE  Row(r)
    BY <1>4, <2>2, <2>4
  <2>5. \A i \in stored' : Kind(i) \in {"Requested", "Resolved"} =>
            history[i].id \in DOMAIN db'.resolution
    BY <1>0, <1>1, <2>1, <2>2 DEF IInv, ResolutionInv
  <2>6. \A r \in DOMAIN db'.resolution : Row(r)
    BY <2>2, <2>3, <2>4
  <2>7. QED
    BY <1>1, <2>5, <2>6, OfAfter DEF IInv, ResolutionInv, LastOf
<1>8. CASE e.kind \notin {"Requested", "Resolved"}
  <2>1. db'.resolution = db.resolution
    BY <1>1, <1>8, OneTable DEF Table, Fields, TicketKinds, Kinds
  <2>2. \A r \in DOMAIN db.resolution : Row(r)
    BY <1>4, <1>8, <2>1
  <2>3. \A i \in stored' : Kind(i) \in {"Requested", "Resolved"} =>
            history[i].id \in DOMAIN db'.resolution
    BY <1>1, <1>8, <2>1 DEF IInv, ResolutionInv
  <2>4. QED
    BY <1>1, <2>1, <2>2, <2>3, OfAfter DEF IInv, ResolutionInv, LastOf
<1>9. QED
  BY <1>6, <1>7, <1>8

\* A row inserted or changed has the table's type.
LEMMA PutTyped ==
    ASSUME NEW S, NEW f, f \in [DOMAIN f -> S], NEW x, NEW v \in S, NEW g,
           g = [y \in DOMAIN f \cup {x} |-> IF y = x THEN v ELSE f[y]]
    PROVE  g \in [DOMAIN g -> S] /\ DOMAIN g = DOMAIN f \cup {x}
OBVIOUS

LEMMA ExceptTyped ==
    ASSUME NEW S, NEW f, f \in [DOMAIN f -> S], NEW x, NEW v \in S, NEW g, g = [f EXCEPT ![x] = v]
    PROVE  g \in [DOMAIN g -> S] /\ DOMAIN g = DOMAIN f
OBVIOUS

LEMMA TicketRevalued ==
    ASSUME NEW S, NEW r, r \in [value : S, destroyed : BOOLEAN], NEW v \in S
    PROVE  [r EXCEPT !.value = v] = [value |-> v, destroyed |-> r.destroyed]
OBVIOUS

LEMMA ShapeStored ==
    ASSUME IInv, NEW p \in Pass, StoreEvent(p), NEW n, n = Next1(p)
    PROVE  ShapeInv'
<1> DEFINE e == history[n]
<1>1. /\ Handle(n) /\ DOMAIN db = Fields /\ toMigrate' = toMigrate
      /\ e \in EventRecord /\ Kind(n) = e.kind
  BY StoredEvent
<1>2. /\ DOMAIN db' = Fields /\ e.kind \in Kinds
      /\ \A f \in Fields \ {Table(e.kind)} : db'[f] = db[f]
  BY <1>1, OneTable
<1>3. /\ db.resolution \in [DOMAIN db.resolution -> Outcome \cup {"NONE", "NULL"}]
      /\ DOMAIN db.resolution \subseteq Request
      /\ db.ticket \in [DOMAIN db.ticket -> [value : Amount \cup {0}, destroyed : BOOLEAN]]
      /\ DOMAIN db.ticket \subseteq Ticket /\ DOMAIN db.balance \subseteq Holder
      /\ toMigrate \subseteq db.oldPool
  BY DEF IInv, ShapeInv
<1>4. db'.oldPool = db.oldPool
  BY <1>2 DEF Table, Fields, TicketKinds, Kinds
<1>5. /\ db'.resolution \in [DOMAIN db'.resolution -> Outcome \cup {"NONE", "NULL"}]
      /\ DOMAIN db'.resolution \subseteq Request
  <2>1. CASE e.kind \in {"Requested", "Resolved"}
    <3>1. e.id \in Request /\ (e.kind = "Resolved" => e.outcome \in Outcome)
      BY <1>1, <2>1, EventFields
    <3>2. CASE CreateRequest(e)
      <4>1. db'.resolution = [r \in DOMAIN db.resolution \cup {e.id} |->
                                 IF r = e.id THEN "NONE" ELSE db.resolution[r]]
        BY <1>1, <3>2 DEF CreateRequest, Put, Fields
      <4>2. QED
        BY <1>3, <3>1, <4>1
    <3>3. CASE Resolve(e)
      <4>1. /\ db'.resolution = [db.resolution EXCEPT ![e.id] = e.outcome]
            /\ e.outcome \in Outcome
        BY <1>1, <3>1, <3>3 DEF Resolve, Fields
      <4>2. QED
        BY <1>3, <4>1
    <3>4. QED
      BY <1>1, <2>1, <3>2, <3>3 DEF Handle, CreateTicket, UpdateTicket, DeleteTicket,
                                    TransferTokens, ChangeSetting, StorePoolEvent
  <2>2. CASE e.kind \notin {"Requested", "Resolved"}
    <3>1. db'.resolution = db.resolution
      BY <1>2, <2>2 DEF Table, Fields, TicketKinds, Kinds
    <3>2. QED
      BY <1>3, <3>1
  <2>3. QED
    BY <2>1, <2>2
<1>6. /\ db'.ticket \in [DOMAIN db'.ticket -> [value : Amount \cup {0}, destroyed : BOOLEAN]]
      /\ DOMAIN db'.ticket \subseteq Ticket
  <2>1. CASE e.kind \in TicketKinds
    <3> DEFINE S == [value : Amount \cup {0}, destroyed : BOOLEAN]
    <3>1. /\ e.id \in Ticket
          /\ e.kind \in {"TicketCreated", "TicketUpdated"} => e.value \in Amount
      BY <1>1, <2>1, EventFields
    <3>2. CASE CreateTicket(e)
      <4>1. /\ db'.ticket = [t \in DOMAIN db.ticket \cup {e.id} |->
                                 IF t = e.id THEN [value |-> e.value, destroyed |-> FALSE]
                                 ELSE db.ticket[t]]
            /\ e.kind = "TicketCreated"
        BY <1>1, <3>2 DEF CreateTicket, Put, Fields
      <4>2. [value |-> e.value, destroyed |-> FALSE] \in S
        BY <3>1, <4>1
      <4>3. db.ticket \in [DOMAIN db.ticket -> S]
        BY <1>3
      <4> HIDE DEF S
      <4>4. db'.ticket \in [DOMAIN db'.ticket -> S] /\ DOMAIN db'.ticket = DOMAIN db.ticket \cup {e.id}
        BY <4>1, <4>2, <4>3, PutTyped
      <4>5. QED
        BY <1>3, <3>1, <4>4 DEF S
    <3>3. CASE UpdateTicket(e) \/ DeleteTicket(e)
      <4>1. PICK v : /\ e.id \in DOMAIN db.ticket
                     /\ db'.ticket = [db.ticket EXCEPT ![e.id] = v] /\ v \in S
        <5>1. CASE UpdateTicket(e)
          <6>1. /\ db'.ticket = [db.ticket EXCEPT ![e.id].value = e.value]
                /\ e.kind = "TicketUpdated" /\ e.id \in DOMAIN db.ticket
            BY <1>1, <5>1 DEF UpdateTicket, Fields
          <6>2. [db.ticket[e.id] EXCEPT !.value = e.value] \in S
            BY <1>3, <3>1, <6>1
          <6>3. db'.ticket = [db.ticket EXCEPT ![e.id] = [db.ticket[e.id] EXCEPT !.value = e.value]]
            BY <6>1
          <6>4. QED
            BY <6>1, <6>2, <6>3
        <5>2. CASE DeleteTicket(e)
          <6>1. /\ db'.ticket = [db.ticket EXCEPT ![e.id] = [value |-> 0, destroyed |-> TRUE]]
                /\ e.id \in DOMAIN db.ticket
            BY <1>1, <5>2 DEF DeleteTicket, Fields
          <6>2. [value |-> 0, destroyed |-> TRUE] \in S
            OBVIOUS
          <6>3. QED
            BY <6>1, <6>2
        <5>3. QED
          BY <3>3, <5>1, <5>2
      <4>2. db.ticket \in [DOMAIN db.ticket -> S]
        BY <1>3
      <4> HIDE DEF S
      <4>3. db'.ticket \in [DOMAIN db'.ticket -> S] /\ DOMAIN db'.ticket = DOMAIN db.ticket
        BY <4>1, <4>2, ExceptTyped
      <4>4. QED
        BY <1>3, <4>3 DEF S
    <3>4. QED
      BY <1>1, <2>1, <3>2, <3>3 DEF Handle, CreateRequest, Resolve, TicketKinds,
                                    TransferTokens, ChangeSetting, StorePoolEvent
  <2>2. CASE e.kind \notin TicketKinds
    <3>1. db'.ticket = db.ticket
      BY <1>2, <2>2 DEF Table, Fields, TicketKinds, Kinds
    <3>2. QED
      BY <1>3, <3>1
  <2>3. QED
    BY <2>1, <2>2
<1>7. DOMAIN db'.balance \subseteq Holder
  <2>1. CASE e.kind = "Transfer"
    <3>1. e.from \in Holder /\ e.to \in Holder
      BY <1>1, <2>1, EventFields
    <3>2. db' = [db EXCEPT !.balance =
                    ChangeTokenBalance(ChangeTokenBalance(@, e.to, e.value), e.from, -e.value)]
      BY <1>1, <2>1 DEF Handle, CreateRequest, Resolve, CreateTicket, UpdateTicket,
                        DeleteTicket, TransferTokens, ChangeSetting, StorePoolEvent
    <3>3. \A b, h, d : DOMAIN ChangeTokenBalance(b, h, d) = DOMAIN b \cup {h}
      BY DEF ChangeTokenBalance, Put
    <3>4. DOMAIN db'.balance = DOMAIN db.balance \cup {e.to} \cup {e.from}
      <4>1. db'.balance =
                ChangeTokenBalance(ChangeTokenBalance(db.balance, e.to, e.value), e.from, -e.value)
        BY <1>1, <3>2 DEF Fields
      <4>2. PICK b : b = ChangeTokenBalance(db.balance, e.to, e.value)
        OBVIOUS
      <4>3. DOMAIN b = DOMAIN db.balance \cup {e.to}
        BY <3>3, <4>2
      <4>4. db'.balance = ChangeTokenBalance(b, e.from, -e.value)
        BY <4>1, <4>2
      <4>5. DOMAIN ChangeTokenBalance(b, e.from, -e.value) = DOMAIN b \cup {e.from}
        BY <3>3
      <4>6. QED
        BY <4>3, <4>4, <4>5
    <3>5. QED
      BY <1>3, <3>1, <3>4
  <2>2. CASE e.kind # "Transfer"
    <3>1. db'.balance = db.balance
      BY <1>2, <2>2 DEF Table, Fields, TicketKinds, Kinds
    <3>2. QED
      BY <1>3, <3>1
  <2>3. QED
    BY <2>1, <2>2
<1>8. QED
  BY <1>1, <1>2, <1>3, <1>4, <1>5, <1>6, <1>7 DEF ShapeInv

LEMMA TicketStored ==
    ASSUME IInv, TicketsTogether, TicketInv, NEW p \in Pass, StoreEvent(p), NEW n, n = Next1(p)
    PROVE  TicketInv'
<1> DEFINE e == history[n]
           Row(t) == /\ Of("TicketCreated", t)' # {}
                     /\ \/ OutOfOrder(TicketKinds)
                        \/ /\ Of("TicketDeleted", t)' # {}
                           /\ db'.ticket[t] = [value |-> 0, destroyed |-> TRUE]
                        \/ /\ Of("TicketDeleted", t)' = {}
                           /\ \E i \in Valued(t)' :
                                  /\ LastOf(i, Valued(t)')
                                  /\ db'.ticket[t] = [value |-> history[i].value,
                                                      destroyed |-> FALSE]
<1>0. PICK x : x = e.id
  OBVIOUS
<1>1. /\ Handle(n) /\ history' = history /\ DOMAIN db = Fields
      /\ n \in Places /\ n \notin stored /\ scenario \in Scenarios
      /\ Places \subseteq Nat /\ stored \subseteq Places /\ stored' = stored \cup {n}
      /\ e \in EventRecord /\ Kind(n) = e.kind
  BY StoredEvent DEF IInv, BaseInv, HistoryInv
<1>2. /\ \A k, t : Of(k, t)' = Of(k, t) \cup (IF e.kind = k /\ x = t THEN {n} ELSE {})
      /\ \A t : Valued(t)' = Valued(t) \cup
                    (IF e.kind \in {"TicketCreated", "TicketUpdated"} /\ x = t THEN {n} ELSE {})
  <2>1. \A k, t : Of(k, t)' = Of(k, t) \cup (IF e.kind = k /\ x = t THEN {n} ELSE {})
    BY <1>0, <1>1, OfAfter
  <2>2. QED
    BY <2>1 DEF Valued
<1>3. \A k, t : \A i \in Of(k, t) : i \in stored /\ Kind(i) = k /\ history[i].id = t
  BY DEF Of
<1>4. \A t : \A i \in Valued(t) :
          i \in stored /\ Kind(i) \in {"TicketCreated", "TicketUpdated"} /\ history[i].id = t
  BY <1>3 DEF Valued
<1>5. ASSUME NEW t \in DOMAIN db.ticket, e.kind \notin TicketKinds \/ x # t,
             db'.ticket[t] = db.ticket[t]
      PROVE  Row(t)
  BY <1>2, <1>5 DEF TicketInv, TicketKinds
<1>6. e.kind \in TicketKinds =>
          OutOfOrder(TicketKinds) \/ \A j \in stored : Kind(j) \in TicketKinds => j < n
  <2>1. TicketKinds \subseteq scenario.diff \/ TicketKinds \cap scenario.diff = {}
    BY <1>1 DEF TicketsTogether
  <2>2. \A j \in stored : SamePass(e.kind, Kind(j)) => j < n
    BY <1>1, StoredEvent
  <2>3. QED
    BY <2>1, <2>2 DEF SamePass, OutOfOrder
<1>7. CASE CreateTicket(e)
  <2>1. /\ db'.ticket = [t \in DOMAIN db.ticket \cup {x} |->
                             IF t = x THEN [value |-> e.value, destroyed |-> FALSE]
                             ELSE db.ticket[t]]
        /\ e.kind = "TicketCreated"
    BY <1>0, <1>1, <1>7 DEF CreateTicket, Put, Fields
  <2>2. x \notin DOMAIN db.ticket
    <3>1. SUFFICES ASSUME x \in DOMAIN db.ticket PROVE FALSE
      OBVIOUS
    <3>2. PICK i \in Of("TicketCreated", x) : TRUE
      BY <3>1 DEF TicketInv
    <3>3. i \in stored /\ Kind(i) = "TicketCreated" /\ history[i].id = x
      BY <3>2 DEF Of
    <3>4. i \in Places /\ i # n
      BY <1>1, <3>3
    <3>5. QED
      BY <1>0, <1>1, <2>1, <3>3, <3>4 DEF IInv, BaseInv, HistoryInv
  <2>3. Valued(x) = {} /\ Of("TicketDeleted", x) = {}
    BY <1>3, <1>4, <2>2 DEF TicketInv, TicketKinds
  <2>4. Row(x)
    <3>1. Of("TicketCreated", x)' = Of("TicketCreated", x) \cup {n}
          /\ Of("TicketDeleted", x)' = {} /\ Valued(x)' = {n}
      BY <1>2, <2>1, <2>3
    <3>2. LastOf(n, Valued(x)')
      BY <1>1, <3>1 DEF LastOf
    <3>3. db'.ticket[x] = [value |-> history[n].value, destroyed |-> FALSE]
      BY <2>1
    <3>4. QED
      BY <3>1, <3>2, <3>3
  <2>5. \A t \in DOMAIN db.ticket : Row(t)
    BY <1>5, <2>1, <2>2
  <2>6. \A i \in stored' : Kind(i) \in TicketKinds => history[i].id \in DOMAIN db'.ticket
    BY <1>0, <1>1, <2>1 DEF TicketInv
  <2>7. \A t \in DOMAIN db'.ticket : Row(t)
    BY <2>1, <2>4, <2>5
  <2>8. QED
    BY <1>1, <2>6, <2>7, OfAfter DEF TicketInv, LastOf
<1>8. CASE UpdateTicket(e)
  <2>1. /\ x \in DOMAIN db.ticket /\ e.kind = "TicketUpdated"
        /\ db'.ticket = [db.ticket EXCEPT ![x].value = e.value]
        /\ DOMAIN db'.ticket = DOMAIN db.ticket
        /\ \A t \in DOMAIN db.ticket \ {x} : db'.ticket[t] = db.ticket[t]
    BY <1>0, <1>1, <1>8 DEF UpdateTicket, Fields
  <2>2. Row(x)
    <3>1. SUFFICES ASSUME ~OutOfOrder(TicketKinds) PROVE Row(x)
      BY <1>2, <2>1 DEF TicketInv
    <3>2. \A j \in stored : Kind(j) \in TicketKinds => j < n
      BY <1>6, <2>1, <3>1 DEF TicketKinds
    <3>3. Of("TicketDeleted", x) = {}
      <4>1. ASSUME NEW d \in Of("TicketDeleted", x)
            PROVE  FALSE
        <5>1. d \in stored /\ d \in Places /\ Kind(d) = "TicketDeleted" /\ history[d].id = x
          BY <1>1, <1>3
        <5>2. n <= d
          BY <1>0, <1>1, <2>1, <5>1 DEF IInv, BaseInv, HistoryInv, TicketKinds
        <5>3. d < n /\ d \in Nat /\ n \in Nat
          BY <1>1, <3>2, <5>1 DEF TicketKinds
        <5>4. QED
          BY <5>2, <5>3
      <4>2. QED
        BY <4>1
    <3>4. /\ db.ticket[x].destroyed = FALSE /\ e.value \in Amount \cup {0}
          /\ db.ticket[x] \in [value : Amount \cup {0}, destroyed : BOOLEAN]
      <4>1. PICK v : db.ticket[x] = [value |-> v, destroyed |-> FALSE]
        BY <2>1, <3>1, <3>3 DEF TicketInv
      <4>2. e.value \in Amount
        BY <1>1, <2>1, EventFields
      <4>3. db.ticket[x] \in [value : Amount \cup {0}, destroyed : BOOLEAN]
        BY <2>1 DEF IInv, ShapeInv
      <4>4. QED
        BY <4>1, <4>2, <4>3
    <3>5. db'.ticket[x] = [value |-> e.value, destroyed |-> FALSE]
      <4>1. db'.ticket[x] = [db.ticket[x] EXCEPT !.value = e.value]
        BY <2>1
      <4>2. QED
        BY <3>4, <4>1, TicketRevalued
    <3>6. /\ Of("TicketCreated", x)' = Of("TicketCreated", x) /\ Of("TicketCreated", x) # {}
          /\ Of("TicketDeleted", x)' = {} /\ Valued(x)' = Valued(x) \cup {n}
      BY <1>2, <2>1, <3>3 DEF TicketInv
    <3>7. LastOf(n, Valued(x)')
      <4>1. \A j \in Valued(x) : j < n /\ j \in Nat
        BY <1>1, <1>4, <3>2 DEF TicketKinds
      <4>2. QED
        BY <1>1, <3>6, <4>1 DEF LastOf
    <3>8. n \in Valued(x)'
      BY <3>6
    <3>9. QED
      BY <3>5, <3>6, <3>7, <3>8
  <2>3. \A t \in DOMAIN db.ticket : Row(t)
    BY <1>5, <2>1, <2>2
  <2>4. \A i \in stored' : Kind(i) \in TicketKinds => history[i].id \in DOMAIN db'.ticket
    BY <1>0, <1>1, <2>1 DEF TicketInv
  <2>5. QED
    BY <1>1, <2>1, <2>3, <2>4, OfAfter DEF TicketInv, LastOf
<1>9. CASE DeleteTicket(e)
  <2>1. /\ x \in DOMAIN db.ticket /\ e.kind = "TicketDeleted"
        /\ db'.ticket = [db.ticket EXCEPT ![x] = [value |-> 0, destroyed |-> TRUE]]
        /\ DOMAIN db'.ticket = DOMAIN db.ticket
        /\ db'.ticket[x] = [value |-> 0, destroyed |-> TRUE]
        /\ \A t \in DOMAIN db.ticket \ {x} : db'.ticket[t] = db.ticket[t]
    BY <1>0, <1>1, <1>9 DEF DeleteTicket, Fields
  <2>2. Row(x)
    <3>1. /\ Of("TicketCreated", x)' = Of("TicketCreated", x) /\ Of("TicketCreated", x) # {}
          /\ Of("TicketDeleted", x)' = Of("TicketDeleted", x) \cup {n}
      BY <1>2, <2>1 DEF TicketInv
    <3>2. QED
      BY <2>1, <3>1
  <2>3. \A t \in DOMAIN db.ticket : Row(t)
    BY <1>5, <2>1, <2>2
  <2>4. \A i \in stored' : Kind(i) \in TicketKinds => history[i].id \in DOMAIN db'.ticket
    BY <1>0, <1>1, <2>1 DEF TicketInv
  <2>5. QED
    BY <1>1, <2>1, <2>3, <2>4, OfAfter DEF TicketInv, LastOf
<1>10. CASE e.kind \notin TicketKinds
  <2>1. db'.ticket = db.ticket
    BY <1>1, <1>10, OneTable DEF Table, Fields, TicketKinds, Kinds
  <2>2. \A t \in DOMAIN db.ticket : Row(t)
    BY <1>5, <1>10, <2>1
  <2>3. \A i \in stored' : Kind(i) \in TicketKinds => history[i].id \in DOMAIN db'.ticket
    BY <1>1, <1>10, <2>1 DEF TicketInv
  <2>4. QED
    BY <1>1, <2>1, <2>2, <2>3, OfAfter DEF TicketInv, LastOf
<1>11. QED
  BY <1>1, <1>7, <1>8, <1>9, <1>10 DEF Handle, CreateRequest, Resolve, TransferTokens,
                                       ChangeSetting, StorePoolEvent, TicketKinds

-----------------------------------------------------------------------------
LEMMA StutterPreserves ==
    ASSUME IInv, UNCHANGED vars
    PROVE  IInv' /\ (TicketInv => TicketInv')
<1>1. /\ scenario' = scenario /\ history' = history /\ stored' = stored /\ script' = script
      /\ db' = db /\ toMigrate' = toMigrate /\ UNCHANGED passVars
  BY DEF vars
<1>2. PassInv'
  BY <1>1, SameEvents DEF IInv, BaseInv, PassInv, Covered, passVars
<1>3. DOMAIN db' = Fields /\ toMigrate' \subseteq db'.oldPool
  BY <1>1 DEF IInv, ShapeInv
<1>4. QED
  BY <1>1, <1>2, <1>3, RowsStay DEF IInv, BaseInv

LEMMA StorePreserves ==
    ASSUME IInv, NEW p \in Pass, StoreEvent(p)
    PROVE  IInv' /\ (TicketsTogether /\ TicketInv => TicketInv')
<1>1. PICK n : n = Next1(p)
  OBVIOUS
<1>2. HistoryInv' /\ PassInv' /\ OrderInv'
  BY <1>1, StoredEvent
<1>3. ShapeInv' /\ ResolutionInv' /\ SettingInv'
  BY <1>1, ShapeStored, ResolutionStored, SettingStored
<1>4. TicketsTogether /\ TicketInv => TicketInv'
  BY <1>1, TicketStored
<1>5. QED
  BY <1>2, <1>3, <1>4 DEF IInv, BaseInv

LEMMA Preserved ==
    ASSUME IInv, [Next]_vars
    PROVE  IInv' /\ (TicketsTogether /\ TicketInv => TicketInv')
<1>1. CASE Emit
  BY <1>1, EmitPreserves
<1>2. CASE Start \/ StartUpdate \/ Restart
  BY <1>2, BootPreserves
<1>3. CASE Switch \/ \E p \in Pass : RejectEvent(p) \/ CommitPointer(p) \/ Fail(p)
  BY <1>3, PointerPreserves
<1>4. ASSUME NEW p \in Pass, SkipEvent(p)
      PROVE  IInv' /\ (TicketsTogether /\ TicketInv => TicketInv')
  BY <1>4, SkipPreserves
<1>5. ASSUME NEW p \in Pass, StoreEvent(p)
      PROVE  IInv' /\ (TicketsTogether /\ TicketInv => TicketInv')
  BY <1>5, StorePreserves
<1>6. ASSUME NEW i \in toMigrate, MigratePoolEvent(i)
      PROVE  IInv' /\ (TicketsTogether /\ TicketInv => TicketInv')
  BY <1>6, MigrationPreserves
<1>7. CASE AddResolutions
  BY <1>7, ScriptPreserves
<1>8. CASE UNCHANGED vars
  BY <1>8, StutterPreserves
<1>9. CASE Idle
  BY <1>8, <1>9 DEF Idle
<1>10. QED
  BY <1>1, <1>2, <1>3, <1>4, <1>5, <1>6, <1>7, <1>8, <1>9 DEF Next, Run

\* The invariant the other theorems rest on: a pass leaves no event of its own
\* behind it, so what it stores is the last of its kind.
THEOREM Invariance == Spec => []IInv
<1>1. Init => IInv
  BY Initially
<1>2. IInv /\ [Next]_vars => IInv'
  BY Preserved
<1>3. QED
  BY <1>1, <1>2, PTL DEF Spec

\* The type invariant: rows of the kinds the tables declare, pointers behind
\* positions, and only rows that are still there left to migrate.
THEOREM TypeCorrect == Spec => []TypeOK
<1>1. IInv => TypeOK
  <2> SUFFICES ASSUME IInv PROVE TypeOK
    OBVIOUS
  <2>1. /\ db.resolution \in [DOMAIN db.resolution -> Outcome \cup {"NONE", "NULL"}]
        /\ db.ticket \in [DOMAIN db.ticket -> [value : Amount \cup {0}, destroyed : BOOLEAN]]
    BY DEF IInv, ShapeInv
  <2>2. QED
    BY <2>1 DEF TypeOK, IInv, BaseInv, ShapeInv, PassInv, Places
<1>2. QED
  BY <1>1, Invariance, PTL

\* The last event of a set is the one chosen.
LEMMA LastIs ==
    ASSUME NEW S, S \subseteq Nat, NEW i, LastOf(i, S)
    PROVE  Last(S) = i
<1>1. i \in S /\ \A j \in S : j <= i
  BY DEF LastOf
<1>2. \A k \in S : (\A j \in S : j <= k) => k = i
  BY <1>1
<1>3. QED
  BY <1>1, <1>2 DEF Last

LEMMA StoredOf ==
    ASSUME IInv
    PROVE  /\ \A k, x : StoredAbout(k, x) = Of(k, x) /\ Of(k, x) \subseteq Nat
           /\ stored \cap Emitted("SettingChanged") = Changes /\ Changes \subseteq Nat
<1>1. stored \subseteq Places /\ Places \subseteq Nat /\ DOMAIN history = Places
  BY DEF IInv, BaseInv, PassInv, HistoryInv, Places
<1>2. QED
  BY <1>1 DEF StoredAbout, About, Emitted, Of, Changes, Kind

\* A request is resolved as its last stored event says, whichever pass stored
\* it; one an older version indexed keeps a resolution of its own.
THEOREM ResolutionsInOrder == Spec => []ResolutionsFollowChain
<1>1. ASSUME IInv, NEW r \in DOMAIN db.resolution
      PROVE  LET S == StoredAbout("Resolved", r)
                 resolution == db.resolution[r]
                 legacy == S \subseteq DOMAIN scenario.legacy
                           /\ StoredAbout("Requested", r) \subseteq DOMAIN scenario.legacy
             IN /\ resolution = "NULL" => legacy /\ script <= Len(Outcomes)
                /\ resolution # "NULL" =>
                      IF S = {} THEN resolution = "NONE"
                      ELSE \E i \in S : /\ resolution = history[i].outcome
                                        /\ i = Last(S) \/ legacy \/ OutOfOrder({"Resolved"})
  <2>1. DOMAIN scenario.legacy = Legacy
    BY <1>1, StorerAssumption DEF OldHistory, Legacy, IInv, BaseInv, HistoryInv
  <2>2. /\ StoredAbout("Resolved", r) = Of("Resolved", r)
        /\ StoredAbout("Requested", r) = Of("Requested", r)
        /\ Of("Resolved", r) \subseteq Nat
    BY <1>1, StoredOf
  <2>3. db.resolution[r] = "NULL" => Old(r) /\ script <= Len(Outcomes)
    BY <1>1 DEF IInv, ResolutionInv
  <2>4. db.resolution[r] # "NULL" /\ Of("Resolved", r) = {} => db.resolution[r] = "NONE"
    BY <1>1 DEF IInv, ResolutionInv
  <2>5. ASSUME db.resolution[r] # "NULL", Of("Resolved", r) # {}
        PROVE  \E i \in Of("Resolved", r) :
                   /\ db.resolution[r] = history[i].outcome
                   /\ i = Last(Of("Resolved", r)) \/ Old(r) \/ OutOfOrder({"Resolved"})
    <3>1. PICK i \in Of("Resolved", r) :
              /\ db.resolution[r] = history[i].outcome
              /\ LastOf(i, Of("Resolved", r)) \/ Old(r) \/ OutOfOrder({"Resolved"})
      BY <1>1, <2>5 DEF IInv, ResolutionInv
    <3>2. LastOf(i, Of("Resolved", r)) => i = Last(Of("Resolved", r))
      BY <2>2, LastIs
    <3>3. QED
      BY <3>1, <3>2
  <2>6. QED
    BY <2>1, <2>2, <2>3, <2>4, <2>5 DEF Old
<1>2. IInv => ResolutionsFollowChain
  BY <1>1 DEF ResolutionsFollowChain
<1>3. QED
  BY <1>2, Invariance, PTL

\* The setting is that of its last stored change, whenever the process was
\* started and whichever pass stored the change.
THEOREM SettingsInOrder == Spec => []SettingsFollowChain
<1>1. ASSUME IInv
      PROVE  SettingsFollowChain
  <2>1. SUFFICES ASSUME Changes # {}, ~OutOfOrder({"SettingChanged"})
                 PROVE  db.lotSize = <<SettingAfter(stored)>>
    BY <1>1, StoredOf DEF SettingsFollowChain
  <2>2. PICK i \in Changes : LastOf(i, Changes) /\ db.lotSize = <<history[i].value>>
    BY <1>1, <2>1 DEF IInv, SettingInv
  <2>3. Last(Changes) = i
    BY <1>1, <2>2, StoredOf, LastIs
  <2>4. SettingAfter(stored) = history[i].value
    BY <1>1, <2>1, <2>3, StoredOf DEF SettingAfter
  <2>5. QED
    BY <2>2, <2>4
<1>2. QED
  BY <1>1, Invariance, PTL

\* A ticket is as its last stored event left it, and worth nothing once it is
\* deleted, if no update takes the kinds of a ticket's events apart.
THEOREM TicketsInOrder ==
    ASSUME TicketsTogether
    PROVE  Spec => []TicketsFollowChain
<1>1. Init => IInv /\ TicketInv
  BY Initially
<1>2. (IInv /\ TicketInv) /\ [Next]_vars => (IInv /\ TicketInv)'
  BY Preserved
<1>3. ASSUME IInv, TicketInv, NEW t \in DOMAIN db.ticket, ~OutOfOrder(TicketKinds)
      PROVE  db.ticket[t] = IF StoredAbout("TicketDeleted", t) # {}
                            THEN [value |-> 0, destroyed |-> TRUE]
                            ELSE [value |-> history[Last(Valued(t))].value, destroyed |-> FALSE]
  <2>1. StoredAbout("TicketDeleted", t) = Of("TicketDeleted", t) /\ Valued(t) \subseteq Nat
    BY <1>3, StoredOf DEF Valued
  <2>2. CASE Of("TicketDeleted", t) # {}
    BY <1>3, <2>1, <2>2 DEF TicketInv
  <2>3. CASE Of("TicketDeleted", t) = {}
    <3>1. PICK i \in Valued(t) : /\ LastOf(i, Valued(t))
                                 /\ db.ticket[t] = [value |-> history[i].value, destroyed |-> FALSE]
      BY <1>3, <2>3 DEF TicketInv
    <3>2. Last(Valued(t)) = i
      BY <2>1, <3>1, LastIs
    <3>3. QED
      BY <2>1, <2>3, <3>1, <3>2
  <2>4. QED
    BY <2>2, <2>3
<1>4. IInv /\ TicketInv => TicketsFollowChain
  <2> SUFFICES ASSUME IInv, TicketInv PROVE TicketsFollowChain
    OBVIOUS
  <2>1. \A t : Valued(t) = StoredAbout("TicketCreated", t) \cup StoredAbout("TicketUpdated", t)
    BY StoredOf DEF Valued
  <2>2. QED
    BY <1>3, <2>1 DEF TicketsFollowChain, TicketKinds
<1>5. QED
  BY <1>1, <1>2, <1>4, PTL DEF Spec

-----------------------------------------------------------------------------
(* Balances.  The sum of a holder's transfers is a recursive function over *)
(* the places of the history.  That there is one, and what it does when a  *)
(* summand changes, follows from the least number for which it would not.  *)

LEMMA NatOrder ==
    \E R : IsWellFoundedOn(R, Nat) /\ \A x, y \in Nat : <<y, x>> \in R <=> y < x
<1>1. IsWellFoundedOn({ss \in Nat \X Nat : ss[1] < ss[2]}, Nat)
  BY NatLessThanWellFounded DEF OpToRel
<1>2. \A x, y \in Nat : <<y, x>> \in {ss \in Nat \X Nat : ss[1] < ss[2]} <=> y < x
  OBVIOUS
<1>3. QED
  BY <1>1, <1>2

LEMMA LeastNatural ==
    ASSUME NEW T \in SUBSET Nat, T # {}
    PROVE  \E x \in T : \A y \in T : x <= y
<1>1. PICK R : IsWellFoundedOn(R, Nat) /\ \A x, y \in Nat : <<y, x>> \in R <=> y < x
  BY NatOrder
<1>2. PICK x \in T : \A y \in T : ~ (<<y, x>> \in R)
  BY <1>1, WFMin
<1>3. \A y \in T : ~ (y < x)
  <2>1. \A m, n \in Nat : <<n, m>> \in R <=> n < m
    BY <1>1
  <2>2. QED
    BY <1>2, <2>1
<1>4. QED
  BY <1>3

\* A set of numbers that goes on with each of its own holds all from 0.
LEMMA Counting ==
    ASSUME NEW S, 0 \in S, \A n \in Nat : n \in S => n + 1 \in S
    PROVE  Nat \subseteq S
<1> SUFFICES ASSUME Nat \ S # {} PROVE FALSE
  OBVIOUS
<1>1. PICK x \in Nat \ S : \A y \in Nat \ S : x <= y
  BY LeastNatural
<1>2. x # 0 /\ x - 1 \in Nat
  BY <1>1
<1>3. x - 1 \in S
  BY <1>1, <1>2
<1>4. (x - 1) + 1 \in S
  BY <1>2, <1>3
<1>5. QED
  BY <1>1, <1>4

\* f adds up the numbers of T.
Sums(f, T) == f = [n \in Nat |-> IF n = 0 THEN 0 ELSE f[n - 1] + T[n]]

LEMMA SumStep ==
    ASSUME NEW f, NEW T \in [Nat -> Int], Sums(f, T)
    PROVE  f \in [Nat -> Int] /\ f[0] = 0 /\ \A n \in Nat : f[n + 1] = f[n] + T[n + 1]
<1>1. DOMAIN f = Nat /\ f = [n \in Nat |-> f[n]]
  BY DEF Sums
<1>2. f[0] = 0 /\ \A n \in Nat : f[n + 1] = f[n] + T[n + 1]
  <2>1. ASSUME NEW n \in Nat
        PROVE  f[n] = IF n = 0 THEN 0 ELSE f[n - 1] + T[n]
    <3> DEFINE F == [k \in Nat |-> IF k = 0 THEN 0 ELSE f[k - 1] + T[k]]
    <3>1. F[n] = IF n = 0 THEN 0 ELSE f[n - 1] + T[n]
      OBVIOUS
    <3>2. f = F
      BY DEF Sums
    <3> HIDE DEF F
    <3>3. QED
      BY <3>1, <3>2
  <2>2. ASSUME NEW n \in Nat
        PROVE  f[n + 1] = f[n] + T[n + 1]
    <3>1. f[n + 1] = f[(n + 1) - 1] + T[n + 1]
      BY <2>1
    <3>2. (n + 1) - 1 = n
      OBVIOUS
    <3>3. QED
      BY <3>1, <3>2
  <2>3. QED
    BY <2>1, <2>2
<1>3. \A n \in Nat : f[n] \in Int
  <2> DEFINE S == { n \in Nat : f[n] \in Int }
  <2>1. 0 \in S
    BY <1>2
  <2>2. ASSUME NEW n \in Nat, n \in S
        PROVE  n + 1 \in S
    BY <1>2, <2>2
  <2>3. Nat \subseteq S
    <3> HIDE DEF S
    <3>1. QED
      BY <2>1, <2>2, Counting
  <2>4. QED
    BY <2>3
<1>4. QED
  BY <1>1, <1>2, <1>3

\* The first n sums.
Part(g, T, n) ==
    /\ g \in [0 .. n -> Int] /\ g[0] = 0
    /\ \A k \in 1 .. n : g[k] = g[k - 1] + T[k]

LEMMA PartExists ==
    ASSUME NEW T \in [Nat -> Int]
    PROVE  \A n \in Nat : \E g : Part(g, T, n)
<1> DEFINE S == { n \in Nat : \E g : Part(g, T, n) }
<1>1. 0 \in S
  <2>1. Part([k \in 0 .. 0 |-> 0], T, 0)
    BY DEF Part
  <2>2. QED
    BY <2>1
<1>2. ASSUME NEW n \in Nat, n \in S
      PROVE  n + 1 \in S
  <2>1. PICK g : Part(g, T, n)
    BY <1>2
  <2> DEFINE h == [k \in 0 .. n + 1 |-> IF k = n + 1 THEN g[n] + T[n + 1] ELSE g[k]]
  <2>2. h \in [0 .. n + 1 -> Int] /\ h[0] = 0 /\ h[n + 1] = g[n] + T[n + 1]
    BY <2>1 DEF Part
  <2>3. \A k \in 0 .. n : h[k] = g[k]
    OBVIOUS
  <2> HIDE DEF h
  <2>4. ASSUME NEW k \in 1 .. n + 1
        PROVE  h[k] = h[k - 1] + T[k]
    <3>1. CASE k = n + 1
      <4>1. k - 1 = n /\ h[n] = g[n]
        BY <2>3, <3>1
      <4>2. QED
        BY <2>2, <3>1, <4>1
    <3>2. CASE k # n + 1
      <4>1. k \in 1 .. n /\ k \in 0 .. n /\ k - 1 \in 0 .. n
        BY <3>2
      <4>2. QED
        BY <2>1, <2>3, <4>1 DEF Part
    <3>3. QED
      BY <3>1, <3>2
  <2>5. Part(h, T, n + 1)
    BY <2>2, <2>4 DEF Part
  <2>6. QED
    BY <2>5
<1>3. Nat \subseteq S
  <2> HIDE DEF S
  <2>1. QED
    BY <1>1, <1>2, Counting
<1>4. QED
  BY <1>3

LEMMA PartsAgree ==
    ASSUME NEW T \in [Nat -> Int], NEW m \in Nat, NEW n \in Nat, m <= n,
           NEW g, NEW h, Part(g, T, m), Part(h, T, n)
    PROVE  \A k \in 0 .. m : g[k] = h[k]
<1> DEFINE S == { k \in Nat : k <= m => g[k] = h[k] }
<1>1. 0 \in S
  BY DEF Part
<1>2. ASSUME NEW k \in Nat, k \in S
      PROVE  k + 1 \in S
  <2>1. SUFFICES ASSUME k + 1 <= m PROVE g[k + 1] = h[k + 1]
    OBVIOUS
  <2>2. k + 1 \in 1 .. m /\ k + 1 \in 1 .. n /\ (k + 1) - 1 = k /\ k <= m
    BY <2>1
  <2>3. g[k + 1] = g[(k + 1) - 1] + T[k + 1] /\ h[k + 1] = h[(k + 1) - 1] + T[k + 1]
    BY <2>2 DEF Part
  <2>4. QED
    BY <1>2, <2>2, <2>3
<1>3. Nat \subseteq S
  <2> HIDE DEF S
  <2>1. QED
    BY <1>1, <1>2, Counting
<1>4. QED
  BY <1>3

LEMMA SumExists ==
    ASSUME NEW T \in [Nat -> Int]
    PROVE  \E f : Sums(f, T)
<1> DEFINE part == [n \in Nat |-> CHOOSE g : Part(g, T, n)]
           f == [n \in Nat |-> part[n][n]]
<1>1. \A n \in Nat : Part(part[n], T, n)
  BY PartExists
<1> HIDE DEF part
<1>2. ASSUME NEW n \in Nat
      PROVE  f[n] = IF n = 0 THEN 0 ELSE f[n - 1] + T[n]
  <2>1. CASE n = 0
    BY <1>1, <2>1 DEF Part
  <2>2. CASE n # 0
    <3>1. n - 1 \in Nat /\ n - 1 <= n /\ n - 1 \in 0 .. n - 1 /\ n \in 1 .. n
      BY <2>2
    <3>2. part[n - 1][n - 1] = part[n][n - 1]
      BY <1>1, <3>1, PartsAgree
    <3>3. part[n][n] = part[n][n - 1] + T[n]
      BY <1>1, <3>1 DEF Part
    <3>4. QED
      BY <2>2, <3>1, <3>2, <3>3
  <2>3. QED
    BY <2>1, <2>2
<1>3. f = [n \in Nat |-> IF n = 0 THEN 0 ELSE f[n - 1] + T[n]]
  BY <1>2
<1>4. QED
  BY <1>3 DEF Sums

\* A summand more or less.
LEMMA SumChanged ==
    ASSUME NEW T \in [Nat -> Int], NEW U \in [Nat -> Int], NEW f, NEW g, Sums(f, T), Sums(g, U),
           NEW m \in Nat \ {0}, NEW d \in Int,
           U[m] = T[m] + d, \A k \in Nat \ {m} : U[k] = T[k]
    PROVE  \A n \in Nat : g[n] = f[n] + (IF n >= m THEN d ELSE 0)
<1>1. /\ f \in [Nat -> Int] /\ f[0] = 0 /\ \A n \in Nat : f[n + 1] = f[n] + T[n + 1]
      /\ g \in [Nat -> Int] /\ g[0] = 0 /\ \A n \in Nat : g[n + 1] = g[n] + U[n + 1]
  BY SumStep
<1> DEFINE S == { n \in Nat : g[n] = f[n] + (IF n >= m THEN d ELSE 0) }
<1>2. 0 \in S
  BY <1>1
<1>3. ASSUME NEW n \in Nat, n \in S
      PROVE  n + 1 \in S
  <2>1. /\ g[n + 1] = g[n] + U[n + 1] /\ f[n + 1] = f[n] + T[n + 1]
        /\ g[n] = f[n] + (IF n >= m THEN d ELSE 0)
        /\ f[n] \in Int /\ T[n + 1] \in Int /\ f[n + 1] \in Int
    BY <1>1, <1>3
  <2>2. CASE n + 1 = m
    <3>1. U[n + 1] = T[n + 1] + d /\ ~ (n >= m) /\ n + 1 >= m
      BY <2>2
    <3>2. QED
      BY <2>1, <3>1
  <2>3. CASE n + 1 # m
    <3>1. U[n + 1] = T[n + 1] /\ (n + 1 >= m <=> n >= m)
      BY <2>3
    <3>2. QED
      BY <2>1, <3>1
  <2>4. QED
    BY <2>2, <2>3
<1>4. Nat \subseteq S
  <2> HIDE DEF S
  <2>1. QED
    BY <1>2, <1>3, Counting
<1>5. QED
  BY <1>4

LEMMA SumUnique ==
    ASSUME NEW T \in [Nat -> Int], NEW f, NEW g, Sums(f, T), Sums(g, T)
    PROVE  f = g
<1>1. \A n \in Nat : g[n] = f[n] + (IF n >= 1 THEN 0 ELSE 0)
  BY SumChanged
<1>2. f \in [Nat -> Int] /\ g \in [Nat -> Int]
  BY SumStep
<1>3. \A n \in Nat : g[n] = f[n]
  BY <1>1, <1>2
<1>4. QED
  BY <1>2, <1>3

\* What each of the events brings a holder, if it is stored.
Credit(h) == [n \in Nat |-> IF n \in stored \cap Emitted("Transfer") THEN Move(h, n) ELSE 0]
Val(b, h) == IF h \in DOMAIN b THEN b[h] ELSE 0

BalanceInv == db.balance \in [DOMAIN db.balance -> Int] /\ BalancesExact

LEMMA MoveInt ==
    ASSUME IInv, NEW n \in Emitted("Transfer"), NEW h
    PROVE  n \in Places /\ history[n].value \in Nat /\ Move(h, n) \in Int
<1>1. n \in Places /\ history[n] \in EventRecord /\ history[n].kind = "Transfer"
  BY DEF IInv, BaseInv, HistoryInv, Emitted, Places
<1>2. history[n].value \in Nat
  BY <1>1 DEF EventRecord
<1>3. QED
  BY <1>1, <1>2 DEF Move

CreditsSummed == \A h : Credit(h) \in [Nat -> Int] /\ Sums(Brought(h), Credit(h))

LEMMA BroughtSums == IInv => CreditsSummed
<1> SUFFICES ASSUME IInv, NEW h
             PROVE  Credit(h) \in [Nat -> Int] /\ Sums(Brought(h), Credit(h))
  BY DEF CreditsSummed
<1>1. Credit(h) \in [Nat -> Int]
  BY MoveInt DEF Credit
<1>2. PICK f : Sums(f, Credit(h))
  BY <1>1, SumExists
<1>3. \A g : Sums(g, Credit(h)) <=>
          g = [n \in Nat |-> IF n = 0 THEN 0
                             ELSE g[n - 1] + (IF n \in stored \cap Emitted("Transfer")
                                              THEN Move(h, n) ELSE 0)]
  BY DEF Sums, Credit
<1>4. QED
  BY <1>1, <1>2, <1>3 DEF Brought

LEMMA InitBalances == Init => BalanceInv
<1> SUFFICES ASSUME Init PROVE BalanceInv
  OBVIOUS
<1>1. IInv /\ db.balance = <<>>
  BY Initially DEF Init
<1>2. \A n \in stored : n \notin Emitted("Transfer")
  <2>1. \A i \in Places : Kind(i) # "Transfer"
    <3>1. history = scenario.legacy /\ Legacy = Places
      BY DEF Init, Legacy, Places
    <3>2. QED
      BY <1>1, <3>1 DEF IInv, BaseInv, HistoryInv
  <2>2. stored \subseteq Places
    BY <1>1 DEF IInv, BaseInv, PassInv
  <2>3. QED
    BY <2>1, <2>2 DEF Emitted, Kind
<1>3. ASSUME NEW h
      PROVE  Brought(h)[Len(history)] = 0
  <2>1. /\ Brought(h)[0] = 0
        /\ \A n \in Nat : Brought(h)[n + 1] = Brought(h)[n] + Credit(h)[n + 1]
    BY <1>1, BroughtSums, SumStep DEF CreditsSummed
  <2>2. \A n \in Nat : Credit(h)[n] = 0
    BY <1>2 DEF Credit
  <2> DEFINE S == { n \in Nat : Brought(h)[n] = 0 }
  <2>3. 0 \in S
    BY <2>1
  <2>4. ASSUME NEW n \in Nat, n \in S
        PROVE  n + 1 \in S
    BY <2>1, <2>2, <2>4
  <2>5. Nat \subseteq S
    <3> HIDE DEF S
    <3>1. QED
      BY <2>3, <2>4, Counting
  <2>6. Len(history) \in Nat
    BY <1>1 DEF IInv, BaseInv, HistoryInv
  <2>7. QED
    BY <2>5, <2>6
<1>4. QED
  BY <1>1, <1>3 DEF BalanceInv, BalancesExact

\* A step that changes no balance and stores no transfer, whether or not it
\* makes the history longer.
LEMMA BalancesKept ==
    ASSUME IInv, IInv', BalanceInv, db'.balance = db.balance,
           Len(history') = Len(history) \/ Len(history') = Len(history) + 1,
           \A i \in Places : history'[i] = history[i],
           stored' \cap Emitted("Transfer")' = stored \cap Emitted("Transfer")
    PROVE  BalanceInv'
<1>1. /\ \A n \in stored \cap Emitted("Transfer") : n \in Places
      /\ stored \subseteq Places /\ Len(history) \in Nat
  BY MoveInt DEF IInv, BaseInv, HistoryInv, PassInv
<1>2. ASSUME NEW h \in Holder
      PROVE  Brought(h)'[Len(history')] = Brought(h)[Len(history)]
  <2>1. Credit(h)' = Credit(h)
    BY <1>1 DEF Credit, Move
  <2>2. Credit(h) \in [Nat -> Int] /\ Sums(Brought(h), Credit(h))
    BY BroughtSums DEF CreditsSummed
  <2>3. Sums(Brought(h)', Credit(h)')
    <3>1. (IInv => CreditsSummed)'
      BY BroughtSums, PTL
    <3>2. QED
      BY <3>1 DEF CreditsSummed, Sums
  <2>4. Brought(h)' = Brought(h)
    BY <2>1, <2>2, <2>3, SumUnique
  <2>5. Len(history) + 1 \notin stored
    BY <1>1 DEF Places
  <2>6. Brought(h)[Len(history) + 1] = Brought(h)[Len(history)]
    <3>1. Brought(h)[Len(history)] \in Int
          /\ Brought(h)[Len(history) + 1] = Brought(h)[Len(history)] + Credit(h)[Len(history) + 1]
      BY <1>1, <2>2, SumStep
    <3>2. Credit(h)[Len(history) + 1] = 0
      BY <1>1, <2>5 DEF Credit
    <3>3. QED
      BY <3>1, <3>2
  <2>7. QED
    BY <2>4, <2>6
<1>3. QED
  BY <1>2 DEF BalanceInv, BalancesExact

LEMMA ChangedBalance ==
    ASSUME NEW b, b \in [DOMAIN b -> Int], NEW x, NEW d \in Int
    PROVE  LET c == ChangeTokenBalance(b, x, d)
           IN /\ c \in [DOMAIN c -> Int]
              /\ \A h : Val(c, h) = Val(b, h) + (IF h = x THEN d ELSE 0)
<1> DEFINE c == ChangeTokenBalance(b, x, d)
           v == (IF x \in DOMAIN b THEN b[x] ELSE 0) + d
<1>1. v \in Int /\ v = Val(b, x) + d
  BY DEF Val
<1> HIDE DEF v
<1>2. c = [y \in DOMAIN b \cup {x} |-> IF y = x THEN v ELSE b[y]]
  BY DEF ChangeTokenBalance, Put, v
<1> HIDE DEF c
<1>3. /\ DOMAIN c = DOMAIN b \cup {x} /\ c[x] = v
      /\ \A h \in DOMAIN b : h # x => c[h] = b[h]
  BY <1>2
<1>4. c \in [DOMAIN c -> Int]
  BY <1>1, <1>2
<1>5. ASSUME NEW h
      PROVE  Val(c, h) = Val(b, h) + (IF h = x THEN d ELSE 0)
  <2>1. CASE h = x
    BY <1>1, <1>3, <2>1 DEF Val
  <2>2. CASE h # x
    <3>1. Val(c, h) = Val(b, h) /\ Val(b, h) \in Int
      BY <1>3, <2>2 DEF Val
    <3>2. QED
      BY <2>2, <3>1
  <2>3. QED
    BY <2>1, <2>2
<1>6. QED
  BY <1>4, <1>5 DEF c

\* A stored transfer is counted once for each of its two sides.
LEMMA TransferStored ==
    ASSUME IInv, IInv', BalanceInv, NEW p \in Pass, StoreEvent(p), NEW n, n = Next1(p),
           Kind(n) = "Transfer"
    PROVE  BalanceInv'
<1> DEFINE e == history[n]
           b == ChangeTokenBalance(db.balance, e.to, e.value)
           c == ChangeTokenBalance(b, e.from, -e.value)
<1>1. /\ n \in Places /\ n \notin stored /\ Handle(n) /\ e.kind = "Transfer"
      /\ stored' = stored \cup {n} /\ history' = history /\ DOMAIN db = Fields
      /\ Places \subseteq Nat
  BY StoredEvent DEF Kind
<1>2. /\ DOMAIN history = Places /\ Len(history) \in Nat /\ n \in Nat \ {0}
      /\ n \in Emitted("Transfer")
  BY <1>1 DEF IInv, BaseInv, HistoryInv, Places, Emitted
<1>3. e.value \in Nat /\ -e.value \in Int
  BY <1>2, MoveInt
<1>4. db'.balance = c
  <2>1. TransferTokens(e)
    BY <1>1 DEF Handle, CreateRequest, Resolve, CreateTicket, UpdateTicket, DeleteTicket,
                ChangeSetting, StorePoolEvent
  <2>2. QED
    BY <1>1, <2>1 DEF TransferTokens, Fields
<1> HIDE DEF e
<1>5. /\ b \in [DOMAIN b -> Int]
      /\ \A h : Val(b, h) = Val(db.balance, h) + (IF h = e.to THEN e.value ELSE 0)
  BY <1>3, ChangedBalance DEF BalanceInv
<1> HIDE DEF b
<1>6. /\ c \in [DOMAIN c -> Int]
      /\ \A h : Val(c, h) = Val(b, h) + (IF h = e.from THEN -e.value ELSE 0)
  BY <1>3, <1>5, ChangedBalance
<1> HIDE DEF c
<1>7. ASSUME NEW h \in Holder
      PROVE  Val(db'.balance, h) = Brought(h)'[Len(history')]
  <2>1. Val(c, h) = Val(db.balance, h) + Move(h, n) /\ Move(h, n) \in Int
    <3>1. Val(db.balance, h) \in Int
      BY DEF BalanceInv, Val
    <3>2. Move(h, n) = (IF h = e.to THEN e.value ELSE 0) - (IF h = e.from THEN e.value ELSE 0)
      BY DEF Move, e
    <3>3. Val(c, h) = Val(db.balance, h) + (IF h = e.to THEN e.value ELSE 0)
                                         + (IF h = e.from THEN -e.value ELSE 0)
      BY <1>5, <1>6
    <3>4. QED
      BY <1>3, <3>1, <3>2, <3>3
  <2>2. Credit(h) \in [Nat -> Int] /\ Sums(Brought(h), Credit(h))
    BY BroughtSums DEF CreditsSummed
  <2>3. Credit(h)' \in [Nat -> Int] /\ Sums(Brought(h)', Credit(h)')
    <3>1. (IInv => CreditsSummed)'
      BY BroughtSums, PTL
    <3>2. QED
      BY <3>1 DEF CreditsSummed, Sums
  <2>4. Emitted("Transfer")' = Emitted("Transfer") /\ Move(h, n)' = Move(h, n)
        /\ \A i : Move(h, i)' = Move(h, i)
    BY <1>1 DEF Emitted, Move
  <2>5. Credit(h)'[n] = Credit(h)[n] + Move(h, n)
    BY <1>1, <1>2, <2>1, <2>4 DEF Credit
  <2>6. \A k \in Nat \ {n} : Credit(h)'[k] = Credit(h)[k]
    BY <1>1, <2>4 DEF Credit
  <2>7. \A k \in Nat : Brought(h)'[k] = Brought(h)[k] + (IF k >= n THEN Move(h, n) ELSE 0)
    <3> DEFINE T == Credit(h)
               U == Credit(h)'
               f == Brought(h)
               g == Brought(h)'
    <3>1. /\ T \in [Nat -> Int] /\ U \in [Nat -> Int] /\ Sums(f, T) /\ Sums(g, U)
          /\ n \in Nat \ {0} /\ Move(h, n) \in Int
          /\ U[n] = T[n] + Move(h, n) /\ \A k \in Nat \ {n} : U[k] = T[k]
      BY <1>2, <2>1, <2>2, <2>3, <2>5, <2>6
    <3> HIDE DEF T, U, f, g
    <3>2. \A k \in Nat : g[k] = f[k] + (IF k >= n THEN Move(h, n) ELSE 0)
      BY <3>1, SumChanged
    <3>3. QED
      BY <3>2 DEF f, g
  <2>8. Len(history) >= n
    BY <1>1, <1>2 DEF Places
  <2>9. Val(db.balance, h) = Brought(h)[Len(history)]
    BY DEF BalanceInv, BalancesExact, Val
  <2>10. QED
    BY <1>1, <1>2, <1>4, <2>1, <2>7, <2>8, <2>9
<1>8. QED
  BY <1>4, <1>6, <1>7 DEF BalanceInv, BalancesExact, Val

LEMMA BalancePreserved ==
    ASSUME IInv, BalanceInv, [Next]_vars
    PROVE  BalanceInv'
<1>0. IInv' /\ Len(history) \in Nat /\ DOMAIN history = Places /\ DOMAIN db = Fields
  BY Preserved DEF IInv, BaseInv, HistoryInv, ShapeInv, Places
<1>1. CASE Emit
  <2>1. PICK e \in Event : history' = Append(history, e)
    BY <1>1 DEF Emit
  <2>2. stored' = stored /\ db' = db /\ e \in EventRecord /\ history \in Seq(EventRecord)
    BY <1>1, EmittedEvents DEF Emit, IInv, BaseInv, HistoryInv
  <2>3. /\ Len(history') = Len(history) + 1 /\ DOMAIN history' = 1 .. Len(history) + 1
        /\ \A i \in Places : history'[i] = history[i]
    BY <2>1, <2>2, AppendProperties DEF Places
  <2>4. stored' \cap Emitted("Transfer")' = stored \cap Emitted("Transfer")
    <3>1. stored \subseteq Places /\ Places \subseteq DOMAIN history'
      BY <1>0, <2>3 DEF IInv, BaseInv, PassInv, Places
    <3>2. QED
      BY <1>0, <2>2, <2>3, <3>1 DEF Emitted
  <2>5. QED
    BY <1>0, <2>2, <2>3, <2>4, BalancesKept
<1>2. ASSUME history' = history, stored' = stored, db'.balance = db.balance
      PROVE  BalanceInv'
  <2>1. stored' \cap Emitted("Transfer")' = stored \cap Emitted("Transfer")
    BY <1>2 DEF Emitted
  <2>2. QED
    BY <1>0, <1>2, <2>1, BalancesKept
<1>3. CASE Start \/ StartUpdate \/ Restart
  <2>1. history' = history /\ stored' = stored /\ db' = EnsureData(db)
    BY <1>3 DEF Start, StartUpdate, Restart, BootAs
  <2>2. db'.balance = db.balance
    BY <1>0, <2>1 DEF EnsureData, Fields
  <2>3. QED
    BY <1>2, <2>1, <2>2
<1>4. CASE Switch \/ \E p \in Pass : SkipEvent(p) \/ RejectEvent(p) \/ CommitPointer(p) \/ Fail(p)
  BY <1>2, <1>4 DEF Switch, SkipEvent, Done, RejectEvent, CommitPointer, Fail
<1>5. ASSUME NEW p \in Pass, StoreEvent(p)
      PROVE  BalanceInv'
  <2>1. PICK n : n = Next1(p)
    OBVIOUS
  <2>2. CASE Kind(n) = "Transfer"
    BY <1>0, <1>5, <2>1, <2>2, TransferStored
  <2>3. CASE Kind(n) # "Transfer"
    <3>1. Handle(n) /\ stored' = stored \cup {n} /\ history' = history
      BY <1>5, <2>1, StoredEvent
    <3>2. Kind(n) \in Kinds /\ \A f \in Fields \ {Table(Kind(n))} : db'[f] = db[f]
      BY <1>0, <3>1, OneTable
    <3>3. Table(Kind(n)) # "balance"
      BY <2>3, <3>2 DEF Table, TicketKinds, Kinds
    <3>4. db'.balance = db.balance
      BY <3>2, <3>3 DEF Fields
    <3>5. stored' \cap Emitted("Transfer")' = stored \cap Emitted("Transfer")
      BY <2>3, <3>1 DEF Emitted, Kind
    <3>6. QED
      BY <1>0, <3>1, <3>4, <3>5, BalancesKept
  <2>4. QED
    BY <2>2, <2>3
<1>6. ASSUME NEW i \in toMigrate, MigratePoolEvent(i)
      PROVE  BalanceInv'
  <2>1. /\ history' = history /\ stored' = stored
        /\ db' = [db EXCEPT !.newPool = @ \cup {i}, !.oldPool = @ \ {i}]
    BY <1>6 DEF MigratePoolEvent
  <2>2. db'.balance = db.balance
    BY <1>0, <2>1 DEF Fields
  <2>3. QED
    BY <1>2, <2>1, <2>2
<1>7. CASE AddResolutions
  <2>1. /\ history' = history /\ stored' = stored
        /\ \E v : db' = [db EXCEPT !.resolution = v]
    BY <1>7 DEF AddResolutions
  <2>2. db'.balance = db.balance
    BY <1>0, <2>1 DEF Fields
  <2>3. QED
    BY <1>2, <2>1, <2>2
<1>8. CASE UNCHANGED vars
  BY <1>2, <1>8 DEF vars
<1>9. CASE Idle
  BY <1>8, <1>9 DEF Idle
<1>10. QED
  BY <1>1, <1>3, <1>4, <1>5, <1>6, <1>7, <1>8, <1>9 DEF Next, Run

\* A holder's balance is the sum of the stored transfers, each counted once
\* with both its sides, whatever is replayed and whichever pass stores them:
\* changeTokenBalance, in the transaction of its event.
THEOREM BalancesSumUp == Spec => []BalancesExact
<1>1. Init => IInv /\ BalanceInv
  BY Initially, InitBalances
<1>2. IInv /\ BalanceInv /\ [Next]_vars => (IInv /\ BalanceInv)'
  BY Preserved, BalancePreserved
<1>3. BalanceInv => BalancesExact
  BY DEF BalanceInv
<1>4. QED
  BY <1>1, <1>2, <1>3, PTL DEF Spec
=============================================================================
