--------------------------- MODULE MCEventStorer ---------------------------
(***************************************************************************)
(* Instances of EventStorer for TLC: for each kind of row one object, its  *)
(* events indexed by one pass, by a race and by a back update that adds    *)
(* them; and a database with a request and pool events of an old version.  *)
(***************************************************************************)
EXTENDS EventStorer

CONSTANTS redemption, ticketId, alice, bob

Play(kinds, type) == [legacy |-> <<>>, kinds |-> kinds, type |-> type,
                      diff |-> IF type = "none" THEN {} ELSE kinds]

Tickets == {"TicketCreated", "TicketUpdated", "TicketDeleted"}

OldRows ==
    << [kind |-> "Requested", id |-> redemption],
       [kind |-> "Resolved", id |-> redemption, outcome |-> "FAILED"],
       [kind |-> "PoolEvent"], [kind |-> "PoolEvent"] >>

Plays ==
    { Play(kinds, type) : type \in {"none", "race", "back"},
          kinds \in {Tickets, {"Transfer"}, {"SettingChanged"}, {"Requested", "Resolved"}} }
    \cup { [Play({"Requested", "Resolved"}, type) EXCEPT !.diff = {"Resolved"}] :
           type \in {"race", "back"} }
    \cup { [Play({"Requested", "Resolved", "PoolEvent"}, "back")
               EXCEPT !.diff = {"Requested", "Resolved"}] }
    \cup { [Play({"Resolved", "PoolEvent"}, "none") EXCEPT !.legacy = SubSeq(OldRows, n, 4)] :
           n \in {1, 3} }

SomeTransfers == { [from |-> alice, to |-> bob, value |-> 1],
                   [from |-> bob, to |-> bob, value |-> 2] }
ResolutionOrder == <<"PERFORMED", "FAILED">>
=============================================================================
