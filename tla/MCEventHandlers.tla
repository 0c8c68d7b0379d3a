---------------------------- MODULE MCEventHandlers ----------------------------
(***************************************************************************)
(* Instances of EventHandlers for TLC: every event any list selects; the   *)
(* three lists of configs/ as they are, and the updates from one to a      *)
(* longer one.                                                             *)
(***************************************************************************)
EXTENDS EventHandlers

AllTargets == Handled

As(type, old, new) == [type |-> type, old |-> old, new |-> new]
ShippedUpdates ==
    << As("none", Everything, Everything), As("none", Explorer, Explorer),
       As("none", Dashboard, Dashboard),
       As("race", Dashboard, Explorer), As("race", Dashboard, Everything),
       As("race", Explorer, Everything),
       As("back", Dashboard, Explorer), As("back", Dashboard, Everything),
       As("back", Explorer, Everything) >>

ASSUME ClosedAssumption == ListsClosed
=============================================================================
