--------------------------- MODULE MCDogeIndexer ---------------------------
(***************************************************************************)
(* Instances of DogeIndexer for TLC: a chain of two possible branches with *)
(* one payment, mined at height 2 on one branch and at height 3 on the     *)
(* other, or with no payment at all.                                       *)
(***************************************************************************)
EXTENDS DogeIndexer

CONSTANTS a, b, payment

PaidOnce(hash) ==
    IF hash \in {<<a, a>>, <<b, a>>, <<a, b, a>>, <<a, b, b>>} THEN {payment} ELSE {}

NoPayment(hash) == {}
=============================================================================
