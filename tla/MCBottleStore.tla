--------------------------- MODULE MCBottleStore ---------------------------
(***************************************************************************)
(* Instances of BottleStore for TLC: one formula, whose bottle the index   *)
(* may replace by a rebuilt one.                                           *)
(***************************************************************************)
EXTENDS BottleStore

CONSTANT jq

MCOwner == [s \in Sha |-> jq]
=============================================================================
