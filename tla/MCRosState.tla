----------------------------- MODULE MCRosState -----------------------------
(***************************************************************************)
(* Instances of RosState for TLC: the first change adds an entity, the     *)
(* second one exchanges one for another.                                   *)
(***************************************************************************)
EXTENDS RosState

GrowThenExchange == [v \in Versions |-> IF v = 0 THEN 1 ELSE 2]
=============================================================================
