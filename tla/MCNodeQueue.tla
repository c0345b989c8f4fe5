------------------------------ MODULE MCNodeQueue -----------------------------
(* NodeQueue for TLC: two nodes, b is loaded into the container a and is   *)
(* started and stopped with it.                                            *)
EXTENDS NodeQueue

CONSTANTS a, b

Loaded == [n \in Nodes |-> IF n = b THEN {a} ELSE {}]
WithMember == [n \in Nodes |-> IF n = a THEN {b} ELSE {}]
===============================================================================
