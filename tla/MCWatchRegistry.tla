--------------------------- MODULE MCWatchRegistry ---------------------------
(* Two threads and the dispatcher; a watch root covers two directories.    *)
EXTENDS WatchRegistry, TLC

CONSTANTS d1, d2, d3, root, single

TwoDirs   == (d1 :> root) @@ (d2 :> single)
ThreeDirs == (d1 :> root) @@ (d2 :> root) @@ (d3 :> single)

CallersAlike == Permutations(Callers)
=============================================================================
