------------------------------ MODULE MCPQueue ------------------------------
(***************************************************************************)
(* Instances of PQueue for TLC.  The repository puts with priority 0 (RPC  *)
(* requests and replies) and priority 1 (published messages) only.         *)
(***************************************************************************)
EXTENDS PQueue

UsedPrios == {0, 1}
=============================================================================
