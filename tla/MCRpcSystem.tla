--------------------------- MODULE MCRpcSystem ---------------------------
(* Instances of RpcSystem.                                                 *)
EXTENDS RpcSystem, TLC

Interchangeable == Permutations(Connections)
=============================================================================
