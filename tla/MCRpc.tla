------------------------------- MODULE MCRpc --------------------------------
(***************************************************************************)
(* Instances of RpcSystem for TLC, and the faulty variants of its actions  *)
(* that the properties must tell from the code.                            *)
(***************************************************************************)
EXTENDS RpcSystem, TLC

WorkerSymmetry == Permutations(Worker)
=============================================================================
