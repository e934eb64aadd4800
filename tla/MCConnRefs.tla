----------------------------- MODULE MCConnRefs -----------------------------
(***************************************************************************)
(* ConnRefs for TLC: the threads of the pool are interchangeable.          *)
(***************************************************************************)
EXTENDS ConnRefs, TLC

WorkerSymmetry == Permutations(Worker)
=============================================================================
