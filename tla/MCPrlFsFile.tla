----------------------------- MODULE MCPrlFsFile -----------------------------
(* The instance of PrlFsFile for TLC: processes are told apart only by being  *)
(* equal or not.                                                              *)
EXTENDS PrlFsFile, TLC

Symmetric == Permutations(Procs)
=============================================================================
