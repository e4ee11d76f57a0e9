---------------------------- MODULE MCPrlFsNames ----------------------------
(* The instance of PrlFsNames for TLC: threads, names, dentries and files    *)
(* are told apart only by being equal or not.                                *)
EXTENDS PrlFsNames, TLC

Symmetric == Permutations(Threads) \cup Permutations(Names)
             \cup Permutations(Dentries) \cup Permutations(Files)
=============================================================================
