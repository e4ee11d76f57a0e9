-------------------------- MODULE MCVtgDrawables --------------------------
(* The instance of VtgDrawables for TLC: threads, files, entries and        *)
(* buffers are told apart only by being equal or not.                       *)
EXTENDS VtgDrawables, TLC

Symmetric ==
  Permutations(Threads) \cup Permutations(Files)
    \cup Permutations(Entries) \cup Permutations(Bufs)
=============================================================================
