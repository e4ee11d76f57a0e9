----------------------------- MODULE MCGemBuffers -----------------------------
(* The instance of GemBuffers for TLC: threads, objects and mappings are told *)
(* apart only by being equal or not.                                          *)
EXTENDS GemBuffers

Symmetric == Permutations(Threads) \cup Permutations(Objects) \cup Permutations(Vmas)
=============================================================================
