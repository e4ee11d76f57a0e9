--------------------------- MODULE MCDrmDisplay ---------------------------
(* The instance of DrmDisplay for TLC: threads, requests and areas are told *)
(* apart only by being equal or not.                                        *)
EXTENDS DrmDisplay, TLC

Symmetric == Permutations(Threads) \cup Permutations(Reqs) \cup Permutations(Areas)
=============================================================================
