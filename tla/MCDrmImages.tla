---------------------------- MODULE MCDrmImages ----------------------------
(* The instance of DrmImages for TLC: files, handles, pbuffers, sizes and   *)
(* formats are told apart only by being equal or not, so each may be        *)
(* permuted.                                                                *)
EXTENDS DrmImages, TLC

Symmetric ==
  Permutations(Files) \cup Permutations(Handles) \cup Permutations(Buffers)
    \cup Permutations(Geos) \cup Permutations(Formats)
=============================================================================
