---------------------------- MODULE MCFsFreeze ----------------------------
(* Instances of FsFreeze for TLC: which command lists are written.         *)
EXTENDS FsFreeze

CONSTANTS a, b   \* two mounts

\* Every command, alone, and both orders of two mounts: prl_fs_freeze.c:48
\* asks for the one on top, b, first.
AllScripts ==
  {<<Arm, Freeze(b), Freeze(a)>>, <<Freeze(a), Freeze(b)>>, <<Thaw(a), Bad, Thaw(b)>>, <<All>>}
BOnA == {<<b, a>>}
=============================================================================
