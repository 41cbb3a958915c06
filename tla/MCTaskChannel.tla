--------------------------- MODULE MCTaskChannel ---------------------------
(***************************************************************************)
(* Instances of TaskChannel for TLC.                                       *)
(***************************************************************************)
EXTENDS TaskChannel

\* One event of each Task is not for this agent; the other one of the second Task has a file.
MCSilent == {<<1, 2>>, <<2, 1>>}
MCFiles == {<<2, 2>>}
=============================================================================
