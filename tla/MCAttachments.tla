--------------------------- MODULE MCAttachments ----------------------------
(***************************************************************************)
(* Instances of Attachments for TLC.                                       *)
(***************************************************************************)
EXTENDS Attachments, TLC

Symmetry == Permutations(Jobs)
=============================================================================
