-------------------------- MODULE MCWorkroomEvents --------------------------
(***************************************************************************)
(* Instances of WorkroomEvents for TLC.                                    *)
(***************************************************************************)
EXTENDS WorkroomEvents

=============================================================================
