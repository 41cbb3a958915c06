-------------------------- MODULE MCRuntimeManager --------------------------
(***************************************************************************)
(* Instances of RuntimeManager for TLC.                                    *)
(***************************************************************************)
EXTENDS RuntimeManager

\* Version 4 is on another compatibility line than 1, 2 and 3.
MCLine == [v \in 1 .. Newest |-> IF v = 4 THEN 2 ELSE 1]

\* Two versions that are installed automatically and one that needs approval.
MCAdvisories ==
    {[version |-> 2, policy |-> "COMPATIBLE", security |-> FALSE],
     [version |-> 3, policy |-> "SECURITY", security |-> TRUE],
     [version |-> 4, policy |-> "COMPATIBLE", security |-> FALSE]}
=============================================================================
