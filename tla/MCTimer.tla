------------------------------ MODULE MCTimer ------------------------------
(***************************************************************************)
(* Timer for TLC: programs over one longest TIMA period of DIV, with the   *)
(* real bit positions and rates, and a three-valued TIMA.                    *)
(***************************************************************************)
EXTENDS Timer
=============================================================================
