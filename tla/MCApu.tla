------------------------------- MODULE MCApu -------------------------------
(***************************************************************************)
(* Apu for TLC: a channel with a sweep and one without, lengths of two and *)
(* three, and a divider whose two bits change in every second and every    *)
(* fourth M-cycle.                                                         *)
(***************************************************************************)
EXTENDS Apu

MCLenMax == [c \in {"square", "wave"} |-> IF c = "wave" THEN 3 ELSE 2]
=============================================================================
