------------------------------- MODULE MCHdma -------------------------------
(***************************************************************************)
(* Hdma for TLC: a VRAM bank of three slots, so that destinations wrap and *)
(* requests of up to three blocks, all there can be, from two source ones. *)
(***************************************************************************)
EXTENDS Hdma
=============================================================================
