------------------------------- MODULE MCCpu -------------------------------
(***************************************************************************)
(* Cpu for TLC: two interrupt sources, both raised by hardware at any      *)
(* tick; a handful of addresses; Long instructions of up to four M-cycles. *)
(***************************************************************************)
EXTENDS Cpu
=============================================================================
