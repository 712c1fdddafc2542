------------------------------- MODULE MCPpu -------------------------------
(***************************************************************************)
(* Ppu for TLC: short lines and few of them, with every boundary of ppu.c  *)
(* (end of mode 2, end of mode 3 with and without fine scroll and object   *)
(* penalty, the reported tail, line and frame end) on or off the grid of   *)
(* four dots as in the source.                                             *)
(***************************************************************************)
EXTENDS Ppu
=============================================================================
