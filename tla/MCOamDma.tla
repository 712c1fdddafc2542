------------------------------ MODULE MCOamDma ------------------------------
(***************************************************************************)
(* OamDma for TLC: three bytes of OAM, one page on each bus, two values    *)
(* (one of them what a blocked read returns), the delay of the source.     *)
(***************************************************************************)
EXTENDS OamDma
=============================================================================
