----------------------------- MODULE RewindAbs -----------------------------
(***************************************************************************)
(* What the rewind of src/play.c is for: a stack of past machines, of      *)
(* which the oldest are forgotten.                                         *)
(***************************************************************************)
EXTENDS Naturals, Sequences, SequencesExt

CONSTANT Depth        \* REW_SLOTS

VARIABLES cur,        \* the machine, cartridge RAM included
          stack       \* what rewinding goes back to, the last first

New  == stack' = <<>>                              \* another session
Play == stack' = stack                             \* anything else
Keep == stack' = Append(IF Len(stack) = Depth THEN Tail(stack) ELSE stack, cur')
Back == /\ stack # <<>>
        /\ cur' = Last(stack)
        /\ stack' = Front(stack)

Init == stack = <<>>
Next == New \/ Play \/ Keep \/ Back
Spec == Init /\ [][Next]_<<cur, stack>>
=============================================================================
