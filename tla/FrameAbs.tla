------------------------------ MODULE FrameAbs ------------------------------
(***************************************************************************)
(* What the rest of the machine sees of a frame: Visible scanlines are     *)
(* rendered, each once and in order, then the vertical blank is requested; *)
(* turning the LCD off abandons the frame.  One step is one M-cycle.       *)
(***************************************************************************)
EXTENDS Integers

CONSTANT Visible      \* scanlines of a frame (144)

VARIABLES lit,        \* the LCD is on
          done,       \* scanlines rendered in this frame
          win,        \* those of them that showed the window
          event       \* what this M-cycle did: "none", "line" or "vblank"

vars == <<lit, done, win, event>>

Init == lit = TRUE /\ done = 0 /\ win = 0 /\ event = "none"

\* The M-cycle may end with a write that turns the LCD off.
Cycle(d, w, e) == /\ event' = e
                  /\ \/ lit' = TRUE /\ done' = d /\ win' = w
                     \/ lit' = FALSE /\ done' = 0 /\ win' = 0

Pass == lit /\ Cycle(done, win, "none")

Line == /\ lit /\ done < Visible
        /\ Cycle(done + 1, win, "line") \/ Cycle(done + 1, win + 1, "line")

VBlank == lit /\ done = Visible /\ Cycle(0, 0, "vblank")

Dark == /\ ~lit /\ event' = "none" /\ lit' \in BOOLEAN
        /\ done' = 0 /\ win' = 0

Next == Pass \/ Line \/ VBlank \/ Dark

Spec == Init /\ [][Next]_vars
=============================================================================
