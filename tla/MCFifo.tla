------------------------------- MODULE MCFifo -------------------------------
(* Lines of three tiles on a map of eight, two objects shown of up to three. *)
EXTENDS Fifo

Columns == {c \in 0 .. MapWidth - 1 : c % 3 = 0}
SomeClear == {Bg(c) : c \in Columns} \cup {Win(c) : c \in Columns}

Kinds == {[solid |-> 0 .. 7, behind |-> FALSE], [solid |-> 0 .. 7, behind |-> TRUE],
          [solid |-> {0, 2, 3, 7}, behind |-> FALSE]}
Placed(xs) == {[x |-> x, solid |-> k.solid, behind |-> k.behind] : x \in xs, k \in Kinds}

\* Off to the left, half off, two that overlap, the last columns, off to the right.
Few(n, xs) == UNION {[1 .. m -> Placed(xs)] : m \in 0 .. n}
Lineups == Few(2, {0, 5, 9, 14, 30, 32}) \cup [1 .. 3 -> Placed({3, 9})]

SomeLines ==
  {[scx |-> s, win |-> w # 255, wx |-> w, objs |-> o] :
     s \in {0, 5, 61}, w \in {3, 7, 14, 30, 255}, o \in Lineups}
=============================================================================
