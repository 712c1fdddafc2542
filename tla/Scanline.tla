------------------------------ MODULE Scanline ------------------------------
(***************************************************************************)
(* src/ppu.c: what render_scanline shows on a line of a Game Boy, and the  *)
(* dots by which obj_mode3_penalty lengthens its mode 3.                   *)
(*                                                                         *)
(* A pixel is the place it comes from: a column of the background's or the *)
(* window's map row that the line reads, or a column of an object.  Tiles, *)
(* flips and palettes only say which shade such a place has; what decides  *)
(* between the layers is whether it has colour 0.                          *)
(***************************************************************************)
EXTENDS Integers, Sequences, FiniteSets, FiniteSetsExt

CONSTANTS Width,      \* pixels of a line (160)
          MapWidth,   \* columns of the background map (256)
          MaxObjs,    \* objects shown on a line (10)
          Clear       \* the background and window pixels of colour 0

ASSUME ScanlineAssumption ==
  /\ Width \in Nat \ {0} /\ MaxObjs \in Nat
  /\ MapWidth \in Nat \ {0} /\ MapWidth % 8 = 0

\* A line: SCX, whether the window is on at this LY, WX, and the objects whose
\* rows meet the line, in OAM order.  solid: the columns not of colour 0.
Obj  == [x : 0 .. 255, solid : SUBSET (0 .. 7), behind : BOOLEAN]
Line == [scx : 0 .. MapWidth - 1, win : BOOLEAN, wx : 0 .. 255, objs : Seq(Obj)]

\* The objects shown: the first in OAM, with their OAM places, sorted by priority:
\* by x, then by place.
Shown(l) == 1 .. (IF Len(l.objs) < MaxObjs THEN Len(l.objs) ELSE MaxObjs)

Before(l, i, j) == l.objs[i].x < l.objs[j].x \/ (l.objs[i].x = l.objs[j].x /\ i < j)

Rank(l, i) == 1 + Cardinality({j \in Shown(l) : Before(l, j, i)})

Selected(l) ==
  [k \in Shown(l) |->
     LET i == CHOOSE i \in Shown(l) : Rank(l, i) = k
     IN  [x |-> l.objs[i].x, solid |-> l.objs[i].solid,
          behind |-> l.objs[i].behind, oam |-> i]]

\* The pixels of the two maps and of the objects.
Bg(c)     == [of |-> "bg",  n |-> 0, c |-> c]
Win(c)    == [of |-> "win", n |-> 0, c |-> c]
Piece(o, c) == [of |-> "obj", n |-> o.oam, c |-> c]

\* The background or window pixel at x.
BgPixel(l, x) == IF l.win /\ x + 7 >= l.wx THEN Win(x - (l.wx - 7))
                 ELSE Bg((x + l.scx) % MapWidth)

\* The object's column at x, and whether it would be seen there.
Column(o, x) == x - (o.x - 8)
Opaque(o, x) == Column(o, x) \in o.solid
Covers(o, b, x) == Opaque(o, x) /\ ~(o.behind /\ b \notin Clear)

\* render_sprites paints from the last object to the first, so that of those
\* that cover the pixel the first is seen.
Pixel(l, x) ==
  LET b == BgPixel(l, x)
      s == Selected(l)
      seen == {k \in 1 .. Len(s) : Covers(s[k], b, x)}
  IN  IF seen = {} THEN b ELSE Piece(s[Min(seen)], Column(s[Min(seen)], x))
-----------------------------------------------------------------------------
\* The dots an object costs, given the background tiles already paid for.
BgTile(o, scx) == (o.x - 8 + scx) \div 8

Cost(o, scx, paid) ==
  LET off   == IF o.x = 0 THEN 0 ELSE (o.x - 8 + scx) % 8
      align == (7 - off) - 2
  IN  6 + (IF BgTile(o, scx) \notin paid /\ align > 0 THEN align ELSE 0)

\* What the first objects cost together, without the three dots that
\* obj_mode3_penalty takes off again.  Those off to the right are not drawn.
Owed(l) ==
  LET s == Selected(l)
      owed[k \in 0 .. Len(s)] ==
        IF k = 0 THEN 0
        ELSE IF s[k].x >= Width + 8 THEN owed[k - 1]
        ELSE owed[k - 1] + Cost(s[k], l.scx, {BgTile(s[j], l.scx) : j \in 1 .. k - 1})
  IN  owed

FullPenalty(l) == Owed(l)[Len(Selected(l))]

Penalty(l) == IF FullPenalty(l) > 0 THEN FullPenalty(l) - 3 ELSE 0
=============================================================================
