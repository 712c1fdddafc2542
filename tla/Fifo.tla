-------------------------------- MODULE Fifo --------------------------------
(***************************************************************************)
(* src/ppu_fifo.c: fifo_bg_line, a line of pixels dot by dot.              *)
(*                                                                         *)
(* A fetcher fills a queue of background pixels eight at a time, a mixer   *)
(* takes one a dot, and an object stops both while it is fetched.  The     *)
(* module Scanline says which pixels must come out, and how much later.    *)
(***************************************************************************)
EXTENDS Scanline

CONSTANTS Lines,      \* the lines that are drawn, a subset of Line
          MaxDots     \* dots are counted up to here

\* A line with its scroll or its window is shorter than the map, by two tiles.  Two
\* warm-ups, the fine scroll and eleven dots for each object do not reach MaxDots.
ASSUME FifoAssumption ==
  /\ Lines \subseteq Line /\ MaxDots \in Nat /\ Width + 16 <= MapWidth
  /\ Width + 29 + 11 * MaxObjs < MaxDots

VARIABLES line, fifo
vars == <<line, fifo>>

None  == [of |-> "none", n |-> 0, c |-> 0]          \* a transparent object slot
Tiles == MapWidth \div 8
Pixels(S) == [of : S, n : Nat, c : 0 .. MapWidth - 1]

FifoState ==
  [win : BOOLEAN,                                   \* in_win
   queue : Seq(Pixels({"bg", "win"})),              \* fifo, fhead, flen
   col : Nat,                                       \* fetch_col
   step : 0 .. 3, timer : 0 .. 1,                   \* fstate, ftimer
   tile : 0 .. Tiles - 1,                           \* the tile being fetched
   warm : BOOLEAN, discard : 0 .. 7, stall : Nat,
   objq : Seq(Pixels({"obj", "none"})),             \* obj_cn
   next : 0 .. MaxObjs,                             \* objects fetched so far
   paid : SUBSET Int,                               \* seen
   x : 0 .. Width, dot : 0 .. MaxDots,                      \* out_x, dot
   px : Pixels({"bg", "win", "obj", "none"})]       \* the last of out

Init ==
  /\ line \in Lines
  /\ fifo = [win |-> FALSE, queue |-> <<>>, col |-> 0, step |-> 0, timer |-> 0,
             tile |-> 0, warm |-> TRUE, discard |-> line.scx % 8,
             stall |-> 0, objq |-> [i \in 1 .. 8 |-> None], next |-> 0,
             paid |-> {}, x |-> 0, dot |-> 0, px |-> None]
-----------------------------------------------------------------------------
\* Faults.  As in the other modules, Bug... operators are slips the code could
\* have made in the definition that follows them.

BugTriggered(f) ==                                  \* the queue is not cleared
  IF line.win /\ ~f.win /\ f.x + 7 >= line.wx
  THEN [f EXCEPT !.win = TRUE, !.step = 0, !.timer = 0, !.col = 0, !.warm = TRUE,
                 !.discard = IF line.wx < 7 THEN 7 - line.wx ELSE 0]
  ELSE f

\* The next pixel is the window's first: the fetcher begins again on its map.
Triggered(f) ==
  IF line.win /\ ~f.win /\ f.x + 7 >= line.wx
  THEN [f EXCEPT !.win = TRUE, !.queue = <<>>, !.step = 0, !.timer = 0,
                 !.col = 0, !.warm = TRUE,
                 !.discard = IF line.wx < 7 THEN 7 - line.wx ELSE 0]
  ELSE f

TileAt(f) == IF f.win THEN f.col % Tiles ELSE (line.scx \div 8 + f.col) % Tiles

\* The eight pixels of the fetched tile.
Fresh(f) == [p \in 1 .. 8 |-> IF f.win THEN Win(f.tile * 8 + p - 1)
                                       ELSE Bg(f.tile * 8 + p - 1)]

BugPushed(f) ==                                     \* does not look for room
  IF f.step < 3 THEN f
  ELSE IF f.warm THEN [f EXCEPT !.warm = FALSE, !.step = 0]
  ELSE [f EXCEPT !.queue = @ \o Fresh(f), !.col = @ + 1, !.step = 0]

BugPushedNever(f) ==                                \* the warm-up does not end
  IF f.step < 3 THEN f
  ELSE IF f.warm THEN [f EXCEPT !.step = 0]
  ELSE IF Len(f.queue) > 8 THEN f
  ELSE [f EXCEPT !.queue = @ \o Fresh(f), !.col = @ + 1, !.step = 0]

\* A complete tile is dropped while warming up, else pushed if there is room.
Pushed(f) ==
  IF f.step < 3 THEN f
  ELSE IF f.warm THEN [f EXCEPT !.warm = FALSE, !.step = 0]
  ELSE IF Len(f.queue) > 8 THEN f
  ELSE [f EXCEPT !.queue = @ \o Fresh(f),
                 !.col = @ + 1, !.step = 0]

\* The fetcher: a step every other dot, none while an object is fetched.
Fetched(f) ==
  IF f.stall > 0 THEN f
  ELSE IF f.timer = 0 THEN [f EXCEPT !.timer = 1]
  ELSE Pushed([f EXCEPT !.timer = 0,
                        !.step = IF @ < 3 THEN @ + 1 ELSE 3,
                        !.tile = IF f.step = 0 THEN TileAt(f) ELSE @])

BugFetchObj(f, o) ==                                \* the part off the screen shows
  [f EXCEPT !.next = @ + 1,
            !.stall = @ + Cost(o, line.scx, f.paid),
            !.paid = @ \cup {BgTile(o, line.scx)},
            !.objq = [i \in 1 .. 8 |-> IF @[i] = None /\ i - 1 \in o.solid
                                       THEN Piece(o, i - 1) ELSE @[i]]]

\* An object is fetched: its pixels go to the slots that are still transparent.
FetchObj(f, o) ==
  LET gone == IF o.x - 8 < f.x THEN f.x - (o.x - 8) ELSE 0
  IN  [f EXCEPT !.next = @ + 1,
                !.stall = @ + Cost(o, line.scx, f.paid),
                !.paid = @ \cup {BgTile(o, line.scx)},
                !.objq = [i \in 1 .. 8 |->
                            IF @[i] = None /\ gone + i - 1 \in o.solid
                            THEN Piece(o, gone + i - 1) ELSE @[i]]]

BugReached(f) ==                                    \* looks only one at a dot
  LET s == Selected(line)
      here == {i \in 1 .. Len(s) : i > f.next /\ s[i].x < Width + 8 /\ s[i].x - 8 = f.x}
  IN  IF here = {} THEN f ELSE FetchObj(f, s[f.next + 1])

\* The objects after the first f.next are fetched, up to the n-th of them.
Fetches(f, s) ==
  LET got[n \in 0 .. Len(s) - f.next] ==
        IF n = 0 THEN f ELSE FetchObj(got[n - 1], s[f.next + n])
  IN  got

\* Every object whose left edge the mixer has come to; the fetcher of the background
\* and its queue are left as they are.
Reached(f) ==
  LET s == Selected(line)
      here == {i \in 1 .. Len(s) : i > f.next /\ s[i].x < Width + 8 /\ s[i].x - 8 <= f.x}
  IN  IF here = {} THEN f ELSE Fetches(f, s)[Max(here) - f.next]

\* One pixel comes out: the object's, unless it hides behind the background.
Emitted(f) ==
  LET b == Head(f.queue)
      o == f.objq[1]
      hidden == line.objs[o.n].behind /\ b \notin Clear
  IN  [f EXCEPT !.px = IF o # None /\ ~hidden THEN o ELSE b,
                !.x = @ + 1, !.queue = Tail(@), !.objq = Append(Tail(@), None)]

\* The mixer.
Mixed(f) ==
  IF f.stall > 0 THEN [f EXCEPT !.stall = @ - 1]
  ELSE IF f.queue = <<>> THEN f
  ELSE IF f.discard > 0 THEN [f EXCEPT !.queue = Tail(@), !.discard = @ - 1]
  ELSE LET g == Reached(f)
       IN  IF g.stall > 0 THEN [g EXCEPT !.stall = @ - 1] ELSE Emitted(g)

\* One turn of the loop.
Dot == /\ fifo.x < Width
       /\ \E f \in {Fetched(Triggered(fifo))} :
            fifo' = [Mixed(f) EXCEPT !.dot = IF @ < MaxDots THEN @ + 1 ELSE @]
       /\ UNCHANGED line

Next == Dot

\* The loop has no exit but its condition: while it holds, dots follow.
Loops == \/ []<>(fifo.x = Width)
         \/ []<><<TRUE>>_fifo

Spec == Init /\ [][Next]_vars /\ Loops
-----------------------------------------------------------------------------
\* Type invariant; the queue is the ring of 16 it is in the code, and no more
\* objects are fetched than are on the line.
FifoInv == /\ fifo \in FifoState
           /\ Len(fifo.queue) <= 16 /\ Len(fifo.objq) = 8
           /\ fifo.next <= Len(Selected(line))

\* What waits in the queue is exactly what comes next on the map in use, the
\* pixels still to be discarded in front: nothing is lost, doubled or taken
\* from the wrong map by the restart at the window or by an object's stall.
QueueIsNextPixels ==
  \A i \in 1 .. Len(fifo.queue) :
    LET x == fifo.x + i - 1 - fifo.discard
    IN  fifo.queue[i] = IF fifo.win THEN Win(x + 7 - line.wx)
                        ELSE Bg((x + line.scx) % MapWidth)

\* Two objects overlap at x, the upper one hidden by the background: there
\* render_scanline shows the lower one, the FIFO the background.
Contested(l, x) ==
  \E i, j \in 1 .. Len(Selected(l)) :
    LET s == Selected(l)
        b == BgPixel(l, x)
    IN  i < j /\ Opaque(s[i], x) /\ ~Covers(s[i], b, x) /\ Covers(s[j], b, x)

\* Each pixel is the one render_scanline puts there (the claim of STATUS.md 68
\* and of --fifo-selftest), wherever no such overlap is.
PixelsAreTheScanlines ==
  fifo.x > 0 => \/ fifo.px = Pixel(line, fifo.x - 1)
                \/ Contested(line, fifo.x - 1)

\* The length of mode 3 without objects: a warm-up tile and a first tile, less
\* the dot that already shows a pixel; the fine scroll; and the same again for
\* the window, which drops what is left of the scroll when it starts the line.
WarmUp == 11
BareLength(l) ==
  Width + WarmUp + (IF l.win /\ l.wx <= Width + 6
                    THEN IF l.wx <= 7 THEN 7 - l.wx ELSE WarmUp + (l.scx % 8)
                    ELSE l.scx % 8)

\* The stalls of the pipeline add up to the penalty that the scanline renderer
\* computes, and the three dots it takes off (progress.md 352).
PenaltyEmerges ==
  fifo.x = Width => fifo.dot = BareLength(line) + (IF Penalty(line) > 0 THEN Penalty(line) + 3 ELSE 0)

\* `while (out_x < 160)` ends.
LineEnds == <>(fifo.x = Width)
=============================================================================
