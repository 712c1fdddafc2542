----------------------------- MODULE FifoProofs -----------------------------
(***************************************************************************)
(* Proofs about Fifo, for lines and maps of any width, any scroll, window  *)
(* and objects: what waits in the queue, which pixels come out, how many   *)
(* dots the line takes.                                                    *)
(***************************************************************************)
EXTENDS Fifo, SequenceTheorems, FiniteSetTheorems, WellFoundedInduction, TLAPS

(* The constants as integers.                                                *)
LEMMA Sizes ==
  /\ Width \in Nat /\ Width > 0 /\ MapWidth \in Nat /\ Width + 16 <= MapWidth
  /\ Tiles \in Nat /\ Tiles > 0 /\ MapWidth = 8 * Tiles
<1>1. /\ Width \in Nat /\ Width > 0 /\ MapWidth \in Nat /\ MapWidth % 8 = 0
      /\ Width + 16 <= MapWidth
  BY ScanlineAssumption, FifoAssumption
<1>2. \A m \in Nat : m % 8 = 0 /\ m > 0 =>
        m \div 8 \in Nat /\ m \div 8 > 0 /\ m = 8 * (m \div 8)
  OBVIOUS
<1> QED  BY <1>1, <1>2 DEF Tiles

(* A column of the map and its tile, also where the map wraps.               *)
LEMMA ColumnOfTile ==
  ASSUME NEW t \in Nat, t > 0, NEW k \in Nat, NEW j \in 0 .. 7
  PROVE  /\ k % t \in 0 .. t - 1
         /\ (8 * k + j) % (8 * t) = 8 * (k % t) + j
<1> DEFINE m == k % t
           d == k \div t
<1>a. k = (d * t) + m /\ d \in Nat  OBVIOUS
<1>b. m \in 0 .. t - 1  OBVIOUS
<1> HIDE DEF m, d
<1>1. m \in 0 .. t - 1 /\ d \in Nat /\ k = (d * t) + m  BY <1>a, <1>b
<1> DEFINE n == 8 * t
           r == 8 * m + j
<1>2. n \in Nat \ {0} /\ r \in 0 .. n - 1  BY <1>1
<1>3. 8 * k + j = (d * n) + r
  <2>1. 8 * k = 8 * (d * t) + 8 * m  BY <1>1
  <2>2. 8 * (d * t) = d * (8 * t)  BY <1>1
  <2>3. d * (8 * t) \in Nat /\ 8 * m \in Nat  BY <1>1
  <2> QED  BY <2>1, <2>2, <2>3
<1> HIDE DEF n, r
<1>4. ((d * n) + r) % n = r  BY <1>1, <1>2
<1>5. m \in 0 .. t - 1  BY <1>1
<1> QED  BY <1>3, <1>4, <1>5 DEF n, r, m
-----------------------------------------------------------------------------
(* The fields of a FIFO, whatever they hold: an object that is fetched       *)
(* changes some of them in ways that do not matter here.                     *)
Fields == {"win", "queue", "col", "step", "timer", "tile", "warm", "discard", "stall",
           "objq", "next", "paid", "x", "dot", "px"}

Shaped(f) == DOMAIN f = Fields

Px == Pixels({"bg", "win"})

\* The column of its map that a pixel of the line shows, before the map wraps.
Shift(f) == IF f.win THEN 7 - line.wx ELSE line.scx % 8

\* The pixel that must come out at x, from the map in use.
Due(f, x) == IF f.win THEN Win(x + 7 - line.wx) ELSE Bg((x + line.scx) % MapWidth)

Typed(f) == /\ f.win \in BOOLEAN /\ f.queue \in Seq(Px) /\ Len(f.queue) <= 16
            /\ f.col \in Nat /\ f.step \in 0 .. 3 /\ f.warm \in BOOLEAN
            /\ f.discard \in 0 .. 7 /\ f.x \in 0 .. Width

\* The tiles pushed are the pixels shown, discarded and waiting.
Counted(f) == 8 * f.col = Len(f.queue) + f.x - f.discard + Shift(f)

Latched(f) == f.step > 0 => f.tile = TileAt(f)

Waits(f) == \A i \in 1 .. Len(f.queue) : f.queue[i] = Due(f, f.x + i - 1 - f.discard)

\* In the window, the mixer is at or past its left edge.
Late(f) == f.win => line.win /\ f.x + 7 >= line.wx

\* The window begins at its own left edge, or with the line.
Early(f) == line.win /\ ~f.win => f.x = 0 \/ f.x + 7 <= line.wx
NotYet(f) == line.win /\ ~f.win => f.x + 7 < line.wx

Pipeline(f) == Shaped(f) /\ Typed(f) /\ Counted(f) /\ Latched(f) /\ Waits(f) /\ Late(f)

BInv == line \in Lines /\ Pipeline(fifo) /\ Early(fifo)

(* What the proofs use of a line.                                            *)
LEMMA LineIs ==
  ASSUME line \in Lines
  PROVE  /\ line.scx \in Nat /\ line.scx < MapWidth /\ line.wx \in Nat
         /\ line.win \in BOOLEAN
         /\ line.scx % 8 \in 0 .. 7 /\ line.scx \div 8 \in Nat
         /\ line.scx = 8 * (line.scx \div 8) + (line.scx % 8)
<1>1. line \in Line  BY FifoAssumption
<1>2. line.scx \in 0 .. MapWidth - 1 /\ line.wx \in 0 .. 255 /\ line.win \in BOOLEAN
  BY <1>1 DEF Line
<1>3. PICK s \in Nat : line.scx = s /\ s < MapWidth  BY <1>2, Sizes
<1>4. s % 8 \in 0 .. 7 /\ s \div 8 \in Nat /\ s = 8 * (s \div 8) + (s % 8)  OBVIOUS
<1> QED  BY <1>2, <1>3, <1>4

(* The window starts: the queue is empty and the count begins again.         *)
LEMMA TriggeredKeeps ==
  ASSUME line \in Lines, NEW f, Pipeline(f), Early(f)
  PROVE  LET g == Triggered(f) IN Pipeline(g) /\ NotYet(g) /\ g.x = f.x
<1> DEFINE d == IF line.wx < 7 THEN 7 - line.wx ELSE 0
           h == [f EXCEPT !.win = TRUE, !.queue = <<>>, !.step = 0, !.timer = 0,
                          !.col = 0, !.warm = TRUE, !.discard = d]
<1>t. Typed(f) /\ Shaped(f)  BY DEF Pipeline
<1>1. PICK x \in Nat : f.x = x /\ x <= Width  BY <1>t, Sizes DEF Typed
<1>2. PICK v \in Nat : line.wx = v  BY LineIs
<1>3. CASE line.win /\ ~f.win /\ f.x + 7 >= line.wx
  <2>1. Triggered(f) = h  BY <1>3 DEF Triggered
  <2>2. /\ h.win = TRUE /\ h.queue = <<>> /\ h.step = 0 /\ h.col = 0 /\ h.warm = TRUE
        /\ h.discard = d /\ h.x = f.x /\ Shaped(h)
    BY <1>t DEF Shaped, Fields
  <2> HIDE DEF h
  <2>3. d \in 0 .. 7 /\ x - d + (7 - v) = 0
    <3>1. x = 0 \/ x + 7 <= v  BY <1>1, <1>2, <1>3 DEF Early
    <3>2. x + 7 >= v  BY <1>1, <1>2, <1>3
    <3> QED  BY <1>2, <3>1, <3>2
  <2> HIDE DEF d
  <2>4. <<>> \in Seq(Px) /\ Len(<<>>) = 0  BY EmptySeq
  <2>5. Typed(h)
    <3>1. h.queue \in Seq(Px) /\ Len(h.queue) <= 16  BY <2>2, <2>4
    <3>2. h.col \in Nat /\ h.step \in 0 .. 3  BY <2>2
    <3>3. h.win \in BOOLEAN /\ h.warm \in BOOLEAN /\ h.discard \in 0 .. 7
      BY <2>2, <2>3
    <3>4. h.x \in 0 .. Width  BY <1>t, <2>2 DEF Typed
    <3> QED  BY <3>1, <3>2, <3>3, <3>4 DEF Typed
  <2>6. Counted(h)
    <3>1. 8 * 0 = 0 + x - d + (7 - v)  BY <2>3
    <3> QED  BY <1>1, <1>2, <2>2, <2>4, <3>1 DEF Counted, Shift
  <2>7. Waits(h) /\ Latched(h) /\ NotYet(h)  BY <2>2, <2>4 DEF Waits, Latched, NotYet
  <2>8. Late(h)  BY <1>1, <1>2, <1>3, <2>2 DEF Late
  <2> QED  BY <2>1, <2>2, <2>5, <2>6, <2>7, <2>8 DEF Pipeline
<1>4. CASE ~(line.win /\ ~f.win /\ f.x + 7 >= line.wx)
  <2>1. Triggered(f) = f  BY <1>4 DEF Triggered
  <2>2. NotYet(f)  BY <1>1, <1>2, <1>4 DEF NotYet
  <2> QED  BY <2>1, <2>2
<1> QED  BY <1>3, <1>4

(* A tile goes into the queue: the eight pixels due next.                    *)
LEMMA PushKeeps ==
  ASSUME line \in Lines, NEW f, Pipeline(f), f.step = 3, Len(f.queue) <= 8
  PROVE  Pipeline([f EXCEPT !.queue = @ \o Fresh(f), !.col = @ + 1, !.step = 0])
<1> DEFINE new == Fresh(f)
           q == f.queue \o new
           g == [f EXCEPT !.queue = q, !.col = f.col + 1, !.step = 0]
<1>t. Typed(f) /\ Shaped(f)  BY DEF Pipeline
<1>1. PICK x \in Nat : f.x = x /\ x <= Width  BY <1>t, Sizes DEF Typed
<1>2. PICK c \in Nat : f.col = c  BY <1>t DEF Typed
<1>3. PICK d \in 0 .. 7 : f.discard = d  BY <1>t DEF Typed
<1>4. PICK n \in Nat : Len(f.queue) = n /\ n <= 8  BY <1>t, LenProperties DEF Typed
<1>5. PICK v \in Nat : line.wx = v  BY LineIs
<1>6. PICK s \in Nat, a \in Nat, b \in 0 .. 7 :
        line.scx = s /\ line.scx \div 8 = a /\ line.scx % 8 = b /\ s = 8 * a + b
  BY LineIs
<1>7. 8 * c = n + x - d + (IF f.win THEN 7 - v ELSE b)
  BY <1>1, <1>2, <1>3, <1>4, <1>5, <1>6 DEF Pipeline, Counted, Shift
<1>8. f.tile = IF f.win THEN c % Tiles ELSE (a + c) % Tiles
  BY <1>2, <1>6 DEF Pipeline, Latched, TileAt
<1>9. PICK m \in 0 .. Tiles - 1 : f.tile = m
  <2>1. c % Tiles \in 0 .. Tiles - 1 /\ (a + c) % Tiles \in 0 .. Tiles - 1
    BY <1>2, <1>6, Sizes
  <2> QED  BY <1>8, <2>1
\* What the eight pixels are.
<1>10. \A p \in 1 .. 8 : /\ new[p] \in Px
                        /\ new[p] = Due(f, x + (n + p) - 1 - d)
  <2> SUFFICES ASSUME NEW p \in 1 .. 8
               PROVE  new[p] \in Px /\ new[p] = Due(f, x + (n + p) - 1 - d)
    OBVIOUS
  <2>1. new[p] = IF f.win THEN Win(m * 8 + p - 1) ELSE Bg(m * 8 + p - 1)
    BY <1>9 DEF Fresh
  <2>2. m * 8 + p - 1 \in 0 .. MapWidth - 1  BY Sizes
  <2>3. new[p] \in Px  BY <2>1, <2>2 DEF Px, Pixels, Win, Bg
  <2>4. CASE f.win
    <3>1. 8 * c <= 8 + Width + 7
      <4>1. x + 7 >= v  BY <1>1, <1>5, <2>4 DEF Pipeline, Late
      <4> QED  BY <1>1, <1>3, <1>4, <1>5, <1>7, <2>4, Sizes
    <3>2. c < Tiles  BY <1>2, <3>1, Sizes
    <3>3. m = c  BY <1>2, <1>8, <1>9, <2>4, <3>2, Sizes
    <3>4. m * 8 + p - 1 = x + (n + p) - 1 - d + 7 - v
      BY <1>1, <1>2, <1>3, <1>4, <1>5, <1>7, <2>4, <3>3
    <3> QED  BY <1>5, <2>1, <2>3, <2>4, <3>4 DEF Due
  <2>5. CASE ~f.win
    <3>1. m = (a + c) % Tiles  BY <1>8, <1>9, <2>5
    <3>2. p - 1 \in 0 .. 7 /\ a + c \in Nat  BY <1>2, <1>6
    <3>3. (8 * (a + c) + (p - 1)) % (8 * Tiles) = 8 * m + (p - 1)
      <4>1. \A t \in Nat, k \in Nat, j \in 0 .. 7 :
              t > 0 => (8 * k + j) % (8 * t) = 8 * (k % t) + j
        BY ColumnOfTile
      <4>2. (8 * (a + c) + (p - 1)) % (8 * Tiles) = 8 * ((a + c) % Tiles) + (p - 1)
        BY <3>2, <4>1, Sizes
      <4> QED  BY <3>1, <4>2
    <3>4. 8 * (a + c) + (p - 1) = x + (n + p) - 1 - d + s
      BY <1>1, <1>2, <1>3, <1>4, <1>6, <1>7, <2>5
    <3>5. m * 8 + p - 1 = 8 * m + (p - 1)  BY <1>9, Sizes
    <3>6. (x + (n + p) - 1 - d + s) % MapWidth = m * 8 + p - 1
      BY <3>3, <3>4, <3>5, Sizes
    <3> QED  BY <1>6, <2>1, <2>3, <2>5, <3>6 DEF Due
  <2> QED  BY <2>4, <2>5
<1>11. new \in Seq(Px) /\ Len(new) = 8
  <2>1. new \in [1 .. 8 -> Px]  BY <1>10 DEF Fresh
  <2>2. new \in Seq(Px)
    <3> HIDE DEF new
    <3>1. [1 .. 8 -> Px] \subseteq Seq(Px)  BY SeqDef
    <3> QED  BY <2>1, <3>1
  <2> QED  BY <2>1, <2>2, LenProperties
<1> HIDE DEF new
<1>12. /\ q \in Seq(Px) /\ Len(q) = n + 8
       /\ \A i \in 1 .. n + 8 : q[i] = IF i <= n THEN f.queue[i] ELSE new[i - n]
  <2>1. f.queue \in Seq(Px) /\ new \in Seq(Px)  BY <1>t, <1>11 DEF Typed
  <2>2. /\ f.queue \o new \in Seq(Px)
        /\ Len(f.queue \o new) = Len(f.queue) + Len(new)
        /\ \A i \in 1 .. Len(f.queue) + Len(new) : (f.queue \o new)[i] =
              IF i <= Len(f.queue) THEN f.queue[i] ELSE new[i - Len(f.queue)]
    BY <2>1, ConcatProperties
  <2>3. Len(f.queue) = n /\ Len(new) = 8  BY <1>4, <1>11
  <2> QED  BY <2>2, <2>3
<1> HIDE DEF q
<1>13. /\ g.queue = q /\ g.col = c + 1 /\ g.step = 0 /\ g.win = f.win /\ g.x = f.x
       /\ g.discard = f.discard /\ g.warm = f.warm /\ Shaped(g)
  BY <1>t, <1>2 DEF Shaped, Fields
<1> HIDE DEF g
<1>14. Typed(g)
  <2>1. n + 8 <= 16 /\ c + 1 \in Nat /\ 0 \in 0 .. 3  BY <1>2, <1>4
  <2> QED  BY <1>t, <1>12, <1>13, <2>1 DEF Typed
<1>15. Counted(g)
  <2>1. 8 * (c + 1) = (n + 8) + x - d + (IF f.win THEN 7 - v ELSE b)
    BY <1>2, <1>4, <1>5, <1>6, <1>7, <1>1, <1>3
  <2> QED  BY <1>1, <1>3, <1>5, <1>6, <1>12, <1>13, <2>1 DEF Counted, Shift
<1>16. Waits(g)
  <2> SUFFICES ASSUME NEW i \in 1 .. n + 8
               PROVE  q[i] = Due(f, x + i - 1 - d)
    BY <1>1, <1>3, <1>12, <1>13 DEF Waits, Due
  <2>1. CASE i <= n
    <3>1. i \in 1 .. n  BY <1>4, <2>1
    <3> QED  BY <1>1, <1>3, <1>4, <1>12, <2>1, <3>1 DEF Pipeline, Waits
  <2>2. CASE i > n
    <3>1. i - n \in 1 .. 8 /\ n + (i - n) = i /\ ~(i <= n)  BY <1>4, <2>2
    <3>2. new[i - n] = Due(f, x + (n + (i - n)) - 1 - d)  BY <1>10, <3>1
    <3> QED  BY <1>12, <3>1, <3>2
  <2> QED  BY <1>4, <2>1, <2>2
<1>17. Latched(g)  BY <1>13 DEF Latched
<1>18. Late(g)  BY <1>13 DEF Late, Pipeline
<1>19. Pipeline(g)  BY <1>13, <1>14, <1>15, <1>16, <1>17, <1>18 DEF Pipeline
<1> QED  BY <1>19 DEF g, q, new

(* The fetcher, whatever it does in a dot.                                   *)
LEMMA FetchedKeeps ==
  ASSUME line \in Lines, NEW f, Pipeline(f), NotYet(f)
  PROVE  LET g == Fetched(f) IN Pipeline(g) /\ NotYet(g) /\ g.x = f.x
<1>t. Typed(f) /\ Shaped(f) /\ Counted(f) /\ Latched(f) /\ Waits(f) /\ Late(f)
  BY DEF Pipeline
<1>1. CASE f.stall > 0
  BY <1>1 DEF Fetched
<1>2. CASE ~(f.stall > 0) /\ f.timer = 0
  <2> DEFINE g == [f EXCEPT !.timer = 1]
  <2>1. Fetched(f) = g  BY <1>2 DEF Fetched
  <2>2. /\ Shaped(g) /\ g.win = f.win /\ g.queue = f.queue /\ g.col = f.col
        /\ g.step = f.step /\ g.tile = f.tile /\ g.warm = f.warm
        /\ g.discard = f.discard /\ g.x = f.x
    BY <1>t DEF Shaped, Fields
  <2> HIDE DEF g
  <2>3. Pipeline(g)
    <3>1. Typed(g)  BY <1>t, <2>2 DEF Typed
    <3>2. Counted(g)  BY <1>t, <2>2 DEF Counted, Shift
    <3>3. Latched(g)  BY <1>t, <2>2 DEF Latched, TileAt
    <3>4. Waits(g) /\ Late(g)  BY <1>t, <2>2 DEF Waits, Due, Late
    <3> QED  BY <2>2, <3>1, <3>2, <3>3, <3>4 DEF Pipeline
  <2>4. NotYet(g)  BY <2>2 DEF NotYet
  <2> QED  BY <2>1, <2>2, <2>3, <2>4
<1>3. CASE ~(f.stall > 0) /\ f.timer # 0
  <2> DEFINE g == [f EXCEPT !.timer = 0,
                            !.step = IF f.step < 3 THEN f.step + 1 ELSE 3,
                            !.tile = IF f.step = 0 THEN TileAt(f) ELSE f.tile]
  <2>1. Fetched(f) = Pushed(g)  BY <1>3 DEF Fetched
  <2>2. /\ Shaped(g) /\ g.win = f.win /\ g.queue = f.queue /\ g.col = f.col
        /\ g.step = (IF f.step < 3 THEN f.step + 1 ELSE 3)
        /\ g.tile = (IF f.step = 0 THEN TileAt(f) ELSE f.tile)
        /\ g.warm = f.warm /\ g.discard = f.discard /\ g.x = f.x
    BY <1>t DEF Shaped, Fields
  <2> HIDE DEF g
  <2>3. Pipeline(g)
    <3>0. g.step \in 0 .. 3  BY <1>t, <2>2 DEF Typed
    <3>1. Typed(g)  BY <1>t, <2>2, <3>0 DEF Typed
    <3>2. Counted(g)  BY <1>t, <2>2 DEF Counted, Shift
    <3>3. Latched(g)
      <4>1. TileAt(g) = TileAt(f)  BY <2>2 DEF TileAt
      <4>2. f.step = 0 \/ f.step > 0  BY <1>t DEF Typed
      <4>3. g.tile = TileAt(f)
        <5>1. f.step > 0 => f.tile = TileAt(f)  BY <1>t DEF Latched
        <5> QED  BY <2>2, <4>2, <5>1
      <4> QED  BY <4>1, <4>3 DEF Latched
    <3>4. Waits(g) /\ Late(g)  BY <1>t, <2>2 DEF Waits, Due, Late
    <3> QED  BY <2>2, <3>1, <3>2, <3>3, <3>4 DEF Pipeline
  <2>4. NotYet(g)  BY <2>2 DEF NotYet
  <2>5. CASE g.step < 3
    <3>1. Pushed(g) = g  BY <2>5 DEF Pushed
    <3> QED  BY <2>1, <2>2, <2>3, <2>4, <3>1
  <2>6. CASE ~(g.step < 3) /\ g.warm
    <3> DEFINE h == [g EXCEPT !.warm = FALSE, !.step = 0]
    <3>1. Pushed(g) = h  BY <2>6 DEF Pushed
    <3>2. /\ Shaped(h) /\ h.win = g.win /\ h.queue = g.queue /\ h.col = g.col
          /\ h.step = 0 /\ h.warm = FALSE /\ h.discard = g.discard /\ h.x = g.x
      BY <2>2 DEF Shaped, Fields
    <3> HIDE DEF h
    <3>3. Typed(h)
      <4>1. Typed(g) /\ 0 \in 0 .. 3 /\ FALSE \in BOOLEAN  BY <2>3 DEF Pipeline
      <4> QED  BY <3>2, <4>1 DEF Typed
    <3>4. Counted(h)  BY <2>3, <3>2 DEF Counted, Shift, Pipeline
    <3>5. Latched(h)  BY <3>2 DEF Latched
    <3>6. Waits(h) /\ Late(h)  BY <2>3, <3>2 DEF Waits, Due, Late, Pipeline
    <3>7. NotYet(h)  BY <2>4, <3>2 DEF NotYet
    <3> QED  BY <2>1, <2>2, <3>1, <3>2, <3>3, <3>4, <3>5, <3>6, <3>7 DEF Pipeline
  <2>7. CASE ~(g.step < 3) /\ ~g.warm /\ Len(g.queue) > 8
    <3>1. Pushed(g) = g  BY <2>7 DEF Pushed
    <3> QED  BY <2>1, <2>2, <2>3, <2>4, <3>1
  <2>8. CASE ~(g.step < 3) /\ ~g.warm /\ ~(Len(g.queue) > 8)
    <3> DEFINE h == [g EXCEPT !.queue = @ \o Fresh(g), !.col = @ + 1, !.step = 0]
    <3>1. Pushed(g) = h  BY <2>8 DEF Pushed
    <3>2. h.win = g.win /\ h.x = g.x
      BY <2>2 DEF Shaped, Fields
    <3>3. g.step = 3  BY <2>3, <2>8 DEF Pipeline, Typed
    <3>4. Len(g.queue) <= 8
      <4>1. g.queue \in Seq(Px)  BY <2>3 DEF Pipeline, Typed
      <4>2. Len(g.queue) \in Nat  BY <4>1, LenProperties
      <4> QED  BY <2>8, <4>2
    <3>5. Pipeline(h)  BY <2>3, <3>3, <3>4, PushKeeps
    <3> HIDE DEF h
    <3>6. NotYet(h)  BY <2>4, <3>2 DEF NotYet
    <3> QED  BY <2>1, <2>2, <3>1, <3>2, <3>5, <3>6
  <2> QED  BY <2>5, <2>6, <2>7, <2>8
<1> QED  BY <1>1, <1>2, <1>3

(* The fields of the background pipeline.                                    *)
SameBg(f, g) == /\ Shaped(g) /\ g.win = f.win /\ g.queue = f.queue /\ g.col = f.col
                /\ g.step = f.step /\ g.tile = f.tile /\ g.warm = f.warm
                /\ g.discard = f.discard /\ g.x = f.x

(* An object's stall, and whatever else leaves those fields alone.           *)
LEMMA SameBgKeeps ==
  ASSUME NEW f, NEW g, Pipeline(f), SameBg(f, g)
  PROVE  /\ Pipeline(g)
         /\ NotYet(f) => NotYet(g)
         /\ Early(f) => Early(g)
<1>t. Typed(f) /\ Counted(f) /\ Latched(f) /\ Waits(f) /\ Late(f)  BY DEF Pipeline
<1>1. Typed(g)  BY <1>t DEF Typed, SameBg
<1>2. Counted(g)  BY <1>t DEF Counted, Shift, SameBg
<1>3. Latched(g)  BY <1>t DEF Latched, TileAt, SameBg
<1>4. Waits(g) /\ Late(g)  BY <1>t DEF Waits, Due, Late, SameBg
<1>5. NotYet(f) => NotYet(g)  BY DEF NotYet, SameBg
<1>6. Early(f) => Early(g)  BY DEF Early, SameBg
<1> QED  BY <1>1, <1>2, <1>3, <1>4, <1>5, <1>6 DEF Pipeline, SameBg

(* One pixel leaves the queue: discarded, or shown at x.                     *)
LEMMA TakenKeeps ==
  ASSUME line \in Lines, NEW f, Pipeline(f), f.queue # <<>>, NEW g, Shaped(g),
         g.win = f.win, g.queue = Tail(f.queue), g.col = f.col, g.step = f.step,
         g.tile = f.tile, g.warm = f.warm,
         \/ f.discard > 0 /\ g.discard = f.discard - 1 /\ g.x = f.x
         \/ f.discard = 0 /\ g.discard = 0 /\ g.x = f.x + 1 /\ f.x < Width
  PROVE  Pipeline(g)
<1>t. Typed(f) /\ Counted(f) /\ Latched(f) /\ Waits(f) /\ Late(f)  BY DEF Pipeline
<1>1. PICK x \in Nat : f.x = x /\ x <= Width  BY <1>t, Sizes DEF Typed
<1>2. PICK d \in 0 .. 7 : f.discard = d  BY <1>t DEF Typed
<1>3. PICK n \in Nat : Len(f.queue) = n /\ n <= 16  BY <1>t, LenProperties DEF Typed
<1>4. /\ Tail(f.queue) \in Seq(Px) /\ Len(Tail(f.queue)) = n - 1
      /\ \A i \in 1 .. n - 1 : Tail(f.queue)[i] = f.queue[i + 1]
  <2>1. f.queue \in Seq(Px)  BY <1>t DEF Typed
  <2>2. /\ Tail(f.queue) \in Seq(Px)
        /\ Len(Tail(f.queue)) = Len(f.queue) - 1
        /\ \A i \in 1 .. Len(Tail(f.queue)) : Tail(f.queue)[i] = f.queue[i + 1]
    BY <2>1, HeadTailProperties
  <2> QED  BY <1>3, <2>2
<1>5. n > 0
  <2>1. f.queue \in Seq(Px)  BY <1>t DEF Typed
  <2>2. f.queue = <<>> <=> Len(f.queue) = 0  BY <2>1, EmptySeq
  <2> QED  BY <1>3, <2>2
<1>6. PICK e \in 0 .. 7, y \in Nat :
        /\ g.discard = e /\ g.x = y /\ y <= Width /\ y - e = x - d + 1 /\ y >= x
  <2>1. CASE d > 0
    <3>1. g.discard = d - 1 /\ g.x = x  BY <1>1, <1>2, <2>1
    <3>2. d - 1 \in 0 .. 7 /\ x - (d - 1) = x - d + 1  BY <1>1, <1>2, <2>1
    <3> QED  BY <1>1, <3>1, <3>2
  <2>2. CASE d = 0
    <3>1. g.discard = 0 /\ g.x = x + 1 /\ x < Width  BY <1>1, <1>2, <2>2
    <3>2. x + 1 \in Nat /\ x + 1 <= Width /\ x + 1 - 0 = x - d + 1
      BY <1>1, <2>2, <3>1, Sizes
    <3> QED  BY <1>1, <3>1, <3>2
  <2> QED  BY <1>2, <2>1, <2>2
<1>7. Typed(g)
  <2>1. y \in 0 .. Width /\ n - 1 <= 16  BY <1>3, <1>6, Sizes
  <2> QED  BY <1>t, <1>4, <1>6, <2>1 DEF Typed
<1>8. Counted(g)
  <2>1. PICK c \in Nat : f.col = c  BY <1>t DEF Typed
  <2>2. PICK z \in Int : Shift(f) = z
    <3>1. PICK v \in Nat : line.wx = v  BY LineIs
    <3>2. line.scx % 8 \in Int  BY LineIs
    <3>3. 7 - v \in Int  BY <3>1
    <3> QED  BY <3>1, <3>2, <3>3 DEF Shift
  <2>3. 8 * c = n + x - d + z  BY <1>t, <1>1, <1>2, <1>3, <2>1, <2>2 DEF Counted
  <2>4. 8 * c = (n - 1) + y - e + z  BY <1>1, <1>2, <1>3, <1>6, <2>1, <2>2, <2>3
  <2>5. Shift(g) = z  BY <2>2 DEF Shift
  <2> QED  BY <1>4, <1>6, <2>1, <2>4, <2>5 DEF Counted
<1>9. Waits(g)
  <2> SUFFICES ASSUME NEW i \in 1 .. n - 1
               PROVE  Tail(f.queue)[i] = Due(g, y + i - 1 - e)
    BY <1>4, <1>6 DEF Waits
  <2>1. i + 1 \in 1 .. n /\ x + (i + 1) - 1 - d = y + i - 1 - e
    BY <1>1, <1>2, <1>3, <1>6
  <2>2. f.queue[i + 1] = Due(f, x + (i + 1) - 1 - d)
    BY <1>t, <1>1, <1>2, <1>3, <2>1 DEF Waits
  <2>3. \A k : Due(g, k) = Due(f, k)  BY DEF Due
  <2> QED  BY <1>4, <2>1, <2>2, <2>3
<1>10. Latched(g)  BY <1>t DEF Latched, TileAt
<1>11. Late(g)
  <2>1. PICK v \in Nat : line.wx = v  BY LineIs
  <2>2. x + 7 >= v => y + 7 >= v  BY <1>1, <1>6, <2>1
  <2> QED  BY <1>t, <1>1, <1>6, <2>1, <2>2 DEF Late
<1> QED  BY <1>7, <1>8, <1>9, <1>10, <1>11 DEF Pipeline
-----------------------------------------------------------------------------
(* A nonempty set of numbers has a least one.                                *)
LEMMA Least ==
  ASSUME NEW S \in SUBSET Nat, S # {}
  PROVE  Min(S) \in S /\ \A k \in S : Min(S) <= k
<1> DEFINE R == OpToRel(<, Nat)
<1>1. IsWellFoundedOn(R, Nat)  BY NatLessThanWellFounded
<1>2. PICK b \in S : \A c \in S : ~(<<c, b>> \in R)
  <2> HIDE DEF R
  <2> QED  BY <1>1, WFMin
<1>3. \A c \in S : ~(c < b)  BY <1>2 DEF OpToRel
<1>4. \A c \in S : b <= c  BY <1>3
<1>5. \E m \in S : \A k \in S : m <= k  BY <1>4
<1> QED  BY <1>5 DEF Min

(* A nonempty set of numbers up to n has a greatest one.                     *)
LEMMA Greatest ==
  ASSUME NEW n \in Nat, NEW S \in SUBSET (1 .. n), S # {}
  PROVE  Max(S) \in S /\ \A k \in S : k <= Max(S)
<1> DEFINE T == {n - k : k \in S}
<1>1. T \in SUBSET Nat /\ T # {}
  <2>1. \A k \in S : n - k \in Nat  OBVIOUS
  <2> QED  BY <2>1
<1>2. PICK b \in T : \A c \in T : b <= c
  <2> HIDE DEF T
  <2> QED  BY <1>1, Least
<1>3. PICK m \in S : b = n - m  OBVIOUS
<1>4. \A k \in S : k <= m
  <2> SUFFICES ASSUME NEW k \in S PROVE k <= m  OBVIOUS
  <2>1. n - m <= n - k  BY <1>2, <1>3
  <2> QED  BY <2>1
<1>5. \E x \in S : \A k \in S : x >= k  BY <1>4
<1>6. Max(S) \in S /\ \A k \in S : Max(S) >= k  BY <1>5 DEF Max
<1> QED  BY <1>6

(* Counting from 0 to n, for a set.                                          *)
LEMMA CountUp ==
  ASSUME NEW n \in Nat, NEW S, 0 \in S, \A k \in 0 .. n - 1 : k \in S => k + 1 \in S
  PROVE  \A k \in 0 .. n : k \in S
<1> DEFINE T == {k \in 0 .. n : k \notin S}
<1> SUFFICES ASSUME T # {} PROVE FALSE  OBVIOUS
<1>1. T \in SUBSET Nat  OBVIOUS
<1>2. PICK b \in T : \A c \in T : b <= c  BY <1>1, Least
<1>3. b \in 0 .. n /\ b \notin S /\ b # 0  BY <1>2
<1>4. b - 1 \in 0 .. n - 1 /\ b - 1 \in 0 .. n /\ ~(b <= b - 1) /\ (b - 1) + 1 = b  BY <1>3
<1>5. b - 1 \in S  BY <1>2, <1>4
<1> QED  BY <1>3, <1>4, <1>5

\* g begins with b and is led on by the steps.
Led(g, n, X, b, step) == /\ g \in [0 .. n -> X] /\ g[0] = b
                         /\ \A i \in 1 .. n : g[i] = step[i][g[i - 1]]

(* A function defined by n steps from b exists, if no step leaves X.         *)
LEMMA Recursion ==
  ASSUME NEW n \in Nat, NEW X, NEW b \in X, NEW step \in [1 .. n -> [X -> X]]
  PROVE  \E g : Led(g, n, X, b, step)
<1> DEFINE S == {m \in 0 .. n : \E g \in [0 .. m -> X] :
                   g[0] = b /\ \A i \in 1 .. m : g[i] = step[i][g[i - 1]]}
<1>1. 0 \in S
  <2> DEFINE g == [i \in 0 .. 0 |-> b]
  <2>1. g \in [0 .. 0 -> X] /\ g[0] = b /\ \A i \in 1 .. 0 : g[i] = step[i][g[i - 1]]
    OBVIOUS
  <2>2. 0 \in 0 .. n  OBVIOUS
  <2> HIDE DEF g
  <2> QED  BY <2>1, <2>2
<1>2. ASSUME NEW k \in 0 .. n - 1, k \in S  PROVE k + 1 \in S
  <2>1. PICK g \in [0 .. k -> X] :
          g[0] = b /\ \A i \in 1 .. k : g[i] = step[i][g[i - 1]]
    BY <1>2
  <2> DEFINE h == [i \in 0 .. k + 1 |-> IF i <= k THEN g[i] ELSE step[k + 1][g[k]]]
  <2>2. k \in 0 .. k /\ k + 1 \in 1 .. n /\ 0 <= k /\ ~(k + 1 <= k)  OBVIOUS
  <2>3. step[k + 1][g[k]] \in X  BY <2>2
  <2>4. h \in [0 .. k + 1 -> X]  BY <2>3
  <2>5. h[0] = b  BY <2>1, <2>2
  <2>6. \A i \in 1 .. k + 1 : h[i] = step[i][h[i - 1]]
    <3> SUFFICES ASSUME NEW i \in 1 .. k + 1 PROVE h[i] = step[i][h[i - 1]]  OBVIOUS
    <3>1. CASE i <= k
      <4>1. i \in 1 .. k /\ i - 1 \in 0 .. k + 1 /\ i - 1 <= k /\ i \in 0 .. k + 1  BY <3>1
      <4> QED  BY <2>1, <3>1, <4>1
    <3>2. CASE ~(i <= k)
      <4>1. i = k + 1 /\ i - 1 = k /\ k \in 0 .. k + 1 /\ k <= k /\ i \in 0 .. k + 1
        BY <3>2
      <4> QED  BY <3>2, <4>1
    <3> QED  BY <3>1, <3>2
  <2> HIDE DEF h
  <2>7. k + 1 \in 0 .. n  OBVIOUS
  <2> QED  BY <2>4, <2>5, <2>6, <2>7
<1>3. n \in S
  <2>1. \A k \in 0 .. n - 1 : k \in S => k + 1 \in S  BY <1>2
  <2>2. n \in 0 .. n  OBVIOUS
  <2> HIDE DEF S
  <2> QED  BY <1>1, <2>1, <2>2, CountUp
<1> QED  BY <1>3 DEF Led

(* The objects of a line that are shown.                                     *)
LEMMA ShownIs ==
  ASSUME NEW l \in Line
  PROVE  \E n \in Nat : /\ Shown(l) = 1 .. n /\ n <= MaxObjs
                        /\ \A i \in 1 .. n : /\ l.objs[i] \in Obj /\ l.objs[i].x \in 0 .. 255
                                             /\ l.objs[i].solid \in SUBSET (0 .. 7)
<1>1. l.objs \in Seq(Obj)  BY DEF Line
<1>2. PICK m \in Nat : Len(l.objs) = m /\ l.objs \in [1 .. m -> Obj]
  BY <1>1, LenProperties
<1>3. PICK k \in Nat : MaxObjs = k  BY ScanlineAssumption
<1>4. \A i \in 1 .. m : l.objs[i] \in Obj  BY <1>2
<1>5. \A o \in Obj : o.x \in 0 .. 255 /\ o.solid \in SUBSET (0 .. 7)  BY DEF Obj
<1> DEFINE n == IF m < k THEN m ELSE k
<1>6. n \in Nat /\ n <= k /\ n <= m  BY <1>2, <1>3
<1>7. Shown(l) = 1 .. n  BY <1>2, <1>3 DEF Shown
<1> HIDE DEF n
<1>8. \A i \in 1 .. n : i \in 1 .. m  BY <1>6
<1> QED  BY <1>3, <1>4, <1>5, <1>6, <1>7, <1>8

(* The ranks of the objects are their places when they are sorted: Before is *)
(* a strict total order.                                                     *)
LEMMA Ranks ==
  ASSUME NEW l \in Line, NEW n \in Nat, Shown(l) = 1 .. n
  PROVE  /\ \A i \in 1 .. n : Rank(l, i) \in 1 .. n
         /\ \A i, j \in 1 .. n : Before(l, i, j) => Rank(l, i) < Rank(l, j)
         /\ \A k \in 1 .. n : \E i \in 1 .. n : Rank(l, i) = k
<1> DEFINE R(i) == {j \in 1 .. n : Before(l, j, i)}
<1>x. \A i \in 1 .. n : l.objs[i].x \in Int
  <2>1. PICK m \in Nat : Shown(l) = 1 .. m /\ \A i \in 1 .. m : l.objs[i].x \in 0 .. 255
    BY ShownIs
  <2>2. \A i \in 1 .. n : l.objs[i].x \in 0 .. 255
    <3>1. 1 .. n = 1 .. m  BY <2>1
    <3> QED  BY <2>1, <3>1
  <2>3. \A v \in 0 .. 255 : v \in Int  OBVIOUS
  <2> QED  BY <2>2, <2>3
<1>0. IsFiniteSet(1 .. n) /\ Cardinality(1 .. n) = n  BY FS_Interval
<1>1. \A i \in 1 .. n : IsFiniteSet(R(i)) /\ Cardinality(R(i)) \in Nat
  <2> SUFFICES ASSUME NEW i \in 1 .. n
               PROVE  IsFiniteSet(R(i)) /\ Cardinality(R(i)) \in Nat
    OBVIOUS
  <2>1. R(i) \in SUBSET (1 .. n)  OBVIOUS
  <2> HIDE DEF R
  <2> QED  BY <1>0, <2>1, FS_Subset, FS_CardinalityType
<1>2. \A i \in 1 .. n : Rank(l, i) = 1 + Cardinality(R(i))  BY DEF Rank
<1>3. \A i, j \in 1 .. n : Before(l, i, j) =>
        R(i) \cup {i} \in SUBSET R(j) /\ i \notin R(i)
  <2> SUFFICES ASSUME NEW i \in 1 .. n, NEW j \in 1 .. n, Before(l, i, j)
               PROVE  R(i) \cup {i} \in SUBSET R(j) /\ i \notin R(i)
    OBVIOUS
  <2>1. \A k \in 1 .. n : Before(l, k, i) => Before(l, k, j)  BY <1>x DEF Before
  <2>2. ~Before(l, i, i)  BY <1>x DEF Before
  <2> QED  BY <2>1, <2>2
<1>4. \A i \in 1 .. n : i \notin R(i)  BY <1>x DEF Before
<1> HIDE DEF R
<1>5. \A i, j \in 1 .. n : Before(l, i, j) => Rank(l, i) < Rank(l, j)
  <2> SUFFICES ASSUME NEW i \in 1 .. n, NEW j \in 1 .. n, Before(l, i, j)
               PROVE  Rank(l, i) < Rank(l, j)
    OBVIOUS
  <2>1. IsFiniteSet(R(i) \cup {i}) /\ Cardinality(R(i) \cup {i}) = Cardinality(R(i)) + 1
    BY <1>1, <1>3, FS_AddElement
  <2>2. Cardinality(R(i) \cup {i}) <= Cardinality(R(j))  BY <1>1, <1>3, FS_Subset
  <2>3. PICK a \in Nat, b \in Nat : Cardinality(R(i)) = a /\ Cardinality(R(j)) = b  BY <1>1
  <2>4. a + 1 <= b  BY <2>1, <2>2, <2>3
  <2>5. 1 + a < 1 + b  BY <2>4
  <2> QED  BY <1>2, <2>3, <2>5
<1>6. \A i \in 1 .. n : Rank(l, i) \in 1 .. n
  <2> SUFFICES ASSUME NEW i \in 1 .. n PROVE Rank(l, i) \in 1 .. n  OBVIOUS
  <2>0. R(i) \cup {i} \in SUBSET (1 .. n)  BY DEF R
  <2>1. Cardinality(R(i) \cup {i}) = Cardinality(R(i)) + 1  BY <1>1, <1>4, FS_AddElement
  <2>2. Cardinality(R(i) \cup {i}) <= n  BY <1>0, <2>0, FS_Subset
  <2>3. PICK a \in Nat : Cardinality(R(i)) = a  BY <1>1
  <2>4. a + 1 <= n  BY <2>1, <2>2, <2>3
  <2> QED  BY <1>2, <2>3, <2>4
<1>7. \A k \in 1 .. n : \E i \in 1 .. n : Rank(l, i) = k
  <2> DEFINE f == [i \in 1 .. n |-> Rank(l, i)]
  <2>1. f \in [1 .. n -> 1 .. n]  BY <1>6
  <2>2. \A i, j \in 1 .. n : f[i] = f[j] => i = j
    <3> SUFFICES ASSUME NEW i \in 1 .. n, NEW j \in 1 .. n, Rank(l, i) = Rank(l, j)
                 PROVE  i = j
      OBVIOUS
    <3>1. Rank(l, i) \in Int /\ Rank(l, j) \in Int  BY <1>6
    <3>2. ~Before(l, i, j) /\ ~Before(l, j, i)  BY <1>5, <3>1
    <3> QED  BY <1>x, <3>2 DEF Before
  <2> HIDE DEF f
  <2>3. f \in Injection(1 .. n, 1 .. n)  BY <2>1, <2>2 DEF Injection, IsInjective
  <2>4. f \in Surjection(1 .. n, 1 .. n)  BY <1>0, <2>3, FS_Injection
  <2>5. \A k \in 1 .. n : \E i \in 1 .. n : f[i] = k  BY <2>4 DEF Surjection
  <2> QED  BY <2>5 DEF f
<1> QED  BY <1>5, <1>6, <1>7

(* Selected: as many objects as are shown, each from OAM, sorted by x.       *)
LEMMA SelectedIs ==
  ASSUME NEW l \in Line
  PROVE  LET s == Selected(l) IN
         /\ Len(s) \in Nat /\ Len(s) <= MaxObjs /\ DOMAIN s = 1 .. Len(s)
         /\ \A k \in 1 .. Len(s) : /\ s[k].x \in 0 .. 255 /\ s[k].solid \in SUBSET (0 .. 7)
                                   /\ s[k].oam \in Nat
                                   /\ l.objs[s[k].oam].behind = s[k].behind
         /\ \A j, k \in 1 .. Len(s) : j < k => s[j].x <= s[k].x
<1> DEFINE s == Selected(l)
<1>1. PICK n \in Nat : /\ Shown(l) = 1 .. n /\ n <= MaxObjs
                       /\ \A i \in 1 .. n : /\ l.objs[i].x \in 0 .. 255
                                            /\ l.objs[i].solid \in SUBSET (0 .. 7)
  BY ShownIs
<1> DEFINE at(k) == CHOOSE i \in 1 .. n : Rank(l, i) = k
<1>2. \A k \in 1 .. n : at(k) \in 1 .. n /\ Rank(l, at(k)) = k
  BY <1>1, Ranks
<1>3. s = [k \in 1 .. n |-> [x |-> l.objs[at(k)].x, solid |-> l.objs[at(k)].solid,
                             behind |-> l.objs[at(k)].behind, oam |-> at(k)]]
  BY <1>1 DEF Selected
<1> HIDE DEF s, at
<1>4. DOMAIN s = 1 .. n /\ s \in Seq({s[k] : k \in 1 .. n})
  <2>1. DOMAIN s = 1 .. n  BY <1>3
  <2>2. s \in [1 .. n -> {s[k] : k \in 1 .. n}]  BY <1>3, <2>1
  <2> QED  BY <2>1, <2>2, SeqDef
<1>5. Len(s) = n
  <2>1. DOMAIN s = 1 .. Len(s) /\ Len(s) \in Nat  BY <1>4, LenProperties
  <2> QED  BY <1>4, <2>1
<1>6. \A k \in 1 .. n : /\ s[k].x = l.objs[at(k)].x /\ s[k].solid = l.objs[at(k)].solid
                        /\ s[k].behind = l.objs[at(k)].behind /\ s[k].oam = at(k)
  BY <1>3
<1>7. \A j, k \in 1 .. n : j < k => s[j].x <= s[k].x
  <2> SUFFICES ASSUME NEW j \in 1 .. n, NEW k \in 1 .. n, j < k
               PROVE  s[j].x <= s[k].x
    OBVIOUS
  <2>1. PICK a \in 1 .. n, b \in 1 .. n :
          at(j) = a /\ at(k) = b /\ Rank(l, a) = j /\ Rank(l, b) = k
    BY <1>2
  <2>2. ~Before(l, b, a)
    <3>1. Before(l, b, a) => k < j  BY <1>1, <2>1, Ranks
    <3>2. ~(k < j)  OBVIOUS
    <3> QED  BY <3>1, <3>2
  <2>3. PICK y \in Int, z \in Int : l.objs[a].x = y /\ l.objs[b].x = z
    <3>1. \A v \in 0 .. 255 : v \in Int  OBVIOUS
    <3> QED  BY <1>1, <3>1
  <2>4. y <= z  BY <2>2, <2>3 DEF Before
  <2> QED  BY <1>6, <2>1, <2>3, <2>4
<1>8. \A k \in 1 .. n : /\ s[k].x \in 0 .. 255 /\ s[k].solid \in SUBSET (0 .. 7)
                        /\ s[k].oam \in Nat
                        /\ l.objs[s[k].oam].behind = s[k].behind
  <2> SUFFICES ASSUME NEW k \in 1 .. n
               PROVE  /\ s[k].x \in 0 .. 255 /\ s[k].solid \in SUBSET (0 .. 7)
                      /\ s[k].oam \in Nat
                      /\ l.objs[s[k].oam].behind = s[k].behind
    OBVIOUS
  <2>1. at(k) \in 1 .. n  BY <1>2
  <2>2. at(k) \in Nat  BY <2>1
  <2> QED  BY <1>1, <1>6, <2>1, <2>2
<1>9. /\ Len(s) \in Nat /\ Len(s) <= MaxObjs /\ DOMAIN s = 1 .. Len(s)
      /\ \A k \in 1 .. Len(s) : /\ s[k].x \in 0 .. 255 /\ s[k].solid \in SUBSET (0 .. 7)
                                /\ s[k].oam \in Nat
                                /\ l.objs[s[k].oam].behind = s[k].behind
      /\ \A j, k \in 1 .. Len(s) : j < k => s[j].x <= s[k].x
  BY <1>1, <1>4, <1>5, <1>7, <1>8
<1> QED  BY <1>9 DEF s

(* An object costs six dots, and up to five to wait for a background tile.   *)
LEMMA CostIs ==
  ASSUME NEW o, o.x \in 0 .. 255, NEW scx \in Nat, NEW paid
  PROVE  /\ Cost(o, scx, paid) \in Nat /\ BgTile(o, scx) \in Int
         /\ Cost(o, scx, paid) >= 6 /\ Cost(o, scx, paid) <= 11
<1>1. PICK x \in 0 .. 255 : o.x = x  OBVIOUS
<1>2. (x - 8 + scx) % 8 \in 0 .. 7 /\ (x - 8 + scx) \div 8 \in Int  OBVIOUS
<1> DEFINE off == IF x = 0 THEN 0 ELSE (x - 8 + scx) % 8
           align == (7 - off) - 2
           more == IF BgTile(o, scx) \notin paid /\ align > 0 THEN align ELSE 0
<1>3. off \in 0 .. 7  BY <1>2
<1>4. Cost(o, scx, paid) = 6 + more  BY <1>1 DEF Cost
<1> HIDE DEF off
<1>5. more \in Nat /\ more <= 5  BY <1>3
<1> HIDE DEF more
<1>6. 6 + more \in Nat /\ 6 + more >= 6 /\ 6 + more <= 11  BY <1>5
<1> QED  BY <1>1, <1>2, <1>4, <1>6 DEF BgTile

\* What the k-th object pays, and what the first k have.
Own(l, k) == IF Selected(l)[k].x >= Width + 8 THEN 0
             ELSE Cost(Selected(l)[k], l.scx,
                       {BgTile(Selected(l)[j], l.scx) : j \in 1 .. k - 1})

(* The sum of the costs, object by object.                                   *)
LEMMA OwedIs ==
  ASSUME NEW l \in Line
  PROVE  /\ Owed(l)[0] = 0
         /\ \A k \in 0 .. Len(Selected(l)) : Owed(l)[k] \in Nat
         /\ \A k \in 1 .. Len(Selected(l)) : Owed(l)[k] = Owed(l)[k - 1] + Own(l, k)
         /\ \A k \in 1 .. Len(Selected(l)) : Own(l, k) \in Nat
         /\ \A k \in 1 .. Len(Selected(l)) : Own(l, k) = 0 \/ Own(l, k) >= 6
         /\ \A k \in 1 .. Len(Selected(l)) : Own(l, k) <= 11
<1> DEFINE s == Selected(l)
           n == Len(s)
           step == [k \in 1 .. n |-> [v \in Nat |-> v + Own(l, k)]]
<1>1. n \in Nat /\ \A k \in 1 .. n : s[k].x \in 0 .. 255  BY SelectedIs
<1>2. l.scx \in Nat
  <2>1. l.scx \in 0 .. MapWidth - 1 /\ MapWidth \in Nat
    BY ScanlineAssumption DEF Line
  <2>2. \A m \in Nat : \A v \in 0 .. m - 1 : v \in Nat  OBVIOUS
  <2> QED  BY <2>1, <2>2
<1>3. \A k \in 1 .. n : /\ Own(l, k) \in Nat /\ (Own(l, k) = 0 \/ Own(l, k) >= 6)
                        /\ Own(l, k) <= 11
  <2> SUFFICES ASSUME NEW k \in 1 .. n
               PROVE  /\ Own(l, k) \in Nat /\ (Own(l, k) = 0 \/ Own(l, k) >= 6)
                      /\ Own(l, k) <= 11
    OBVIOUS
  <2>1. \A paid : /\ Cost(s[k], l.scx, paid) \in Nat /\ Cost(s[k], l.scx, paid) >= 6
                  /\ Cost(s[k], l.scx, paid) <= 11
    BY <1>1, <1>2, CostIs
  <2> QED  BY <2>1 DEF Own
<1>4. \E g : Led(g, n, Nat, 0, step)
  <2>1. step \in [1 .. n -> [Nat -> Nat]]
    <3>1. \A k \in 1 .. n : \A v \in Nat : v + Own(l, k) \in Nat  BY <1>3
    <3> QED  BY <3>1
  <2>2. n \in Nat  BY <1>1
  <2> HIDE DEF step, n
  <2> QED  BY <2>1, <2>2, Recursion
<1> DEFINE def(g) == [k \in 0 .. n |-> IF k = 0 THEN 0
                        ELSE IF s[k].x >= Width + 8 THEN g[k - 1]
                        ELSE g[k - 1] + Cost(s[k], l.scx,
                                             {BgTile(s[j], l.scx) : j \in 1 .. k - 1})]
<1>5. PICK g \in [0 .. n -> Nat] : g = def(g)
  <2>1. PICK g \in [0 .. n -> Nat] :
          g[0] = 0 /\ \A k \in 1 .. n : g[k] = step[k][g[k - 1]]
    BY <1>4 DEF Led
  <2>2. \A k \in 0 .. n : k # 0 => k - 1 \in 0 .. n /\ k \in 1 .. n  BY <1>1
  <2>3. \A k \in 0 .. n : k # 0 => step[k][g[k - 1]] = g[k - 1] + Own(l, k)
    BY <2>2
  <2>4. \A k \in 0 .. n : k # 0 => g[k - 1] \in Nat  BY <2>2
  <2>5. \A k \in 0 .. n : def(g)[k] = g[k]
    <3> SUFFICES ASSUME NEW k \in 0 .. n PROVE def(g)[k] = g[k]  OBVIOUS
    <3>1. CASE k = 0  BY <2>1, <3>1
    <3>2. CASE k # 0
      <4>1. g[k] = g[k - 1] + Own(l, k)
        <5>1. g[k] = step[k][g[k - 1]]  BY <2>1, <2>2, <3>2
        <5> QED  BY <2>3, <3>2, <5>1
      <4>2. g[k - 1] + 0 = g[k - 1]  BY <2>4, <3>2
      <4> QED  BY <3>2, <4>1, <4>2 DEF Own
    <3> QED  BY <3>1, <3>2
  <2> QED  BY <2>5
<1>6. Owed(l) = CHOOSE owed : owed = def(owed)  BY DEF Owed
<1> HIDE DEF def
<1>7. Owed(l) = def(Owed(l))  BY <1>5, <1>6
<1> DEFINE o == Owed(l)
<1>8. o[0] = 0
  <2>1. 0 \in 0 .. n  BY <1>1
  <2>2. def(o)[0] = 0  BY <2>1 DEF def
  <2> QED  BY <1>7, <2>2
<1>9. \A k \in 1 .. n : o[k] = IF s[k].x >= Width + 8 THEN o[k - 1]
                               ELSE o[k - 1] + Own(l, k)
  <2> SUFFICES ASSUME NEW k \in 1 .. n
               PROVE  o[k] = IF s[k].x >= Width + 8 THEN o[k - 1]
                             ELSE o[k - 1] + Own(l, k)
    OBVIOUS
  <2>1. k \in 0 .. n /\ k # 0  BY <1>1
  <2>2. def(o)[k] = IF s[k].x >= Width + 8 THEN o[k - 1] ELSE o[k - 1] + Own(l, k)
    BY <2>1 DEF def, Own
  <2> QED  BY <1>7, <2>2
<1> HIDE DEF o
<1>10. \A k \in 0 .. n : o[k] \in Nat
  <2> DEFINE S == {k \in 0 .. n : o[k] \in Nat}
  <2>1. 0 \in S  BY <1>1, <1>8
  <2>2. \A k \in 0 .. n - 1 : k \in S => k + 1 \in S
    <3> SUFFICES ASSUME NEW k \in 0 .. n - 1, o[k] \in Nat
                 PROVE  k + 1 \in 0 .. n /\ o[k + 1] \in Nat
      OBVIOUS
    <3>1. k + 1 \in 1 .. n /\ k + 1 \in 0 .. n /\ (k + 1) - 1 = k  BY <1>1
    <3> QED  BY <1>3, <1>9, <3>1
  <2> HIDE DEF S, n
  <2>3. \A k \in 0 .. n : k \in S  BY <1>1, <2>1, <2>2, CountUp
  <2> QED  BY <2>3 DEF S
<1>11. \A k \in 1 .. n : o[k] = o[k - 1] + Own(l, k)
  <2> SUFFICES ASSUME NEW k \in 1 .. n PROVE o[k] = o[k - 1] + Own(l, k)  OBVIOUS
  <2>1. k - 1 \in 0 .. n  BY <1>1
  <2>2. PICK v \in Nat : o[k - 1] = v  BY <1>10, <2>1
  <2>3. v + 0 = v  OBVIOUS
  <2>4. s[k].x >= Width + 8 => Own(l, k) = 0  BY DEF Own
  <2> QED  BY <1>9, <2>2, <2>3, <2>4
<1> QED  BY <1>3, <1>8, <1>10, <1>11 DEF o

(* The sum never falls, and stays where the rest is off the screen.          *)
LEMMA OwedGrows ==
  ASSUME NEW l \in Line, NEW j \in 0 .. Len(Selected(l))
  PROVE  /\ \A k \in j .. Len(Selected(l)) : Owed(l)[j] <= Owed(l)[k]
         /\ (\A i \in j + 1 .. Len(Selected(l)) : Selected(l)[i].x >= Width + 8)
              => Owed(l)[j] = FullPenalty(l)
<1> DEFINE n == Len(Selected(l))
           o == Owed(l)
           off == \A i \in j + 1 .. n : Selected(l)[i].x >= Width + 8
           S == {m \in 0 .. n - j : o[j] <= o[j + m] /\ (off => o[j] = o[j + m])}
<1>1. n \in Nat  BY SelectedIs
<1>2. /\ \A k \in 0 .. n : o[k] \in Nat
      /\ \A k \in 1 .. n : o[k] = o[k - 1] + Own(l, k) /\ Own(l, k) \in Nat
  BY OwedIs
<1>3. off => \A i \in j + 1 .. n : Own(l, i) = 0  BY DEF Own
<1>4. FullPenalty(l) = o[n]  BY DEF FullPenalty
<1> HIDE DEF n, o, off
<1>j. j \in 0 .. n  BY DEF n
<1>5. 0 \in S
  <2>1. o[j] \in Nat /\ 0 \in 0 .. n - j /\ j + 0 = j  BY <1>1, <1>2, <1>j
  <2>2. o[j] <= o[j]  BY <2>1
  <2> QED  BY <2>1, <2>2
<1>6. \A m \in 0 .. (n - j) - 1 : m \in S => m + 1 \in S
  <2> SUFFICES ASSUME NEW m \in 0 .. (n - j) - 1, m \in S PROVE m + 1 \in S  OBVIOUS
  <2>1. /\ m + 1 \in 0 .. n - j /\ j + (m + 1) \in 1 .. n /\ (j + (m + 1)) - 1 = j + m
        /\ j + (m + 1) \in j + 1 .. n /\ j + m \in 0 .. n
    BY <1>1, <1>j
  <2>2. PICK a \in Nat, b \in Nat, c \in Nat :
          o[j] = a /\ o[j + m] = b /\ Own(l, j + (m + 1)) = c
    BY <1>2, <1>j, <2>1
  <2>3. o[j + (m + 1)] = b + c  BY <1>2, <2>1, <2>2
  <2>4. a <= b /\ (off => a = b)  BY <2>2
  <2>5. off => c = 0  BY <1>3, <2>1, <2>2
  <2>6. a <= b + c /\ (off => a = b + c)  BY <2>4, <2>5
  <2> QED  BY <2>1, <2>2, <2>3, <2>6
<1>7. \A m \in 0 .. n - j : m \in S
  <2>1. n - j \in Nat  BY <1>1, <1>j
  <2> HIDE DEF S
  <2> QED  BY <1>5, <1>6, <2>1, CountUp
<1>8. \A k \in j .. n : o[j] <= o[k] /\ (off => o[j] = o[k])
  <2> SUFFICES ASSUME NEW k \in j .. n PROVE o[j] <= o[k] /\ (off => o[j] = o[k])
    OBVIOUS
  <2>1. k - j \in 0 .. n - j /\ j + (k - j) = k  BY <1>1, <1>j
  <2> QED  BY <1>7, <2>1
<1>9. n \in j .. n  BY <1>1, <1>j
<1> QED  BY <1>4, <1>8, <1>9 DEF n, o, off

(* The objects of a line owe nothing, or between six dots and eleven for each. *)
LEMMA FullPenaltyIs ==
  ASSUME NEW l \in Line
  PROVE  \E p \in Nat, m \in Nat :
           /\ FullPenalty(l) = p /\ MaxObjs = m
           /\ p = 0 \/ p >= 6
           /\ p <= 11 * m
<1> DEFINE n == Len(Selected(l))
           S == {k \in 0 .. n : /\ Owed(l)[k] = 0 \/ Owed(l)[k] >= 6
                                /\ Owed(l)[k] <= 11 * k}
<1>1. n \in Nat /\ n <= MaxObjs  BY SelectedIs
<1>2. /\ Owed(l)[0] = 0
      /\ \A k \in 0 .. n : Owed(l)[k] \in Nat
      /\ \A k \in 1 .. n : Owed(l)[k] = Owed(l)[k - 1] + Own(l, k)
      /\ \A k \in 1 .. n : Own(l, k) \in Nat /\ (Own(l, k) = 0 \/ Own(l, k) >= 6)
      /\ \A k \in 1 .. n : Own(l, k) <= 11
  BY OwedIs
<1>f. FullPenalty(l) = Owed(l)[n]  BY DEF FullPenalty
<1> HIDE DEF n
<1>3. 0 \in S
  <2>1. 0 \in 0 .. n /\ 0 <= 11 * 0  BY <1>1
  <2> QED  BY <1>2, <2>1
<1>4. \A k \in 0 .. n - 1 : k \in S => k + 1 \in S
  <2> SUFFICES ASSUME NEW k \in 0 .. n - 1, k \in S PROVE k + 1 \in S  OBVIOUS
  <2>1. k + 1 \in 0 .. n /\ k + 1 \in 1 .. n /\ (k + 1) - 1 = k /\ k \in 0 .. n  BY <1>1
  <2>2. PICK a \in Nat, c \in Nat : Owed(l)[k] = a /\ Own(l, k + 1) = c  BY <1>2, <2>1
  <2>3. Owed(l)[k + 1] = a + c /\ (c = 0 \/ c >= 6) /\ c <= 11  BY <1>2, <2>1, <2>2
  <2>4. (a = 0 \/ a >= 6) /\ a <= 11 * k  BY <2>2
  <2>5. (a + c = 0 \/ a + c >= 6) /\ a + c <= 11 * (k + 1)  BY <2>3, <2>4
  <2> QED  BY <2>1, <2>3, <2>5
<1>5. \A k \in 0 .. n : k \in S
  <2> HIDE DEF S
  <2> QED  BY <1>1, <1>3, <1>4, CountUp
<1>6. n \in 0 .. n  BY <1>1
<1>7. PICK p \in Nat : FullPenalty(l) = p /\ (p = 0 \/ p >= 6) /\ p <= 11 * n
  BY <1>2, <1>5, <1>6, <1>f
<1>8. PICK m \in Nat : MaxObjs = m  BY ScanlineAssumption
<1>9. p <= 11 * m  BY <1>1, <1>7, <1>8
<1> QED  BY <1>7, <1>8, <1>9

(* obj_mode3_penalty: a line that has a penalty has one of at least three    *)
(* dots and, with ten objects, of at most 107, the largest of Ppu's Pens.    *)
THEOREM ThePenaltyFits ==
  \A l \in Line :
    /\ Penalty(l) \in Nat
    /\ FullPenalty(l) = IF Penalty(l) > 0 THEN Penalty(l) + 3 ELSE 0
    /\ Penalty(l) > 0 => Penalty(l) >= 3 /\ Penalty(l) <= 11 * MaxObjs - 3
<1> SUFFICES ASSUME NEW l \in Line
             PROVE  /\ Penalty(l) \in Nat
                    /\ FullPenalty(l) = IF Penalty(l) > 0 THEN Penalty(l) + 3 ELSE 0
                    /\ Penalty(l) > 0 => Penalty(l) >= 3 /\ Penalty(l) <= 11 * MaxObjs - 3
  OBVIOUS
<1>1. PICK p \in Nat, m \in Nat : /\ FullPenalty(l) = p /\ MaxObjs = m
                                  /\ p = 0 \/ p >= 6
                                  /\ p <= 11 * m
  BY FullPenaltyIs
<1>2. Penalty(l) = IF p > 0 THEN p - 3 ELSE 0  BY <1>1 DEF Penalty
<1> QED  BY <1>1, <1>2

-----------------------------------------------------------------------------
Slots == Pixels({"obj", "none"})

\* What the slot of the column x holds when the first n objects are fetched.
Slot(n, x) ==
  LET s  == Selected(line)
      at == {k \in 1 .. n : Opaque(s[k], x)}
  IN  IF at = {} THEN None ELSE Piece(s[Min(at)], Column(s[Min(at)], x))

(* The objects of the line in use.                                           *)
LEMMA ObjectsAre ==
  ASSUME line \in Lines
  PROVE  \E n \in Nat :
           /\ Len(Selected(line)) = n /\ n <= MaxObjs
           /\ \A k \in 1 .. n : /\ Selected(line)[k].x \in 0 .. 255
                                /\ Selected(line)[k].solid \in SUBSET (0 .. 7)
                                /\ Selected(line)[k].oam \in Nat
                                /\ line.objs[Selected(line)[k].oam].behind
                                     = Selected(line)[k].behind
           /\ \A j, k \in 1 .. n : j < k => Selected(line)[j].x <= Selected(line)[k].x
<1>1. line \in Line  BY FifoAssumption
<1> QED  BY <1>1, SelectedIs

(* One more object: it shows where the ones before it do not.                *)
LEMMA SlotGrows ==
  ASSUME NEW n \in Nat, NEW x
  PROVE  LET o == Selected(line)[n + 1]
         IN  Slot(n + 1, x) = IF Slot(n, x) = None /\ Opaque(o, x)
                              THEN Piece(o, Column(o, x)) ELSE Slot(n, x)
<1> DEFINE s == Selected(line)
           a == {k \in 1 .. n : Opaque(s[k], x)}
           b == {k \in 1 .. n + 1 : Opaque(s[k], x)}
<1>1. /\ Slot(n, x) = IF a = {} THEN None ELSE Piece(s[Min(a)], Column(s[Min(a)], x))
      /\ Slot(n + 1, x) = IF b = {} THEN None ELSE Piece(s[Min(b)], Column(s[Min(b)], x))
  BY DEF Slot
<1>2. b = IF Opaque(s[n + 1], x) THEN a \cup {n + 1} ELSE a
  <2>1. 1 .. n + 1 = (1 .. n) \cup {n + 1} /\ n + 1 \notin 1 .. n  OBVIOUS
  <2> QED  BY <2>1
<1>3. a \in SUBSET Nat /\ b \in SUBSET Nat /\ \A k \in a : k <= n  OBVIOUS
<1>4. a # {} => Slot(n, x) # None
  BY <1>1 DEF Piece, None
<1> HIDE DEF a, b, s
<1>5. CASE a = {} /\ Opaque(s[n + 1], x)
  <2>1. b = {n + 1}  BY <1>2, <1>5
  <2>2. Min(b) = n + 1  BY <1>3, <2>1, Least
  <2> QED  BY <1>1, <1>5, <2>1, <2>2 DEF s
<1>6. CASE a # {} /\ Opaque(s[n + 1], x)
  <2>1. b = a \cup {n + 1}  BY <1>2, <1>6
  <2>2. Min(a) \in a /\ \A k \in a : Min(a) <= k  BY <1>3, <1>6, Least
  <2>3. Min(b) \in b /\ \A k \in b : Min(b) <= k  BY <1>3, <2>1, Least
  <2>4. Min(b) = Min(a)
    <3>1. PICK p \in Nat, q \in Nat : Min(a) = p /\ Min(b) = q  BY <1>3, <2>2, <2>3
    <3>2. p \in a /\ q \in b /\ p \in b  BY <2>1, <2>2, <2>3, <3>1
    <3>3. q <= p /\ p <= n  BY <1>3, <2>3, <3>1, <3>2
    <3>4. q \in a
      <4>1. q # n + 1  BY <3>3
      <4> QED  BY <2>1, <3>2, <4>1
    <3>5. p <= q  BY <2>2, <3>1, <3>4
    <3> QED  BY <3>1, <3>3, <3>5
  <2> QED  BY <1>1, <1>4, <1>6, <2>1, <2>4 DEF s
<1>7. CASE ~Opaque(s[n + 1], x)
  <2>1. b = a  BY <1>2, <1>7
  <2> QED  BY <1>1, <1>7, <2>1 DEF s
<1> QED  BY <1>5, <1>6, <1>7

(* A slot is a column of an object, and empty to the right of them all.      *)
LEMMA SlotIs ==
  ASSUME line \in Lines, NEW n \in 0 .. Len(Selected(line)), NEW x \in Int
  PROVE  /\ Slot(n, x) \in Slots
         /\ (\A k \in 1 .. n : Selected(line)[k].x <= x) => Slot(n, x) = None
<1> DEFINE s == Selected(line)
           a == {k \in 1 .. n : Opaque(s[k], x)}
<1>1. Slot(n, x) = IF a = {} THEN None ELSE Piece(s[Min(a)], Column(s[Min(a)], x))
  BY DEF Slot
<1>2. PICK m \in Nat :
        /\ Len(s) = m
        /\ \A k \in 1 .. m : /\ s[k].x \in 0 .. 255 /\ s[k].solid \in SUBSET (0 .. 7)
                             /\ s[k].oam \in Nat
  BY ObjectsAre
<1>3. n \in Nat /\ \A k \in 1 .. n : k \in 1 .. m  BY <1>2
<1>4. a \in SUBSET Nat /\ \A k \in a : k \in 1 .. n /\ k \in 1 .. m /\ Opaque(s[k], x)
  BY <1>3
<1>5. None \in Slots
  <2>1. 0 \in 0 .. MapWidth - 1  BY Sizes
  <2> QED  BY <2>1 DEF None, Slots, Pixels
<1> HIDE DEF a
<1>6. CASE a = {}
  BY <1>1, <1>5, <1>6
<1>7. CASE a # {}
  <2>1. PICK k \in 1 .. m : k = Min(a) /\ k \in 1 .. n /\ Opaque(s[k], x)
    BY <1>4, <1>7, Least
  <2>2. Slot(n, x) = Piece(s[k], Column(s[k], x))  BY <1>1, <1>7, <2>1
  <2>3. Column(s[k], x) \in 0 .. 7  BY <1>2, <2>1 DEF Opaque
  <2>4. \A c \in 0 .. 7 : c \in 0 .. MapWidth - 1  BY Sizes
  <2>5. Slot(n, x) \in Slots
    BY <1>2, <2>2, <2>3, <2>4 DEF Piece, Slots, Pixels
  <2>6. ~(s[k].x <= x)
    <3>1. PICK v \in Int : s[k].x = v
      <4>1. \A u \in 0 .. 255 : u \in Int  OBVIOUS
      <4> QED  BY <1>2, <4>1
    <3>2. x - (v - 8) <= 7  BY <2>3, <3>1 DEF Column
    <3> QED  BY <3>1, <3>2
  <2> QED  BY <2>1, <2>5, <2>6
<1> QED  BY <1>6, <1>7

\* The objects fetched, their stall, and the slots that show them.
Served(f) ==
  LET s == Selected(line)
  IN  /\ f.next \in 0 .. Len(s) /\ f.stall \in Nat
      /\ f.paid = {BgTile(s[j], line.scx) : j \in 1 .. f.next}
      /\ \A k \in 1 .. f.next : s[k].x < Width + 8 /\ s[k].x - 8 <= f.x
      /\ f.objq \in [1 .. 8 -> Slots]
      /\ \A i \in 1 .. 8 : f.objq[i] = Slot(f.next, f.x + i - 1)

\* What an object that is fetched may change.
Kept(f) == [win : {f.win}, queue : {f.queue}, col : {f.col}, step : {f.step},
            timer : {f.timer}, tile : {f.tile}, warm : {f.warm}, discard : {f.discard},
            stall : Nat, objq : [1 .. 8 -> Slots], next : Nat, paid : SUBSET Int,
            x : {f.x}, dot : {f.dot}, px : {f.px}]

OnlyObjects(f, g) == SameBg(f, g) /\ g.timer = f.timer /\ g.dot = f.dot /\ g.px = f.px

(* What is kept, field by field.                                              *)
LEMMA KeptIs ==
  ASSUME NEW f, NEW g \in Kept(f)
  PROVE  /\ OnlyObjects(f, g) /\ g.stall \in Nat /\ g.next \in Nat
         /\ g.paid \in SUBSET Int /\ g.objq \in [1 .. 8 -> Slots]
  BY DEF Kept, OnlyObjects, SameBg, Shaped, Fields

(* An object that is fetched stays within what it may change.                 *)
LEMMA FetchObjKept ==
  ASSUME line \in Lines, NEW f \in FifoState, NEW g \in Kept(f),
         NEW k \in 1 .. Len(Selected(line))
  PROVE  FetchObj(g, Selected(line)[k]) \in Kept(f)
<1> DEFINE o == Selected(line)[k]
           gone == IF o.x - 8 < g.x THEN g.x - (o.x - 8) ELSE 0
           slots == [i \in 1 .. 8 |-> IF g.objq[i] = None /\ gone + i - 1 \in o.solid
                                      THEN Piece(o, gone + i - 1) ELSE g.objq[i]]
           cost == Cost(o, line.scx, g.paid)
           t == BgTile(o, line.scx)
<1>1. o.x \in 0 .. 255 /\ o.solid \in SUBSET (0 .. 7) /\ o.oam \in Nat  BY ObjectsAre
<1>2. cost \in Nat /\ t \in Int  BY <1>1, LineIs, CostIs
<1>3. g.stall \in Nat /\ g.next \in Nat /\ g.paid \in SUBSET Int /\ g.objq \in [1 .. 8 -> Slots]
  BY KeptIs
<1>4. slots \in [1 .. 8 -> Slots]
  <2>1. \A c \in 0 .. 7 : c \in 0 .. MapWidth - 1  BY Sizes
  <2>2. \A c \in o.solid : Piece(o, c) \in Slots
    BY <1>1, <2>1 DEF Piece, Slots, Pixels
  <2> HIDE DEF gone
  <2>3. \A i \in 1 .. 8 : slots[i] \in Slots  BY <1>3, <2>2
  <2> QED  BY <2>3
<1> DEFINE h == [g EXCEPT !.next = g.next + 1, !.stall = g.stall + cost,
                          !.paid = g.paid \cup {t}, !.objq = slots]
<1>5. FetchObj(g, o) = h  BY DEF FetchObj
<1> HIDE DEF slots, cost, t, o
<1>6. g.next + 1 \in Nat /\ g.stall + cost \in Nat /\ g.paid \cup {t} \in SUBSET Int
  <2>1. PICK a \in Nat, c \in Nat, b \in Nat : g.next = a /\ cost = c /\ g.stall = b
    BY <1>2, <1>3
  <2>2. a + 1 \in Nat /\ b + c \in Nat  OBVIOUS
  <2>3. g.paid \cup {t} \in SUBSET Int  BY <1>2, <1>3
  <2> QED  BY <2>1, <2>2, <2>3
<1>7. h \in Kept(f)  BY <1>4, <1>6 DEF Kept
<1> QED  BY <1>5, <1>7 DEF o

(* One object more: its cost is owed, its columns go to the empty slots.      *)
LEMMA FetchObjIs ==
  ASSUME line \in Lines, NEW f \in FifoState, NEW g \in Kept(f), Served(g),
         g.next < Len(Selected(line)), NEW o, o = Selected(line)[g.next + 1],
         o.x < Width + 8, o.x - 8 <= f.x
  PROVE  LET h == FetchObj(g, o)
         IN  /\ Served(h) /\ h.next = g.next + 1
             /\ h.stall = g.stall + Owed(line)[g.next + 1] - Owed(line)[g.next]
<1> DEFINE s == Selected(line)
           h == FetchObj(g, o)
<1>1. PICK n \in Nat : Len(s) = n /\ \A k \in 1 .. n : s[k].x \in 0 .. 255
  BY ObjectsAre
<1>2. PICK j \in Nat : g.next = j  BY KeptIs
<1>3. j + 1 \in 1 .. n /\ j \in 0 .. n /\ o = s[j + 1]  BY <1>1, <1>2
<1>4. h \in Kept(f)
  <2> HIDE DEF s
  <2>1. FetchObj(g, s[j + 1]) \in Kept(f)  BY <1>1, <1>3, FetchObjKept DEF s
  <2> QED  BY <1>3, <2>1
<1>5. PICK x \in Nat : f.x = x
  <2>1. f.x \in 0 .. Width  BY DEF FifoState
  <2> QED  BY <2>1, Sizes
<1>6. g.x = x /\ h.x = x /\ h.stall \in Nat /\ h.objq \in [1 .. 8 -> Slots]
  BY <1>4, <1>5, KeptIs DEF OnlyObjects, SameBg
<1> DEFINE gone == IF o.x - 8 < g.x THEN g.x - (o.x - 8) ELSE 0
           slots == [i \in 1 .. 8 |-> IF g.objq[i] = None /\ gone + i - 1 \in o.solid
                                      THEN Piece(o, gone + i - 1) ELSE g.objq[i]]
           cost == Cost(o, line.scx, g.paid)
           t == BgTile(o, line.scx)
<1>7. /\ h.next = j + 1 /\ h.stall = g.stall + cost /\ h.paid = g.paid \cup {t}
      /\ h.objq = slots
  <2>1. h = [g EXCEPT !.next = g.next + 1, !.stall = g.stall + cost,
                      !.paid = g.paid \cup {t}, !.objq = slots]
    BY DEF FetchObj
  <2>2. Shaped(g)  BY KeptIs DEF OnlyObjects, SameBg
  <2> HIDE DEF h, slots, cost, t
  <2> QED  BY <1>2, <2>1, <2>2 DEF Shaped, Fields
<1>8. PICK v \in 0 .. 255 : o.x = v /\ v - 8 <= x /\ v < Width + 8  BY <1>1, <1>3, <1>5
<1> HIDE DEF h
<1>9. gone = x - (v - 8)  BY <1>5, <1>6, <1>8
<1>10. \A i \in 1 .. 8 : slots[i] = Slot(j + 1, x + i - 1)
  <2> SUFFICES ASSUME NEW i \in 1 .. 8 PROVE slots[i] = Slot(j + 1, x + i - 1)
    OBVIOUS
  <2> HIDE DEF gone
  <2>1. gone + i - 1 = Column(o, x + i - 1)
    <3>1. x - (v - 8) + i - 1 = (x + i - 1) - (v - 8)  OBVIOUS
    <3> QED  BY <1>8, <1>9, <3>1 DEF Column
  <2>2. g.objq[i] = Slot(j, x + i - 1)  BY <1>2, <1>6 DEF Served
  <2>3. Slot(j + 1, x + i - 1) = IF Slot(j, x + i - 1) = None /\ Opaque(o, x + i - 1)
                                 THEN Piece(o, Column(o, x + i - 1)) ELSE Slot(j, x + i - 1)
    BY <1>3, SlotGrows
  <2> QED  BY <2>1, <2>2, <2>3 DEF Opaque
<1>11. g.paid = {BgTile(s[k], line.scx) : k \in 1 .. j}  BY <1>2 DEF Served
<1>12. h.paid = {BgTile(s[k], line.scx) : k \in 1 .. j + 1}
  <2>1. 1 .. j + 1 = (1 .. j) \cup {j + 1}  OBVIOUS
  <2> HIDE DEF s
  <2> QED  BY <1>3, <1>7, <1>11, <2>1
<1>13. h.stall = g.stall + Owed(line)[j + 1] - Owed(line)[j]
  <2>1. line \in Line  BY FifoAssumption
  <2>2. (j + 1) - 1 = j /\ j + 1 \in 0 .. n  BY <1>3
  <2>3. Own(line, j + 1) = cost
    <3>1. ~(v >= Width + 8)  BY <1>8, Sizes
    <3> QED  BY <1>3, <1>8, <1>11, <2>2, <3>1 DEF Own
  <2>4. /\ Owed(line)[j + 1] = Owed(line)[j] + Own(line, j + 1)
        /\ Owed(line)[j] \in Nat /\ Own(line, j + 1) \in Nat
    BY <1>1, <1>3, <2>1, <2>2, OwedIs
  <2>5. PICK a \in Nat, c \in Nat, b \in Nat :
          Owed(line)[j] = a /\ cost = c /\ g.stall = b
    BY <2>3, <2>4, KeptIs
  <2>6. Owed(line)[j + 1] = a + c  BY <2>3, <2>4, <2>5
  <2>7. b + c = b + (a + c) - a  OBVIOUS
  <2> QED  BY <1>7, <2>5, <2>6, <2>7
<1>14. Served(h)
  <2>1. h.next \in 0 .. Len(s) /\ h.stall \in Nat  BY <1>1, <1>3, <1>6, <1>7
  <2>2. \A k \in 1 .. j + 1 : s[k].x < Width + 8 /\ s[k].x - 8 <= h.x
    <3>1. \A k \in 1 .. j : s[k].x < Width + 8 /\ s[k].x - 8 <= x
      BY <1>2, <1>6 DEF Served
    <3>2. \A k \in 1 .. j + 1 : k \in 1 .. j \/ k = j + 1  OBVIOUS
    <3> QED  BY <1>3, <1>5, <1>6, <3>1, <3>2
  <2>3. \A i \in 1 .. 8 : h.objq[i] = Slot(h.next, h.x + i - 1)  BY <1>6, <1>7, <1>10
  <2> QED  BY <1>6, <1>7, <1>12, <2>1, <2>2, <2>3 DEF Served
<1> QED  BY <1>2, <1>7, <1>13, <1>14 DEF h

(* Nothing is fetched.                                                        *)
LEMMA KeptSelf ==
  ASSUME line \in Lines, NEW f \in FifoState, Served(f)
  PROVE  f \in Kept(f)
<1>1. f.stall \in Nat /\ f.objq \in [1 .. 8 -> Slots]  BY DEF Served
<1>2. f.paid \in SUBSET Int  BY DEF FifoState
<1>3. f.next \in Nat
  <2>1. PICK n \in Nat : Len(Selected(line)) = n  BY ObjectsAre
  <2>2. f.next \in 0 .. n  BY <2>1 DEF Served
  <2> QED  BY <2>2
<1> QED  BY <1>1, <1>2, <1>3 DEF Kept, FifoState

(* The fetches one after the other.                                          *)
LEMMA FetchesAre ==
  ASSUME line \in Lines, NEW f \in FifoState, Served(f)
  PROVE  LET s == Selected(line)
             got == Fetches(f, s)
         IN  /\ got[0] = f
             /\ \A k \in 0 .. Len(s) - f.next : got[k] \in Kept(f)
             /\ \A k \in 1 .. Len(s) - f.next : got[k] = FetchObj(got[k - 1], s[f.next + k])
<1> DEFINE s == Selected(line)
           got == Fetches(f, s)
<1>1. PICK n \in Nat : Len(s) = n  BY ObjectsAre
<1>2. PICK j \in 0 .. n : f.next = j  BY <1>1 DEF Served
<1> DEFINE m == n - j
           step == [k \in 1 .. m |-> [g \in Kept(f) |-> FetchObj(g, s[j + k])]]
           def(h) == [k \in 0 .. m |-> IF k = 0 THEN f ELSE FetchObj(h[k - 1], s[j + k])]
<1>3. m \in Nat /\ 0 \in 0 .. m /\ \A k \in 1 .. m : j + k \in 1 .. n /\ k \in 0 .. m /\ k # 0
  BY <1>1, <1>2
<1>4. got = CHOOSE h : h = def(h)
  BY <1>1, <1>2 DEF Fetches
<1>5. f \in Kept(f)  BY KeptSelf
<1> HIDE DEF m, s, got
<1>6. step \in [1 .. m -> [Kept(f) -> Kept(f)]]
  <2>1. \A k \in 1 .. m, g \in Kept(f) : FetchObj(g, s[j + k]) \in Kept(f)
    BY <1>1, <1>3, FetchObjKept DEF s
  <2> QED  BY <2>1
<1>7. PICK h : Led(h, m, Kept(f), f, step)
  <2> HIDE DEF step
  <2> QED  BY <1>3, <1>5, <1>6, Recursion
<1>8. h = def(h)
  <2>1. h \in [0 .. m -> Kept(f)] /\ h[0] = f /\ \A k \in 1 .. m : h[k] = step[k][h[k - 1]]
    BY <1>7 DEF Led
  <2>2. \A k \in 1 .. m : k - 1 \in 0 .. m  BY <1>3
  <2>3. \A k \in 1 .. m : h[k] = FetchObj(h[k - 1], s[j + k])  BY <2>1, <2>2
  <2>4. \A k \in 0 .. m : k = 0 \/ k \in 1 .. m  BY <1>3
  <2>5. \A k \in 0 .. m : h[k] = def(h)[k]  BY <2>1, <2>3, <2>4
  <2> QED  BY <2>1, <2>5
<1> HIDE DEF def
<1>9. got = def(got)  BY <1>4, <1>8
<1>10. got[0] = f /\ \A k \in 1 .. m : got[k] = FetchObj(got[k - 1], s[j + k])
  <2>1. def(got)[0] = f  BY <1>3 DEF def
  <2>2. \A k \in 1 .. m : def(got)[k] = FetchObj(got[k - 1], s[j + k])  BY <1>3 DEF def
  <2> QED  BY <1>9, <2>1, <2>2
<1>11. \A k \in 0 .. m : got[k] \in Kept(f)
  <2> DEFINE S == {k \in 0 .. m : got[k] \in Kept(f)}
  <2>1. 0 \in S  BY <1>3, <1>5, <1>10
  <2>2. \A k \in 0 .. m - 1 : k \in S => k + 1 \in S
    <3> SUFFICES ASSUME NEW k \in 0 .. m - 1, got[k] \in Kept(f)
                 PROVE  k + 1 \in 0 .. m /\ got[k + 1] \in Kept(f)
      OBVIOUS
    <3>1. k + 1 \in 1 .. m /\ (k + 1) - 1 = k /\ k + 1 \in 0 .. m  BY <1>3
    <3>2. got[k + 1] = FetchObj(got[k], s[j + (k + 1)]) /\ j + (k + 1) \in 1 .. n
      BY <1>3, <1>10, <3>1
    <3> QED  BY <1>1, <3>1, <3>2, FetchObjKept DEF s
  <2>3. \A k \in 0 .. m : k \in S
    <3> HIDE DEF S
    <3> QED  BY <1>3, <2>1, <2>2, CountUp
  <2> QED  BY <2>3
<1> QED  BY <1>1, <1>2, <1>10, <1>11 DEF m, s, got

(* After the fetches up to the m-th object.                                  *)
LEMMA FetchesServe ==
  ASSUME line \in Lines, NEW f \in FifoState, Served(f),
         NEW m \in f.next .. Len(Selected(line)),
         \A k \in f.next + 1 .. m : /\ Selected(line)[k].x < Width + 8
                                    /\ Selected(line)[k].x - 8 <= f.x
  PROVE  LET g == Fetches(f, Selected(line))[m - f.next]
         IN  /\ g \in Kept(f) /\ Served(g) /\ g.next = m
             /\ g.stall = f.stall + Owed(line)[m] - Owed(line)[f.next]
<1> DEFINE s == Selected(line)
           got == Fetches(f, s)
           o == Owed(line)
<1>1. PICK n \in Nat : Len(s) = n  BY ObjectsAre
<1>2. PICK j \in 0 .. n : f.next = j  BY <1>1 DEF Served
<1>3. PICK a \in Nat : f.stall = a  BY DEF Served
<1>4. m \in j .. n /\ m \in 0 .. n  BY <1>1, <1>2
<1>5. /\ got[0] = f
      /\ \A k \in 0 .. n - j : got[k] \in Kept(f)
      /\ \A k \in 1 .. n - j : got[k] = FetchObj(got[k - 1], s[j + k])
  BY <1>1, <1>2, FetchesAre
<1>6. line \in Line  BY FifoAssumption
<1>7. \A k \in 0 .. n : o[k] \in Nat
  BY <1>1, <1>6, OwedIs
<1> HIDE DEF s, got, o
<1> DEFINE S == {k \in 0 .. m - j : /\ Served(got[k]) /\ got[k].next = j + k
                                    /\ got[k].stall = a + o[j + k] - o[j]}
<1>8. 0 \in S
  <2>1. 0 \in 0 .. m - j /\ j + 0 = j  BY <1>4
  <2>2. a = a + o[j] - o[j]
    <3>1. PICK b \in Nat : o[j] = b  BY <1>7
    <3> QED  BY <3>1
  <2> QED  BY <1>2, <1>3, <1>5, <2>1, <2>2
<1>9. \A k \in 0 .. (m - j) - 1 : k \in S => k + 1 \in S
  <2> SUFFICES ASSUME NEW k \in 0 .. (m - j) - 1, k \in S PROVE k + 1 \in S  OBVIOUS
  <2>1. /\ k \in 0 .. n - j /\ k + 1 \in 1 .. n - j /\ (k + 1) - 1 = k
        /\ k + 1 \in 0 .. m - j /\ j + (k + 1) = (j + k) + 1 /\ j + k < n
        /\ j + k \in 0 .. n /\ (j + k) + 1 \in j + 1 .. m /\ (j + k) + 1 \in 0 .. n
    BY <1>4
  <2>2. got[k] \in Kept(f) /\ got[k + 1] = FetchObj(got[k], s[(j + k) + 1])
    BY <1>5, <2>1
  <2>3. s[(j + k) + 1].x < Width + 8 /\ s[(j + k) + 1].x - 8 <= f.x
    BY <1>2, <2>1 DEF s
  <2>4. /\ Served(got[k]) /\ got[k].next = j + k /\ got[k].stall = a + o[j + k] - o[j]
    OBVIOUS
  <2>5. /\ Served(got[k + 1]) /\ got[k + 1].next = (j + k) + 1
        /\ got[k + 1].stall = got[k].stall + o[(j + k) + 1] - o[j + k]
    BY <1>1, <2>1, <2>2, <2>3, <2>4, FetchObjIs DEF s, o
  <2>6. got[k + 1].stall = a + o[(j + k) + 1] - o[j]
    <3>1. PICK b \in Nat, c \in Nat, d \in Nat :
            o[j] = b /\ o[j + k] = c /\ o[(j + k) + 1] = d
      BY <1>7, <2>1
    <3>2. (a + c - b) + d - c = a + d - b  OBVIOUS
    <3> QED  BY <2>4, <2>5, <3>1, <3>2
  <2> QED  BY <2>1, <2>5, <2>6
<1>10. \A k \in 0 .. m - j : k \in S
  <2>1. m - j \in Nat  BY <1>4
  <2> HIDE DEF S
  <2> QED  BY <1>8, <1>9, <2>1, CountUp
<1>11. m - j \in 0 .. m - j /\ j + (m - j) = m /\ m - j \in 0 .. n - j  BY <1>4
<1>12. got[m - j] \in Kept(f)  BY <1>5, <1>11
<1>14. Served(got[m - j]) /\ got[m - j].next = m /\ got[m - j].stall = a + o[m] - o[j]
  BY <1>10, <1>11
<1> QED  BY <1>2, <1>3, <1>12, <1>14 DEF got, s, o

(* Every object whose left edge the mixer has come to is fetched.            *)
LEMMA ReachedIs ==
  ASSUME line \in Lines, NEW f \in FifoState, Served(f)
  PROVE  LET r == Reached(f)
             s == Selected(line)
         IN  /\ r \in Kept(f) /\ Served(r)
             /\ r.stall = f.stall + Owed(line)[r.next] - Owed(line)[f.next]
             /\ \A k \in r.next + 1 .. Len(s) : s[k].x < Width + 8 => s[k].x - 8 > f.x
<1> DEFINE s == Selected(line)
           here == {i \in 1 .. Len(s) : i > f.next /\ s[i].x < Width + 8 /\ s[i].x - 8 <= f.x}
<1>1. PICK n \in Nat :
        /\ Len(s) = n /\ \A k \in 1 .. n : s[k].x \in 0 .. 255
        /\ \A i, k \in 1 .. n : i < k => s[i].x <= s[k].x
  BY ObjectsAre
<1>2. PICK j \in 0 .. n : f.next = j  BY <1>1 DEF Served
<1>3. PICK x \in Nat : f.x = x
  <2>1. f.x \in 0 .. Width  BY DEF FifoState
  <2> QED  BY <2>1, Sizes
<1>w. PICK w \in Nat : Width = w  BY Sizes
<1>4. Reached(f) = IF here = {} THEN f ELSE Fetches(f, s)[Max(here) - f.next]
  BY DEF Reached
<1>5. here = {i \in 1 .. n : i > j /\ s[i].x < w + 8 /\ s[i].x - 8 <= x}
  BY <1>1, <1>2, <1>3, <1>w
<1>6. \A k \in 1 .. n : s[k].x \in Int
  <2>1. \A v \in 0 .. 255 : v \in Int  OBVIOUS
  <2> QED  BY <1>1, <2>1
<1> HIDE DEF here, s
<1>7. CASE here = {}
  <2>1. Reached(f) = f  BY <1>4, <1>7
  <2>2. f \in Kept(f)  BY KeptSelf
  <2>3. f.stall = f.stall + Owed(line)[f.next] - Owed(line)[f.next]
    <3>1. line \in Line  BY FifoAssumption
    <3>2. PICK a \in Nat, b \in Nat : f.stall = a /\ Owed(line)[f.next] = b
      BY <1>1, <1>2, <3>1, OwedIs DEF Served, s
    <3>3. a = a + b - b  OBVIOUS
    <3> QED  BY <3>2, <3>3
  <2>4. \A k \in j + 1 .. n : s[k].x < w + 8 => s[k].x - 8 > x
    <3> SUFFICES ASSUME NEW k \in j + 1 .. n, s[k].x < w + 8 PROVE s[k].x - 8 > x
      OBVIOUS
    <3>1. k \in 1 .. n /\ k > j  BY <1>2
    <3>2. ~(s[k].x - 8 <= x)  BY <1>5, <1>7, <3>1
    <3> QED  BY <1>6, <3>1, <3>2
  <2> QED  BY <1>1, <1>2, <1>3, <1>w, <2>1, <2>2, <2>3, <2>4 DEF s
<1>8. CASE here # {}
  <2>1. here \in SUBSET (1 .. n)  BY <1>5
  <2>2. PICK m \in 1 .. n : m = Max(here) /\ m \in here /\ \A k \in here : k <= m
    BY <1>8, <2>1, Greatest
  <2>3. m > j /\ s[m].x < w + 8 /\ s[m].x - 8 <= x  BY <1>5, <2>2
  <2>4. \A k \in j + 1 .. m : s[k].x < w + 8 /\ s[k].x - 8 <= x
    <3> SUFFICES ASSUME NEW k \in j + 1 .. m PROVE s[k].x < w + 8 /\ s[k].x - 8 <= x
      OBVIOUS
    <3>1. k \in 1 .. n /\ k <= m  BY <1>2
    <3>2. s[k].x <= s[m].x
      <4>1. CASE k < m  BY <1>1, <3>1, <4>1
      <4>2. CASE k = m
        <5>1. PICK v \in Int : s[m].x = v  BY <1>6
        <5> QED  BY <4>2, <5>1
      <4> QED  BY <3>1, <4>1, <4>2
    <3>3. PICK u \in Int, v \in Int : s[k].x = u /\ s[m].x = v  BY <1>6, <3>1
    <3> QED  BY <2>3, <3>2, <3>3
  <2> DEFINE r == Fetches(f, s)[m - j]
  <2>5. Reached(f) = r  BY <1>2, <1>4, <1>8, <2>2
  <2>6. /\ r \in Kept(f) /\ Served(r) /\ r.next = m
        /\ r.stall = f.stall + Owed(line)[m] - Owed(line)[j]
    <3>1. m \in j .. n  BY <1>2, <2>3
    <3>2. \A k \in f.next + 1 .. m : s[k].x < Width + 8 /\ s[k].x - 8 <= f.x
      BY <1>2, <1>3, <1>w, <2>4
    <3> QED  BY <1>1, <1>2, <3>1, <3>2, FetchesServe DEF s
  <2> HIDE DEF r
  <2>7. \A k \in m + 1 .. n : s[k].x < w + 8 => s[k].x - 8 > x
    <3> SUFFICES ASSUME NEW k \in m + 1 .. n, s[k].x < w + 8 PROVE s[k].x - 8 > x
      OBVIOUS
    <3>1. k \in 1 .. n /\ k > j /\ ~(k <= m)  BY <1>2, <2>3
    <3>2. ~(s[k].x - 8 <= x)  BY <1>5, <2>2, <3>1
    <3> QED  BY <1>6, <3>1, <3>2
  <2> QED  BY <1>1, <1>2, <1>3, <1>w, <2>5, <2>6, <2>7 DEF s
<1> QED  BY <1>7, <1>8
-----------------------------------------------------------------------------
\* The dots so far in which no object stalled the pipeline.
Used(f) == f.dot - Owed(line)[f.next] + f.stall

\* Where the map in use begins: its first pixel, how many are dropped before it,
\* and the dots used by then.
Fine     == line.scx % 8
Left(f)  == IF f.win /\ line.wx > 7 THEN line.wx - 7 ELSE 0
Drop(f)  == IF ~f.win THEN Fine ELSE IF line.wx <= 7 THEN 7 - line.wx ELSE 0
Began(f) == IF f.win /\ line.wx > 7 THEN Left(f) + WarmUp + Fine ELSE 0

\* The fetcher's dots since the map began, while the queue is still empty.
Warming(f) == (IF f.warm THEN 0 ELSE 6) + 2 * f.step + f.timer

Starting(f) == /\ f.queue = <<>> /\ f.stall = 0 /\ f.step <= 2
               /\ f.x = Left(f) /\ f.discard = Drop(f)
               /\ Used(f) = Began(f) + Warming(f)

\* The dots until the fetcher tries to push: the queue lasts until then.
Rest(f) == IF f.step < 3 THEN 2 * (3 - f.step) - f.timer ELSE 2 - f.timer

\* From the first pixel on, one is taken in every dot that is no stall.
Flowing(f) == /\ ~f.warm
              /\ f.x >= Left(f) /\ f.discard <= Drop(f) /\ (f.x > Left(f) => f.discard = 0)
              /\ Used(f) = Began(f) + WarmUp + (f.x - Left(f)) + (Drop(f) - f.discard)

Running(f) == Flowing(f) /\ Len(f.queue) >= Rest(f) - 1

InWindow(f) == f.win => line.win /\ line.wx <= Width + 6

\* The next dot begins the window: with the line, or behind its last pixel.
AtEdge(f) == line.win /\ ~f.win /\ f.x + 7 >= line.wx
               => /\ f.stall = 0
                  /\ \/ f.x = 0 /\ Used(f) = 0
                     \/ f.x > 0 /\ f.x + 7 = line.wx

Clock(f) == /\ Starting(f) \/ Running(f)
            /\ InWindow(f)

\* What the window and the fetcher leave alone.
SameObjects(f, g) == /\ g.next = f.next /\ g.stall = f.stall /\ g.paid = f.paid
                     /\ g.objq = f.objq /\ g.x = f.x /\ g.dot = f.dot /\ g.px = f.px

(* The objects are untouched.                                                 *)
LEMMA SameObjectsServe ==
  ASSUME NEW f, NEW g, Served(f), SameObjects(f, g)
  PROVE  Served(g) /\ Used(g) = Used(f)
  BY DEF Served, SameObjects, Used

(* The numbers of the clock.                                                 *)
LEMMA ClockNumbers ==
  ASSUME line \in Lines, NEW f, f.win \in BOOLEAN
  PROVE  /\ Left(f) \in Nat /\ Drop(f) \in 0 .. 7 /\ Began(f) \in Nat /\ Fine \in 0 .. 7
         /\ InWindow(f) => Left(f) < Width
<1>1. PICK v \in Nat : line.wx = v  BY LineIs
<1>2. PICK b \in 0 .. 7 : Fine = b  BY LineIs DEF Fine
<1>3. PICK w \in Nat : Width = w /\ w > 0  BY Sizes
<1>4. Left(f) = IF f.win /\ v > 7 THEN v - 7 ELSE 0  BY <1>1 DEF Left
<1>5. Drop(f) = IF ~f.win THEN b ELSE IF v <= 7 THEN 7 - v ELSE 0  BY <1>1, <1>2 DEF Drop
<1>6. Began(f) = IF f.win /\ v > 7 THEN (v - 7) + 11 + b ELSE 0
  BY <1>1, <1>2, <1>4 DEF Began, WarmUp
<1>7. InWindow(f) => (f.win => v <= w + 6)  BY <1>1, <1>3 DEF InWindow
<1>8. Left(f) \in Nat  BY <1>4
<1>9. Drop(f) \in 0 .. 7  BY <1>5
<1>10. Began(f) \in Nat  BY <1>6
<1>11. InWindow(f) => Left(f) < w  BY <1>3, <1>4, <1>7
<1> QED  BY <1>2, <1>3, <1>8, <1>9, <1>10, <1>11

(* The terms of the clock, and the bound of what is owed.                     *)
LEMMA UsedIs ==
  ASSUME line \in Lines, NEW f \in FifoState, Served(f)
  PROVE  /\ Used(f) \in Int /\ Owed(line)[f.next] \in Nat /\ f.stall \in Nat
         /\ Owed(line)[f.next] <= FullPenalty(line) /\ FullPenalty(line) \in Nat
<1>1. line \in Line  BY FifoAssumption
<1>2. PICK n \in Nat : Len(Selected(line)) = n  BY ObjectsAre
<1>3. PICK j \in 0 .. n : f.next = j  BY <1>2 DEF Served
<1>4. \A k \in 0 .. n : Owed(line)[k] \in Nat  BY <1>1, <1>2, OwedIs
<1>5. n \in 0 .. n /\ n \in j .. n  BY <1>3
<1>6. FullPenalty(line) = Owed(line)[n]  BY <1>2 DEF FullPenalty
<1>7. Owed(line)[j] <= Owed(line)[n]  BY <1>1, <1>2, <1>3, <1>5, OwedGrows
<1>8. PICK d \in Int : f.dot = d
  <2>1. MaxDots \in Nat /\ f.dot \in 0 .. MaxDots  BY FifoAssumption DEF FifoState
  <2>2. \A m \in Nat : \A v \in 0 .. m : v \in Int  OBVIOUS
  <2> QED  BY <2>1, <2>2
<1>9. f.stall \in Nat  BY DEF Served
<1>10. PICK a \in Nat, b \in Nat : Owed(line)[j] = a /\ f.stall = b  BY <1>3, <1>4, <1>9
<1>11. d - a + b \in Int  OBVIOUS
<1> QED  BY <1>3, <1>4, <1>5, <1>6, <1>7, <1>8, <1>9, <1>10, <1>11 DEF Used

(* The window starts in the dot it should.                                   *)
LEMMA TriggeredClock ==
  ASSUME line \in Lines, NEW f \in FifoState, Served(f), Clock(f), AtEdge(f), f.x < Width
  PROVE  LET g == Triggered(f)
         IN  g \in FifoState /\ SameObjects(f, g) /\ Clock(g)
<1> DEFINE d == IF line.wx < 7 THEN 7 - line.wx ELSE 0
           h == [f EXCEPT !.win = TRUE, !.queue = <<>>, !.step = 0, !.timer = 0,
                          !.col = 0, !.warm = TRUE, !.discard = d]
<1>1. PICK x \in Nat : f.x = x
  <2>1. f.x \in 0 .. Width  BY DEF FifoState
  <2> QED  BY <2>1, Sizes
<1>2. PICK v \in Nat : line.wx = v  BY LineIs
<1>3. CASE line.win /\ ~f.win /\ f.x + 7 >= line.wx
  <2>1. Triggered(f) = h  BY <1>3 DEF Triggered
  <2>2. d \in 0 .. 7  BY <1>2
  <2>3. h \in FifoState
    <3> HIDE DEF d
    <3>1. <<>> \in Seq(Pixels({"bg", "win"}))  BY EmptySeq
    <3>2. 0 \in Nat /\ 0 \in 0 .. 3 /\ 0 \in 0 .. 1  OBVIOUS
    <3> QED  BY <2>2, <3>1, <3>2 DEF FifoState
  <2>4. /\ h.win = TRUE /\ h.queue = <<>> /\ h.step = 0 /\ h.timer = 0 /\ h.warm = TRUE
        /\ h.discard = d /\ SameObjects(f, h)
    BY DEF FifoState, SameObjects
  <2> HIDE DEF h
  <2>5. f.stall = 0 /\ ((x = 0 /\ Used(f) = 0) \/ (x > 0 /\ x + 7 = v))
    BY <1>1, <1>2, <1>3 DEF AtEdge
  <2>6. h.x = x /\ h.stall = 0 /\ Used(h) = Used(f)
    BY <1>1, <2>4, <2>5 DEF SameObjects, Used
  <2>7. x + 7 >= v  BY <1>1, <1>2, <1>3
  <2>8. Warming(h) = 0  BY <2>4 DEF Warming
  <2>9. Starting(h)
    <3>1. CASE v > 7
      <4>1. x > 0 /\ x + 7 = v /\ x = v - 7  BY <2>5, <2>7, <3>1
      <4>2. Left(h) = x /\ Drop(h) = 0 /\ Began(h) = x + 11 + Fine
        BY <1>2, <2>4, <3>1, <4>1 DEF Left, Drop, Began, WarmUp
      <4>3. d = 0  BY <1>2, <3>1
      <4>4. Left(f) = 0 /\ Drop(f) = Fine /\ Began(f) = 0
        BY <1>3 DEF Left, Drop, Began
      <4>5. Running(f)
        <5>1. ~Starting(f)  BY <1>1, <4>1, <4>4 DEF Starting
        <5> QED  BY <5>1 DEF Clock
      <4>6. Used(f) = 0 + 11 + (x - 0) + (Fine - 0)
        BY <1>1, <4>1, <4>4, <4>5 DEF Running, Flowing, WarmUp
      <4>7. PICK b \in 0 .. 7 : Fine = b  BY LineIs DEF Fine
      <4>8. Used(h) = Began(h) + Warming(h)  BY <2>6, <2>8, <4>2, <4>6, <4>7
      <4> QED  BY <2>4, <2>6, <4>2, <4>3, <4>8 DEF Starting
    <3>2. CASE ~(v > 7)
      <4>1. x = 0 /\ Used(f) = 0  BY <2>5, <3>2
      <4>2. Left(h) = 0 /\ Drop(h) = 7 - v /\ Began(h) = 0
        BY <1>2, <2>4, <3>2 DEF Left, Drop, Began
      <4>3. d = 7 - v  BY <1>2, <3>2
      <4> QED  BY <2>4, <2>6, <2>8, <4>1, <4>2, <4>3 DEF Starting
    <3> QED  BY <3>1, <3>2
  <2>10. InWindow(h)
    <3>1. PICK w \in Nat : Width = w  BY Sizes
    <3>2. v <= w + 6  BY <1>1, <2>7, <3>1
    <3> QED  BY <1>2, <1>3, <3>1, <3>2 DEF InWindow
  <2> QED  BY <2>1, <2>3, <2>4, <2>9, <2>10 DEF Clock
<1>4. CASE ~(line.win /\ ~f.win /\ f.x + 7 >= line.wx)
  <2>1. Triggered(f) = f  BY <1>4 DEF Triggered
  <2> QED  BY <2>1 DEF SameObjects
<1> QED  BY <1>3, <1>4

\* The fetcher has had its turn of the dot, the mixer not yet.
Filling(f) == /\ f.queue = <<>> /\ f.stall = 0 /\ f.step <= 2
              /\ f.x = Left(f) /\ f.discard = Drop(f)
              /\ Used(f) + 1 = Began(f) + Warming(f)

Ready(f) == Flowing(f) /\ Len(f.queue) >= Rest(f)

Fed(f) == /\ IF f.stall > 0 THEN Running(f) ELSE Filling(f) \/ Ready(f)
          /\ InWindow(f)

\* What the fetcher leaves alone.
SameMap(f, g) == /\ SameObjects(f, g) /\ g.win = f.win /\ g.discard = f.discard

(* The clock does not see the fetcher.                                        *)
LEMMA SameMapFlows ==
  ASSUME NEW f, NEW g, SameMap(f, g)
  PROVE  /\ Left(g) = Left(f) /\ Drop(g) = Drop(f) /\ Began(g) = Began(f)
         /\ Used(g) = Used(f) /\ InWindow(g) = InWindow(f)
         /\ g.warm = f.warm => Flowing(g) = Flowing(f)
<1>1. Left(g) = Left(f) /\ Drop(g) = Drop(f) /\ Used(g) = Used(f) /\ InWindow(g) = InWindow(f)
  BY DEF SameMap, SameObjects, Left, Drop, Used, InWindow
<1>2. Began(g) = Began(f)  BY <1>1 DEF SameMap, Began
<1>3. g.x = f.x /\ g.discard = f.discard  BY DEF SameMap, SameObjects
<1> QED  BY <1>1, <1>2, <1>3 DEF Flowing

(* The fetcher's turn.                                                       *)
LEMMA FetchedClock ==
  ASSUME line \in Lines, NEW f \in FifoState, Served(f), Clock(f)
  PROVE  LET g == Fetched(f)
         IN  g \in FifoState /\ SameMap(f, g) /\ Fed(g)
<1>1. /\ f.step \in 0 .. 3 /\ f.timer \in 0 .. 1 /\ f.warm \in BOOLEAN /\ f.win \in BOOLEAN
      /\ f.queue \in Seq(Px) /\ f.col \in Nat /\ f.stall \in Nat
  BY DEF FifoState, Px
<1>2. PICK n \in Nat : Len(f.queue) = n  BY <1>1, LenProperties
<1>3. SameMap(f, f)  BY DEF SameMap, SameObjects
<1>4. Used(f) \in Int /\ Began(f) \in Nat  BY <1>1, UsedIs, ClockNumbers
<1>5. CASE f.stall > 0
  <2>1. Fetched(f) = f  BY <1>5 DEF Fetched
  <2>2. Running(f)  BY <1>5 DEF Clock, Starting
  <2> QED  BY <1>3, <1>5, <2>1, <2>2 DEF Fed, Clock
<1>6. CASE ~(f.stall > 0) /\ f.timer = 0
  <2> DEFINE g == [f EXCEPT !.timer = 1]
  <2>1. Fetched(f) = g  BY <1>6 DEF Fetched
  <2>2. g \in FifoState
    <3>1. 1 \in 0 .. 1  OBVIOUS
    <3> QED  BY <3>1 DEF FifoState
  <2>3. /\ SameMap(f, g) /\ g.queue = f.queue /\ g.step = f.step /\ g.warm = f.warm
        /\ g.timer = 1
    BY DEF FifoState, SameMap, SameObjects
  <2>4. g.stall = f.stall /\ g.x = f.x /\ g.discard = f.discard
    BY <2>3 DEF SameMap, SameObjects
  <2> HIDE DEF g
  <2>5. CASE Starting(f)
    <3>1. PICK k \in 0 .. 6, b \in Int, c \in Nat : /\ k = IF f.warm THEN 0 ELSE 6
                                                   /\ Used(f) = b /\ Began(f) = c
      BY <1>4
    <3>2. PICK s \in 0 .. 3 : f.step = s  BY <1>1
    <3>3. Warming(f) = k + 2 * s + 0 /\ Warming(g) = k + 2 * s + 1
      BY <1>6, <2>3, <3>1, <3>2 DEF Warming
    <3>4. b = c + (k + 2 * s + 0)  BY <2>5, <3>1, <3>3 DEF Starting
    <3>5. b + 1 = c + (k + 2 * s + 1)  BY <3>4
    <3>6. Used(g) + 1 = Began(g) + Warming(g)
      BY <2>3, <3>1, <3>3, <3>5, SameMapFlows
    <3>7. g.x = Left(g) /\ g.discard = Drop(g)
      BY <2>3, <2>4, <2>5, SameMapFlows DEF Starting
    <3>8. Filling(g)  BY <2>3, <2>4, <2>5, <3>6, <3>7 DEF Starting, Filling
    <3> QED  BY <1>6, <2>1, <2>2, <2>3, <2>4, <3>8, SameMapFlows DEF Fed, Clock
  <2>6. CASE Running(f)
    <3>1. PICK s \in 0 .. 3 : f.step = s  BY <1>1
    <3>2. Len(g.queue) >= Rest(g)
      <4>1. n >= (IF s < 3 THEN 2 * (3 - s) - 0 ELSE 2 - 0) - 1
        BY <1>2, <1>6, <2>6, <3>1 DEF Running, Rest
      <4>2. n >= IF s < 3 THEN 2 * (3 - s) - 1 ELSE 2 - 1  BY <4>1
      <4> QED  BY <1>2, <2>3, <3>1, <4>2 DEF Rest
    <3>3. Ready(g)  BY <2>3, <2>6, <3>2, SameMapFlows DEF Ready, Running
    <3> QED  BY <1>6, <2>1, <2>2, <2>3, <2>4, <3>3, SameMapFlows DEF Fed, Clock
  <2> QED  BY <2>5, <2>6 DEF Clock
<1>7. CASE ~(f.stall > 0) /\ f.timer # 0
  <2>a. f.timer = 1  BY <1>1, <1>7
  <2>b. PICK s \in 0 .. 3 : f.step = s  BY <1>1
  <2> DEFINE u == IF s < 3 THEN s + 1 ELSE 3
             g == [f EXCEPT !.timer = 0, !.step = IF f.step < 3 THEN f.step + 1 ELSE 3,
                            !.tile = IF f.step = 0 THEN TileAt(f) ELSE f.tile]
  <2>1. Fetched(f) = Pushed(g)  BY <1>7 DEF Fetched
  <2>2. u \in 0 .. 3 /\ u > 0  OBVIOUS
  <2>3. g \in FifoState
    <3>1. TileAt(f) \in 0 .. Tiles - 1
      <4>1. PICK a \in Nat, c \in Nat, t \in Nat :
              line.scx \div 8 = a /\ f.col = c /\ Tiles = t /\ t > 0
        BY <1>1, LineIs, Sizes
      <4>2. c % t \in 0 .. t - 1 /\ (a + c) % t \in 0 .. t - 1  BY <4>1
      <4> QED  BY <4>1, <4>2 DEF TileAt
    <3>2. f.tile \in 0 .. Tiles - 1  BY DEF FifoState
    <3>3. 0 \in 0 .. 1  OBVIOUS
    <3>4. (IF f.step < 3 THEN f.step + 1 ELSE 3) \in 0 .. 3  BY <2>b, <2>2
    <3>5. (IF f.step = 0 THEN TileAt(f) ELSE f.tile) \in 0 .. Tiles - 1  BY <3>1, <3>2
    <3> HIDE DEF Tiles
    <3> QED  BY <3>3, <3>4, <3>5 DEF FifoState
  <2>4. /\ SameMap(f, g) /\ g.queue = f.queue /\ g.step = u /\ g.warm = f.warm
        /\ g.timer = 0 /\ g.col = f.col /\ g.stall = f.stall /\ g.x = f.x
        /\ g.discard = f.discard
    BY <2>b DEF FifoState, SameMap, SameObjects
  <2> HIDE DEF g
  <2>5. CASE u < 3
    <3>0. s < 3 /\ u = s + 1  BY <2>5
    <3>1. Pushed(g) = g  BY <2>4, <2>5 DEF Pushed
    <3>2. CASE Starting(f)
      <4>1. PICK k \in 0 .. 6, b \in Int, c \in Nat : /\ k = IF f.warm THEN 0 ELSE 6
                                                     /\ Used(f) = b /\ Began(f) = c
        BY <1>4
      <4>2. Warming(f) = k + 2 * s + 1 /\ Warming(g) = k + 2 * (s + 1) + 0
        BY <2>a, <2>b, <2>4, <3>0, <4>1 DEF Warming
      <4>3. b = c + (k + 2 * s + 1)  BY <3>2, <4>1, <4>2 DEF Starting
      <4>4. b + 1 = c + (k + 2 * (s + 1) + 0)  BY <4>3
      <4>5. Used(g) + 1 = Began(g) + Warming(g)
        BY <2>4, <4>1, <4>2, <4>4, SameMapFlows
      <4>6. g.x = Left(g) /\ g.discard = Drop(g)
        BY <2>4, <3>2, SameMapFlows DEF Starting
      <4>7. g.step <= 2  BY <2>4, <2>5
      <4>8. Filling(g)  BY <2>4, <3>2, <4>5, <4>6, <4>7 DEF Starting, Filling
      <4> QED  BY <1>7, <2>1, <2>3, <2>4, <3>1, <4>8, SameMapFlows DEF Fed, Clock
    <3>3. CASE Running(f)
      <4>1. n >= 2 * (3 - s) - 1 - 1
        BY <1>2, <2>a, <2>b, <3>0, <3>3 DEF Running, Rest
      <4>2. n >= 2 * (3 - (s + 1)) - 0  BY <4>1
      <4>3. Len(g.queue) >= Rest(g)  BY <1>2, <2>4, <2>5, <3>0, <4>2 DEF Rest
      <4>4. Ready(g)  BY <2>4, <3>3, <4>3, SameMapFlows DEF Ready, Running
      <4> QED  BY <1>7, <2>1, <2>3, <2>4, <3>1, <4>4, SameMapFlows DEF Fed, Clock
    <3> QED  BY <3>2, <3>3 DEF Clock
  <2>6. CASE ~(u < 3) /\ g.warm
    <3>0. u = 3  BY <2>6
    <3> DEFINE h == [g EXCEPT !.warm = FALSE, !.step = 0]
    <3>1. Pushed(g) = h  BY <2>4, <2>6 DEF Pushed
    <3>2. h \in FifoState
      <4>1. 0 \in 0 .. 3 /\ FALSE \in BOOLEAN  OBVIOUS
      <4> QED  BY <2>3, <4>1 DEF FifoState
    <3>3. /\ SameMap(g, h) /\ h.queue = g.queue /\ h.step = 0 /\ h.warm = FALSE
          /\ h.timer = g.timer /\ h.stall = g.stall /\ h.x = g.x /\ h.discard = g.discard
      BY <2>3 DEF FifoState, SameMap, SameObjects
    <3> HIDE DEF h
    <3>4. SameMap(f, h)  BY <2>4, <3>3 DEF SameMap, SameObjects
    <3>5. Starting(f)  BY <2>4, <2>6 DEF Clock, Running, Flowing
    <3>6. s = 2  BY <2>b, <3>0, <3>5 DEF Starting
    <3>7. Warming(f) = 5 /\ Warming(h) = 6
      BY <2>a, <2>b, <2>4, <2>6, <3>3, <3>6 DEF Warming
    <3>8. Used(h) + 1 = Began(h) + Warming(h)
      <4>1. Used(f) = Began(f) + 5  BY <3>5, <3>7 DEF Starting
      <4>2. PICK b \in Int, c \in Nat : Used(f) = b /\ Began(f) = c  BY <1>4
      <4>3. b + 1 = c + 6  BY <4>1, <4>2
      <4> QED  BY <3>4, <3>7, <4>2, <4>3, SameMapFlows
    <3>9. h.x = Left(h) /\ h.discard = Drop(h)
      BY <2>4, <3>3, <3>4, <3>5, SameMapFlows DEF Starting
    <3>10. Filling(h)  BY <2>4, <3>3, <3>5, <3>8, <3>9 DEF Starting, Filling
    <3> QED  BY <1>7, <2>1, <2>4, <3>1, <3>2, <3>3, <3>4, <3>10, SameMapFlows DEF Fed, Clock
  <2>7. CASE ~(u < 3) /\ ~g.warm /\ Len(g.queue) > 8
    <3>0. u = 3  BY <2>7
    <3>1. Pushed(g) = g  BY <2>4, <2>7 DEF Pushed
    <3>2. f.queue # <<>>
      <4>1. n > 8 /\ n # 0  BY <1>2, <2>4, <2>7
      <4> QED  BY <1>1, <1>2, <4>1, EmptySeq
    <3>3. Running(f)  BY <3>2 DEF Clock, Starting
    <3>4. Len(g.queue) >= Rest(g)
      <4>1. n >= 2 - 0  BY <1>2, <2>4, <2>7
      <4> QED  BY <1>2, <2>4, <3>0, <4>1 DEF Rest
    <3>5. Ready(g)  BY <2>4, <3>3, <3>4, SameMapFlows DEF Ready, Running
    <3> QED  BY <1>7, <2>1, <2>3, <2>4, <3>1, <3>5, SameMapFlows DEF Fed, Clock
  <2>8. CASE ~(u < 3) /\ ~g.warm /\ ~(Len(g.queue) > 8)
    <3>0. u = 3 /\ s >= 2  BY <2>8
    <3> DEFINE q == g.queue \o Fresh(g)
               h == [g EXCEPT !.queue = q, !.col = g.col + 1, !.step = 0]
    <3>1. Pushed(g) = h  BY <2>4, <2>8 DEF Pushed
    <3>2. Fresh(g) \in Seq(Px) /\ Len(Fresh(g)) = 8
      <4>1. PICK m \in Nat : g.tile = m /\ m <= Tiles - 1
        <5>1. g.tile \in 0 .. Tiles - 1 /\ Tiles \in Nat  BY <2>3, Sizes DEF FifoState
        <5> QED  BY <5>1
      <4>2. \A p \in 1 .. 8 : m * 8 + p - 1 \in 0 .. MapWidth - 1  BY <4>1, Sizes
      <4>3. \A p \in 1 .. 8 : Win(m * 8 + p - 1) \in Px /\ Bg(m * 8 + p - 1) \in Px
        BY <4>2 DEF Px, Pixels, Win, Bg
      <4>4. Fresh(g) \in [1 .. 8 -> Px]  BY <4>1, <4>3 DEF Fresh
      <4> HIDE DEF Fresh
      <4>5. [1 .. 8 -> Px] \subseteq Seq(Px)  BY SeqDef
      <4>6. Fresh(g) \in Seq(Px)  BY <4>4, <4>5
      <4> QED  BY <4>4, <4>6, LenProperties
    <3>3. q \in Seq(Px) /\ Len(q) = n + 8
      <4>1. g.queue \in Seq(Px) /\ Len(g.queue) = n  BY <1>1, <1>2, <2>4
      <4> HIDE DEF Fresh
      <4>2. q \in Seq(Px) /\ Len(q) = Len(g.queue) + Len(Fresh(g))
        BY <3>2, <4>1, ConcatProperties
      <4> QED  BY <3>2, <4>1, <4>2
    <3> HIDE DEF q
    <3>4. h \in FifoState
      <4>1. g.col + 1 \in Nat /\ 0 \in 0 .. 3  BY <1>1, <2>4
      <4>2. q \in Seq(Pixels({"bg", "win"}))  BY <3>3 DEF Px
      <4> QED  BY <2>3, <4>1, <4>2 DEF FifoState
    <3>5. /\ SameMap(g, h) /\ h.queue = q /\ h.step = 0 /\ h.warm = g.warm
          /\ h.timer = g.timer /\ h.stall = g.stall /\ h.x = g.x /\ h.discard = g.discard
      BY <2>3 DEF FifoState, SameMap, SameObjects
    <3> HIDE DEF h
    <3>6. SameMap(f, h)  BY <2>4, <3>5 DEF SameMap, SameObjects
    <3>7. Len(h.queue) >= Rest(h)
      <4>1. n + 8 >= 2 * (3 - 0) - 0  OBVIOUS
      <4> QED  BY <2>4, <3>3, <3>5, <4>1 DEF Rest
    <3>8. Flowing(f)
      <4>1. CASE Starting(f)
        <5>1. s = 2  BY <2>b, <3>0, <4>1 DEF Starting
        <5>2. Warming(f) = 11  BY <2>a, <2>b, <2>4, <2>8, <5>1 DEF Warming
        <5>3. PICK b \in Int, c \in Nat, x \in Nat, d \in 0 .. 7 :
                Used(f) = b /\ Began(f) = c /\ Left(f) = x /\ Drop(f) = d
          BY <1>1, <1>4, ClockNumbers
        <5>4. b = c + 11 /\ f.x = x /\ f.discard = d  BY <4>1, <5>2, <5>3 DEF Starting
        <5>5. b = c + 11 + (x - x) + (d - d) /\ x >= x /\ d <= d /\ ~(x > x)  BY <5>4
        <5> QED  BY <2>4, <2>8, <5>3, <5>4, <5>5 DEF Flowing, WarmUp
      <4>2. CASE Running(f)  BY <4>2 DEF Running
      <4> QED  BY <4>1, <4>2 DEF Clock
    <3>9. Ready(h)  BY <2>4, <3>5, <3>6, <3>7, <3>8, SameMapFlows DEF Ready
    <3> QED  BY <1>7, <2>1, <2>4, <3>1, <3>4, <3>5, <3>6, <3>9, SameMapFlows DEF Fed, Clock
  <2> QED  BY <2>5, <2>6, <2>7, <2>8
<1> QED  BY <1>5, <1>6, <1>7

\* The pixel that came out last.
Shows(f) == f.x > 0 => f.px = Pixel(line, f.x - 1) \/ Contested(line, f.x - 1)

\* At the end of the line nothing is left to fetch.
AtEnd(f) == f.x = Width =>
              /\ f.stall = 0
              /\ \A k \in f.next + 1 .. Len(Selected(line)) :
                   Selected(line)[k].x >= Width + 8

(* A dot moves the clock exactly when a pixel leaves the queue.               *)
LEMMA FlowsOn ==
  ASSUME line \in Lines, NEW f, NEW h, f.win \in BOOLEAN, Used(f) \in Int,
         f.x \in Nat, f.discard \in 0 .. 7, Flowing(f), h.win = f.win, h.warm = f.warm,
         \/ Used(h) = Used(f) /\ h.x = f.x /\ h.discard = f.discard
         \/ Used(h) = Used(f) + 1 /\ f.discard > 0 /\ h.discard = f.discard - 1 /\ h.x = f.x
         \/ Used(h) = Used(f) + 1 /\ f.discard = 0 /\ h.discard = 0 /\ h.x = f.x + 1
  PROVE  Flowing(h)
<1>1. PICK l \in Nat, c \in Nat, d \in 0 .. 7 : Left(f) = l /\ Began(f) = c /\ Drop(f) = d
  BY ClockNumbers
<1>2. PICK u \in Int, x \in Nat, e \in 0 .. 7 : Used(f) = u /\ f.x = x /\ f.discard = e
  OBVIOUS
<1>3. /\ ~f.warm /\ x >= l /\ e <= d /\ (x > l => e = 0)
      /\ u = c + 11 + (x - l) + (d - e)
  BY <1>1, <1>2 DEF Flowing, WarmUp
<1>4. Left(h) = l /\ Drop(h) = d /\ Began(h) = c
  <2>1. Left(h) = l /\ Drop(h) = d  BY <1>1 DEF Left, Drop
  <2> QED  BY <1>1, <2>1 DEF Began
<1>5. \E y \in Nat, k \in 0 .. 7, v \in Int :
        /\ Used(h) = v /\ h.x = y /\ h.discard = k
        /\ y >= l /\ k <= d /\ (y > l => k = 0) /\ v = c + 11 + (y - l) + (d - k)
  <2>1. CASE Used(h) = u /\ h.x = x /\ h.discard = e
    BY <1>3, <2>1
  <2>2. CASE Used(h) = u + 1 /\ e > 0 /\ h.discard = e - 1 /\ h.x = x
    <3>1. /\ e - 1 \in 0 .. 7 /\ e - 1 <= d /\ ~(x > l)
          /\ u + 1 = c + 11 + (x - l) + (d - (e - 1))
      BY <1>3, <2>2
    <3> QED  BY <1>3, <2>2, <3>1
  <2>3. CASE Used(h) = u + 1 /\ e = 0 /\ h.discard = 0 /\ h.x = x + 1
    <3>1. x + 1 >= l /\ 0 <= d /\ u + 1 = c + 11 + ((x + 1) - l) + (d - 0)
      BY <1>3, <2>3
    <3> QED  BY <2>3, <3>1
  <2> QED  BY <1>2, <2>1, <2>2, <2>3
<1> QED  BY <1>3, <1>4, <1>5 DEF Flowing, WarmUp

(* The pixel that comes out is render_scanline's.                            *)
LEMMA PixelIs ==
  ASSUME line \in Lines, NEW f \in FifoState, Pipeline(f), NotYet(f), Served(f),
         f.queue # <<>>, f.discard = 0,
         \A k \in f.next + 1 .. Len(Selected(line)) :
           Selected(line)[k].x < Width + 8 => Selected(line)[k].x - 8 > f.x,
         f.x < Width
  PROVE  LET g == Emitted(f)
         IN  /\ g.px \in Pixels({"bg", "win", "obj", "none"})
             /\ g.px = Pixel(line, f.x) \/ Contested(line, f.x)
<1> DEFINE s == Selected(line)
           o == f.objq[1]
           g == Emitted(f)
<1>1. PICK n \in Nat :
        /\ Len(s) = n
        /\ \A k \in 1 .. n : /\ s[k].x \in 0 .. 255 /\ s[k].solid \in SUBSET (0 .. 7)
                             /\ s[k].oam \in Nat
                             /\ line.objs[s[k].oam].behind = s[k].behind
  BY ObjectsAre
<1>x. \A k \in 1 .. n : s[k].x \in Int
  <2>1. \A v \in 0 .. 255 : v \in Int  OBVIOUS
  <2> QED  BY <1>1, <2>1
<1>2. PICK j \in 0 .. n : f.next = j  BY <1>1 DEF Served
<1>3. PICK x \in Nat : f.x = x /\ x < Width
  <2>1. f.x \in 0 .. Width  BY DEF FifoState
  <2> QED  BY <2>1, Sizes
<1>w. PICK w \in Nat : Width = w  BY Sizes
\* The queue's first pixel is the background's.
<1>4. Head(f.queue) = BgPixel(line, x) /\ BgPixel(line, x) \in Px
  <2>1. f.queue \in Seq(Px)  BY DEF FifoState, Px
  <2>2. Len(f.queue) \in Nat /\ Len(f.queue) # 0  BY <2>1, LenProperties, EmptySeq
  <2>3. 1 \in 1 .. Len(f.queue) /\ Head(f.queue) = f.queue[1]  BY <2>1, <2>2
  <2>4. f.queue[1] = Due(f, x + 1 - 1 - 0)
    BY <1>3, <2>3 DEF Pipeline, Waits
  <2>5. x + 1 - 1 - 0 = x  OBVIOUS
  <2>6. f.queue[1] \in Px  BY <2>1, <2>3
  <2>7. Due(f, x) = BgPixel(line, x)
    <3>1. PICK v \in Nat : line.wx = v  BY LineIs
    <3>2. x + 7 - v = x - (v - 7)  OBVIOUS
    <3>3. CASE f.win
      <4>1. line.win /\ x + 7 >= v  BY <1>3, <3>1, <3>3 DEF Pipeline, Late
      <4> QED  BY <3>1, <3>2, <3>3, <4>1 DEF Due, BgPixel
    <3>4. CASE ~f.win
      <4>1. ~(line.win /\ x + 7 >= v)  BY <1>3, <3>1, <3>4 DEF NotYet
      <4> QED  BY <3>1, <3>4, <4>1 DEF Due, BgPixel
    <3> QED  BY <3>3, <3>4
  <2> QED  BY <2>3, <2>4, <2>5, <2>6, <2>7
<1> DEFINE b == BgPixel(line, x)
           at == {k \in 1 .. j : Opaque(s[k], x)}
           seen == {k \in 1 .. n : Covers(s[k], b, x)}
<1>5. o = IF at = {} THEN None ELSE Piece(s[Min(at)], Column(s[Min(at)], x))
  <2>1. 1 \in 1 .. 8 /\ x + 1 - 1 = x  OBVIOUS
  <2>2. o = Slot(j, x)  BY <1>2, <1>3, <2>1 DEF Served
  <2> QED  BY <2>2 DEF Slot
<1>6. Pixel(line, x) = IF seen = {} THEN b ELSE Piece(s[Min(seen)], Column(s[Min(seen)], x))
  BY <1>1 DEF Pixel
<1>7. g.px = IF o # None /\ ~(line.objs[o.n].behind /\ b \notin Clear) THEN o ELSE b
  BY <1>4 DEF Emitted, FifoState
<1> HIDE DEF g
\* An object that covers x has been fetched.
<1>8. \A k \in seen : k \in at
  <2> SUFFICES ASSUME NEW k \in 1 .. n, Covers(s[k], b, x) PROVE k \in at  OBVIOUS
  <2>1. Opaque(s[k], x)  BY DEF Covers
  <2>2. Column(s[k], x) \in 0 .. 7  BY <1>1, <2>1 DEF Opaque
  <2>3. PICK v \in Int : s[k].x = v
    BY <1>1, <1>x
  <2>4. x - (v - 8) >= 0 /\ x - (v - 8) <= 7  BY <2>2, <2>3 DEF Column
  <2>5. v - 8 <= x /\ v < w + 8  BY <1>3, <1>w, <2>4
  <2>6. ~(k \in j + 1 .. n)
    <3>1. k \in j + 1 .. n => (v < w + 8 => v - 8 > x)  BY <1>1, <1>2, <1>3, <1>w, <2>3
    <3> QED  BY <2>5, <3>1
  <2>7. k \in 1 .. j  BY <2>6
  <2> QED  BY <2>1, <2>7
<1>9. at \in SUBSET Nat /\ seen \in SUBSET Nat /\ \A k \in at : k \in 1 .. n /\ Opaque(s[k], x)
  OBVIOUS
<1>10. b \in Pixels({"bg", "win", "obj", "none"})
  BY <1>4 DEF Px, Pixels
<1>11. seen \in SUBSET (1 .. n) /\ \A k \in 1 .. n : Covers(s[k], b, x) <=> k \in seen
  OBVIOUS
<1> HIDE DEF at, seen, b, o
<1>12. CASE at = {}
  <2>1. seen = {}  BY <1>8, <1>12
  <2>2. g.px = b  BY <1>5, <1>7, <1>12
  <2> QED  BY <1>3, <1>6, <1>10, <2>1, <2>2 DEF g
<1>13. CASE at # {}
  <2>1. PICK k \in 1 .. n : k = Min(at) /\ Opaque(s[k], x) /\ \A i \in at : k <= i
    BY <1>9, <1>13, Least
  <2>2. o = Piece(s[k], Column(s[k], x))  BY <1>5, <1>13, <2>1
  <2>3. o # None /\ o.n = s[k].oam  BY <2>2 DEF Piece, None
  <2>4. line.objs[o.n].behind = s[k].behind  BY <1>1, <2>3
  <2>5. Covers(s[k], b, x) <=> ~(s[k].behind /\ b \notin Clear)  BY <2>1 DEF Covers
  <2>6. o \in Pixels({"bg", "win", "obj", "none"})
    <3>1. Column(s[k], x) \in 0 .. 7  BY <1>1, <2>1 DEF Opaque
    <3>2. \A c \in 0 .. 7 : c \in 0 .. MapWidth - 1  BY Sizes
    <3> QED  BY <1>1, <2>2, <3>1, <3>2 DEF Piece, Pixels
  <2>7. CASE Covers(s[k], b, x)
    <3>1. g.px = o  BY <1>7, <2>3, <2>4, <2>5, <2>7
    <3>2. k \in seen  BY <1>11, <2>7
    <3>3. PICK m \in 1 .. n : m = Min(seen) /\ m \in seen /\ \A i \in seen : m <= i
      <4>1. seen # {}  BY <3>2
      <4>2. Min(seen) \in seen /\ \A i \in seen : Min(seen) <= i  BY <1>9, <4>1, Least
      <4> QED  BY <1>11, <4>2
    <3>4. m = k
      <4>1. m <= k /\ k <= m  BY <1>8, <2>1, <3>2, <3>3
      <4> QED  BY <4>1
    <3>5. Pixel(line, x) = o  BY <1>6, <2>2, <3>2, <3>3, <3>4
    <3> QED  BY <1>3, <2>6, <3>1, <3>5 DEF g
  <2>8. CASE ~Covers(s[k], b, x)
    <3>1. g.px = b  BY <1>7, <2>3, <2>4, <2>5, <2>8
    <3>2. CASE seen = {}
      BY <1>3, <1>6, <1>10, <3>1, <3>2 DEF g
    <3>3. CASE seen # {}
      <4>1. PICK m \in 1 .. n : m \in seen /\ Covers(s[m], b, x)  BY <1>11, <3>3
      <4>2. k <= m /\ k # m  BY <1>8, <2>1, <2>8, <4>1
      <4>3. k < m  BY <4>2
      <4>4. Contested(line, x)  BY <1>1, <2>1, <2>8, <4>1, <4>3 DEF Contested, b
      <4> QED  BY <1>3, <1>10, <3>1, <4>4 DEF g
    <3> QED  BY <3>2, <3>3
  <2> QED  BY <2>7, <2>8
<1> QED  BY <1>12, <1>13

\* What one dot keeps.
OInv(f) == /\ f \in FifoState /\ Served(f) /\ Shows(f)
           /\ Clock(f) /\ AtEdge(f) /\ AtEnd(f)
           /\ f.x < Width => f.dot < MaxDots

\* The dot is counted.
Counts(f) == [f EXCEPT !.dot = @ + 1]

(* The dot is counted.                                                        *)
LEMMA CountsIs ==
  ASSUME line \in Lines, NEW f \in FifoState, Served(f), f.dot < MaxDots
  PROVE  LET h == Counts(f)
         IN  /\ h \in FifoState /\ Served(h) /\ Used(h) = Used(f) + 1
             /\ SameBg(f, h) /\ h.next = f.next /\ h.stall = f.stall /\ h.px = f.px
             /\ h.timer = f.timer
<1> DEFINE h == Counts(f)
<1>1. f.dot \in 0 .. MaxDots /\ MaxDots \in Nat  BY FifoAssumption DEF FifoState
<1>2. PICK d \in Int : f.dot = d /\ d + 1 \in 0 .. MaxDots
  <2>1. \A m \in Nat : \A v \in 0 .. m : v < m => v \in Int /\ v + 1 \in 0 .. m  OBVIOUS
  <2> QED  BY <1>1, <2>1
<1>3. h \in FifoState  BY <1>2 DEF Counts, FifoState
<1>4. /\ SameBg(f, h) /\ h.next = f.next /\ h.stall = f.stall /\ h.px = f.px
      /\ h.timer = f.timer /\ h.paid = f.paid /\ h.objq = f.objq /\ h.dot = d + 1
  BY <1>2 DEF Counts, FifoState, SameBg, Shaped, Fields
<1> HIDE DEF h
<1>5. Served(h)  BY <1>4 DEF Served, SameBg
<1>6. Used(h) = Used(f) + 1
  <2>1. PICK a \in Nat, b \in Nat : Owed(line)[f.next] = a /\ f.stall = b  BY UsedIs
  <2>2. (d + 1) - a + b = (d - a + b) + 1  OBVIOUS
  <2> QED  BY <1>2, <1>4, <2>1, <2>2 DEF Used
<1> QED  BY <1>3, <1>4, <1>5, <1>6 DEF h

(* A dot in which the mixer waits for an object.                             *)
LEMMA StallIs ==
  ASSUME line \in Lines, NEW f \in FifoState, Served(f), f.stall > 0
  PROVE  LET g == [f EXCEPT !.stall = @ - 1]
         IN  /\ g \in FifoState /\ Served(g) /\ Used(g) = Used(f) - 1 /\ SameBg(f, g)
             /\ g.px = f.px /\ g.timer = f.timer /\ g.dot = f.dot
<1> DEFINE g == [f EXCEPT !.stall = @ - 1]
<1>1. PICK a \in Nat, b \in Nat : Owed(line)[f.next] = a /\ f.stall = b  BY UsedIs
<1>2. b - 1 \in Nat  BY <1>1
<1>3. g \in FifoState  BY <1>1, <1>2 DEF FifoState
<1>4. /\ SameBg(f, g) /\ g.next = f.next /\ g.stall = b - 1 /\ g.px = f.px
      /\ g.timer = f.timer /\ g.paid = f.paid /\ g.objq = f.objq /\ g.dot = f.dot
  BY <1>1 DEF FifoState, SameBg, Shaped, Fields
<1> HIDE DEF g
<1>5. Served(g)  BY <1>2, <1>4 DEF Served, SameBg
<1>6. Used(g) = Used(f) - 1
  <2>1. PICK d \in Int : f.dot = d
    <3>1. f.dot \in 0 .. MaxDots /\ MaxDots \in Nat  BY FifoAssumption DEF FifoState
    <3>2. \A m \in Nat : \A v \in 0 .. m : v \in Int  OBVIOUS
    <3> QED  BY <3>1, <3>2
  <2>2. d - a + (b - 1) = (d - a + b) - 1  OBVIOUS
  <2> QED  BY <1>1, <1>4, <2>1, <2>2 DEF Used
<1> QED  BY <1>3, <1>4, <1>5, <1>6 DEF g

(* A pixel leaves: the slots move up.                                        *)
LEMMA EmittedIs ==
  ASSUME line \in Lines, NEW f \in FifoState, Served(f), f.x < Width, f.queue # <<>>,
         Emitted(f).px \in Pixels({"bg", "win", "obj", "none"})
  PROVE  LET g == Emitted(f)
         IN  /\ g \in FifoState /\ Served(g) /\ Used(g) = Used(f)
             /\ g.win = f.win /\ g.queue = Tail(f.queue) /\ g.step = f.step
             /\ g.timer = f.timer /\ g.warm = f.warm /\ g.discard = f.discard
             /\ g.x = f.x + 1 /\ g.stall = f.stall /\ g.next = f.next /\ g.dot = f.dot
<1> DEFINE g == Emitted(f)
<1>1. PICK x \in Nat : f.x = x /\ x < Width
  <2>1. f.x \in 0 .. Width  BY DEF FifoState
  <2> QED  BY <2>1, Sizes
<1>2. PICK n \in Nat : Len(Selected(line)) = n /\ \A k \in 1 .. n : Selected(line)[k].x \in 0 .. 255
  BY ObjectsAre
<1>3. PICK j \in 0 .. n : f.next = j  BY <1>2 DEF Served
<1> DEFINE q == Append(Tail(f.objq), None)
<1>4. f.objq \in [1 .. 8 -> Slots] /\ None \in Slots
  <2>1. 0 \in 0 .. MapWidth - 1  BY Sizes
  <2> QED  BY <2>1 DEF Served, None, Slots, Pixels
<1>5. /\ q \in [1 .. 8 -> Slots] /\ q \in Seq(Slots)
      /\ \A i \in 1 .. 8 : q[i] = IF i = 8 THEN None ELSE f.objq[i + 1]
  <2>1. f.objq \in Seq(Slots) /\ Len(f.objq) = 8
    <3>1. f.objq \in Seq(Slots)  BY <1>4, SeqDef
    <3> QED  BY <1>4, <3>1, LenProperties
  <2>2. f.objq # <<>>
    <3>1. f.objq = <<>> <=> Len(f.objq) = 0  BY <2>1, EmptySeq
    <3> QED  BY <2>1, <3>1
  <2> DEFINE t == Tail(f.objq)
  <2>3. t \in Seq(Slots) /\ Len(t) = 7 /\ \A i \in 1 .. 7 : t[i] = f.objq[i + 1]
    <3>1. /\ t \in Seq(Slots) /\ Len(t) = Len(f.objq) - 1
          /\ \A i \in 1 .. Len(t) : t[i] = f.objq[i + 1]
      BY <2>1, <2>2, HeadTailProperties
    <3>2. Len(t) = 7  BY <2>1, <3>1
    <3> HIDE DEF t
    <3> QED  BY <3>1, <3>2
  <2> HIDE DEF t
  <2>4. /\ q \in Seq(Slots) /\ Len(q) = 8
        /\ \A i \in 1 .. 7 : q[i] = t[i]
        /\ q[8] = None
    <3>0. PICK e \in Slots : e = None  BY <1>4
    <3>t. t \in Seq(Slots)  BY <2>3
    <3>a. Append(t, e) \in Seq(Slots) /\ Len(Append(t, e)) = Len(t) + 1
      BY <3>t, AppendProperties
    <3>b. \A i \in 1 .. Len(t) : Append(t, e)[i] = t[i]  BY <3>t, AppendProperties
    <3>c. Append(t, e)[Len(t) + 1] = e  BY <3>t, AppendProperties
    <3>2. Len(t) + 1 = 8 /\ 1 .. Len(t) = 1 .. 7  BY <2>3
    <3>3. q = Append(t, e)  BY <3>0 DEF t
    <3> HIDE DEF q
    <3> QED  BY <3>0, <3>a, <3>b, <3>c, <3>2, <3>3
  <2> HIDE DEF q
  <2>5. q \in [1 .. 8 -> Slots]  BY <2>4, LenProperties
  <2>6. \A i \in 1 .. 8 : i # 8 => i \in 1 .. 7  OBVIOUS
  <2> QED  BY <2>3, <2>4, <2>5, <2>6
<1> HIDE DEF q
<1>6. f.queue \in Seq(Px) /\ Tail(f.queue) \in Seq(Px)
  <2>1. f.queue \in Seq(Px)  BY DEF FifoState, Px
  <2> QED  BY <2>1, HeadTailProperties
<1>7. PICK p : g = [f EXCEPT !.px = p, !.x = f.x + 1, !.queue = Tail(f.queue), !.objq = q]
  BY DEF Emitted, q
<1>8. g.px = p  BY <1>7 DEF FifoState
<1>9. x + 1 \in 0 .. Width  BY <1>1, Sizes
<1>10. g \in FifoState
  <2>1. p \in Pixels({"bg", "win", "obj", "none"})  BY <1>8
  <2>2. q \in Seq(Pixels({"obj", "none"}))  BY <1>5 DEF Slots
  <2>3. Tail(f.queue) \in Seq(Pixels({"bg", "win"}))  BY <1>6 DEF Px
  <2> HIDE DEF g
  <2> QED  BY <1>1, <1>7, <1>9, <2>1, <2>2, <2>3 DEF FifoState
<1>11. /\ g.win = f.win /\ g.queue = Tail(f.queue) /\ g.step = f.step
       /\ g.timer = f.timer /\ g.warm = f.warm /\ g.discard = f.discard
       /\ g.x = x + 1 /\ g.stall = f.stall /\ g.next = f.next /\ g.dot = f.dot
       /\ g.objq = q /\ g.paid = f.paid
  <2> HIDE DEF g
  <2> QED  BY <1>1, <1>7 DEF FifoState
<1> HIDE DEF g
<1>12. \A k \in 1 .. j : /\ Selected(line)[k].x < Width + 8
                         /\ Selected(line)[k].x - 8 <= x /\ Selected(line)[k].x - 8 <= x + 1
                         /\ Selected(line)[k].x <= x + 8
  <2> SUFFICES ASSUME NEW k \in 1 .. j
               PROVE  /\ Selected(line)[k].x < Width + 8
                      /\ Selected(line)[k].x - 8 <= x /\ Selected(line)[k].x - 8 <= x + 1
                      /\ Selected(line)[k].x <= x + 8
    OBVIOUS
  <2>1. k \in 1 .. n  BY <1>3
  <2>2. PICK v \in 0 .. 255 : Selected(line)[k].x = v  BY <1>2, <2>1
  <2>3. Selected(line)[k].x < Width + 8 /\ v - 8 <= x  BY <1>1, <1>3, <2>2 DEF Served
  <2>4. v - 8 <= x + 1 /\ v <= x + 8  BY <2>3
  <2> QED  BY <2>2, <2>3, <2>4
<1>13. \A i \in 1 .. 8 : q[i] = Slot(j, (x + 1) + i - 1)
  <2> SUFFICES ASSUME NEW i \in 1 .. 8 PROVE q[i] = Slot(j, (x + 1) + i - 1)  OBVIOUS
  <2>1. CASE i = 8
    <3>1. (x + 1) + 8 - 1 = x + 8  OBVIOUS
    <3>2. Slot(j, x + 8) = None  BY <1>2, <1>3, <1>12, SlotIs
    <3> QED  BY <1>5, <2>1, <3>1, <3>2
  <2>2. CASE i # 8
    <3>1. i + 1 \in 1 .. 8 /\ x + (i + 1) - 1 = (x + 1) + i - 1  BY <2>2
    <3>2. f.objq[i + 1] = Slot(j, x + (i + 1) - 1)  BY <1>1, <1>3, <3>1 DEF Served
    <3> QED  BY <1>5, <2>2, <3>1, <3>2
  <2> QED  BY <2>1, <2>2
<1>14. Served(g)
  BY <1>3, <1>5, <1>11, <1>12, <1>13 DEF Served
<1>15. Used(g) = Used(f)  BY <1>11 DEF Used
<1> QED  BY <1>1, <1>10, <1>11, <1>14, <1>15 DEF g

(* A dot in which x does not move keeps what concerns the last pixel.        *)
LEMMA StaysAt ==
  ASSUME line \in Lines, NEW f, NEW h, NotYet(f), Shows(f), f.x \in Nat, f.x < Width,
         h.x = f.x, h.px = f.px, h.win = f.win
  PROVE  Shows(h) /\ AtEdge(h) /\ AtEnd(h)
<1>1. PICK x \in Nat, w \in Nat : f.x = x /\ Width = w /\ x < w  BY Sizes
<1>2. PICK v \in Nat : line.wx = v  BY LineIs
<1>3. Shows(h)  BY DEF Shows
<1>4. AtEnd(h)  BY <1>1 DEF AtEnd
<1>5. AtEdge(h)
  <2>1. line.win /\ ~h.win => x + 7 < v  BY <1>1, <1>2 DEF NotYet
  <2>2. x + 7 < v => ~(x + 7 >= v)  OBVIOUS
  <2> QED  BY <1>1, <1>2, <2>1, <2>2 DEF AtEdge
<1> QED  BY <1>3, <1>4, <1>5

(* The mixer's turn, and the dot is over.                                    *)
LEMMA MixedObjects ==
  ASSUME line \in Lines, NEW f \in FifoState, Pipeline(f), NotYet(f), Served(f), Shows(f),
         Fed(f), f.x < Width, f.dot < MaxDots
  PROVE  LET m == Mixed(f)
             h == Counts(m)
         IN  /\ m.dot = f.dot /\ h.win = f.win
             /\ h \in FifoState /\ Served(h) /\ Shows(h) /\ Clock(h) /\ AtEdge(h) /\ AtEnd(h)
<1>1. /\ f.step \in 0 .. 3 /\ f.timer \in 0 .. 1 /\ f.warm \in BOOLEAN /\ f.win \in BOOLEAN
      /\ f.queue \in Seq(Px) /\ f.discard \in 0 .. 7 /\ f.stall \in Nat
  BY DEF FifoState, Px
<1>2. PICK x \in Nat, w \in Nat : f.x = x /\ Width = w /\ x < w
  <2>1. f.x \in 0 .. Width  BY DEF FifoState
  <2> QED  BY <2>1, Sizes
<1>3. PICK n \in Nat : Len(f.queue) = n  BY <1>1, LenProperties
<1>4. PICK u \in Int : Used(f) = u  BY UsedIs
<1>5. PICK r \in Int : Rest(f) = r /\ r >= 1
  <2>1. PICK s \in 0 .. 3, t \in 0 .. 1 : f.step = s /\ f.timer = t  BY <1>1
  <2>2. Rest(f) = IF s < 3 THEN 2 * (3 - s) - t ELSE 2 - t  BY <2>1 DEF Rest
  <2>3. (IF s < 3 THEN 2 * (3 - s) - t ELSE 2 - t) \in Int  OBVIOUS
  <2>4. (IF s < 3 THEN 2 * (3 - s) - t ELSE 2 - t) >= 1  OBVIOUS
  <2> QED  BY <2>2, <2>3, <2>4
<1>6. CASE f.stall > 0
  <2> DEFINE g == [f EXCEPT !.stall = @ - 1]
             h == Counts(g)
  <2>1. Mixed(f) = g  BY <1>6 DEF Mixed
  <2>2. /\ g \in FifoState /\ Served(g) /\ Used(g) = u - 1 /\ SameBg(f, g)
        /\ g.px = f.px /\ g.timer = f.timer /\ g.dot = f.dot
    BY <1>4, <1>6, StallIs
  <2> HIDE DEF g
  <2>3. /\ h \in FifoState /\ Served(h) /\ Used(h) = Used(g) + 1
        /\ SameBg(g, h) /\ h.px = g.px /\ h.timer = g.timer
    BY <2>2, CountsIs
  <2> HIDE DEF h
  <2>4. /\ Used(h) = Used(f) /\ h.x = f.x /\ h.px = f.px /\ h.win = f.win /\ h.queue = f.queue
        /\ h.discard = f.discard /\ h.warm = f.warm /\ h.step = f.step /\ h.timer = f.timer
    <3>1. (u - 1) + 1 = u  OBVIOUS
    <3> QED  BY <1>4, <2>2, <2>3, <3>1 DEF SameBg
  <2>5. Running(f)  BY <1>6 DEF Fed
  <2>6. Flowing(h)  BY <1>1, <1>2, <1>4, <2>4, <2>5, FlowsOn DEF Running
  <2>7. Running(h)  BY <2>4, <2>5, <2>6 DEF Running, Rest
  <2>8. InWindow(h)  BY <2>4 DEF Fed, InWindow
  <2>9. Shows(h) /\ AtEdge(h) /\ AtEnd(h)  BY <1>2, <2>4, StaysAt
  <2> QED  BY <2>1, <2>2, <2>3, <2>4, <2>7, <2>8, <2>9 DEF Clock, h
<1>7. CASE ~(f.stall > 0) /\ f.queue = <<>>
  <2> DEFINE h == Counts(f)
  <2>1. Mixed(f) = f  BY <1>7 DEF Mixed
  <2>2. /\ h \in FifoState /\ Served(h) /\ Used(h) = Used(f) + 1
        /\ SameBg(f, h) /\ h.px = f.px /\ h.timer = f.timer /\ h.stall = f.stall
    BY CountsIs
  <2> HIDE DEF h
  <2>3. /\ h.x = f.x /\ h.win = f.win /\ h.queue = f.queue
        /\ h.discard = f.discard /\ h.warm = f.warm /\ h.step = f.step
    BY <2>2 DEF SameBg
  <2>4. Filling(f)
    <3>1. n = 0  BY <1>1, <1>3, <1>7, EmptySeq
    <3>2. ~(n >= r)  BY <1>5, <3>1
    <3> QED  BY <1>3, <1>5, <1>7, <3>2 DEF Fed, Ready
  <2>5. Starting(h)
    <3>1. Left(h) = Left(f) /\ Drop(h) = Drop(f)  BY <2>3 DEF Left, Drop
    <3>2. Began(h) = Began(f) /\ Warming(h) = Warming(f)
      BY <2>2, <2>3, <3>1 DEF Began, Warming
    <3> QED  BY <2>2, <2>3, <2>4, <3>1, <3>2 DEF Filling, Starting
  <2>6. InWindow(h)  BY <2>3 DEF Fed, InWindow
  <2>7. Shows(h) /\ AtEdge(h) /\ AtEnd(h)  BY <1>2, <2>2, <2>3, StaysAt
  <2> QED  BY <2>1, <2>2, <2>3, <2>5, <2>6, <2>7 DEF Clock, h
<1>8. ASSUME ~(f.stall > 0), f.queue # <<>>
      PROVE  /\ Flowing(f) /\ n >= r
             /\ Tail(f.queue) \in Seq(Px) /\ Len(Tail(f.queue)) = n - 1
  <2>1. Ready(f)  BY <1>8 DEF Fed, Filling
  <2>2. Tail(f.queue) \in Seq(Px)  BY <1>1, <1>8, HeadTailProperties
  <2>3. Len(Tail(f.queue)) = n - 1  BY <1>1, <1>3, <1>8, HeadTailProperties
  <2> QED  BY <1>3, <1>5, <2>1, <2>2, <2>3 DEF Ready
<1>9. CASE ~(f.stall > 0) /\ f.queue # <<>> /\ f.discard > 0
  <2> DEFINE g == [f EXCEPT !.queue = Tail(@), !.discard = @ - 1]
             h == Counts(g)
  <2>1. Mixed(f) = g  BY <1>9 DEF Mixed
  <2>2. g \in FifoState
    <3>1. f.discard - 1 \in 0 .. 7  BY <1>1, <1>9
    <3>2. Tail(f.queue) \in Seq(Pixels({"bg", "win"}))  BY <1>8, <1>9 DEF Px
    <3> QED  BY <3>1, <3>2 DEF FifoState
  <2>3. /\ SameObjects(f, g) /\ g.queue = Tail(f.queue) /\ g.discard = f.discard - 1
        /\ g.win = f.win /\ g.warm = f.warm /\ g.step = f.step /\ g.timer = f.timer
    BY DEF FifoState, SameObjects
  <2>4. g.dot = f.dot /\ g.x = f.x /\ g.px = f.px  BY <2>3 DEF SameObjects
  <2> HIDE DEF g
  <2>5. Served(g) /\ Used(g) = Used(f)  BY <2>3, SameObjectsServe
  <2>6. /\ h \in FifoState /\ Served(h) /\ Used(h) = Used(g) + 1
        /\ SameBg(g, h) /\ h.px = g.px /\ h.timer = g.timer
    BY <2>2, <2>4, <2>5, CountsIs
  <2> HIDE DEF h
  <2>7. /\ Used(h) = Used(f) + 1 /\ h.x = f.x /\ h.px = f.px /\ h.win = f.win
        /\ h.queue = Tail(f.queue) /\ h.discard = f.discard - 1 /\ h.warm = f.warm
        /\ h.step = f.step /\ h.timer = f.timer
    BY <2>3, <2>4, <2>5, <2>6 DEF SameBg
  <2>8. Flowing(h)  BY <1>1, <1>2, <1>4, <1>8, <1>9, <2>7, FlowsOn
  <2>9. Running(h)
    <3>1. n - 1 >= r - 1 /\ Rest(h) = r  BY <1>5, <1>8, <1>9, <2>7 DEF Rest
    <3> QED  BY <1>8, <1>9, <2>7, <2>8, <3>1 DEF Running
  <2>10. InWindow(h)  BY <2>7 DEF Fed, InWindow
  <2>11. Shows(h) /\ AtEdge(h) /\ AtEnd(h)  BY <1>2, <2>7, StaysAt
  <2> QED  BY <2>1, <2>4, <2>6, <2>7, <2>9, <2>10, <2>11 DEF Clock, h
<1>10. CASE ~(f.stall > 0) /\ f.queue # <<>> /\ ~(f.discard > 0)
  <2> DEFINE c == Reached(f)
  <2>1. /\ c \in Kept(f) /\ Served(c)
        /\ c.stall = f.stall + Owed(line)[c.next] - Owed(line)[f.next]
        /\ \A k \in c.next + 1 .. Len(Selected(line)) :
             Selected(line)[k].x < Width + 8 => Selected(line)[k].x - 8 > f.x
    BY ReachedIs
  <2>d. Mixed(f) = IF c.stall > 0 THEN [c EXCEPT !.stall = @ - 1] ELSE Emitted(c)
    BY <1>10 DEF Mixed
  <2> HIDE DEF c
  <2>2. OnlyObjects(f, c)  BY <2>1, KeptIs
  <2>3. /\ c.win = f.win /\ c.queue = f.queue /\ c.step = f.step /\ c.warm = f.warm
        /\ c.discard = f.discard /\ c.x = f.x /\ c.timer = f.timer /\ c.dot = f.dot
        /\ c.px = f.px
    BY <2>2 DEF OnlyObjects, SameBg
  <2>4. c \in FifoState
    <3>1. c.next \in 0 .. MaxObjs
      <4>1. PICK m \in Nat : Len(Selected(line)) = m /\ m <= MaxObjs  BY ObjectsAre
      <4>2. c.next \in 0 .. m  BY <2>1, <4>1 DEF Served
      <4>3. MaxObjs \in Nat  BY ScanlineAssumption
      <4> QED  BY <4>1, <4>2, <4>3
    <3>2. c.objq \in Seq(Pixels({"obj", "none"}))
      <4>1. c.objq \in [1 .. 8 -> Slots]  BY <2>1 DEF Served
      <4>2. [1 .. 8 -> Slots] \subseteq Seq(Slots)  BY SeqDef
      <4> QED  BY <4>1, <4>2 DEF Slots
    <3> QED  BY <2>1, <3>1, <3>2 DEF Kept, FifoState
  <2>5. Used(c) = u
    <3>1. PICK a \in Nat, b \in Nat, p \in Nat :
            Owed(line)[f.next] = a /\ Owed(line)[c.next] = b /\ f.stall = p
      BY <2>1, <2>4, UsedIs
    <3>2. PICK d \in Int : f.dot = d
      <4>1. f.dot \in 0 .. MaxDots /\ MaxDots \in Nat  BY FifoAssumption DEF FifoState
      <4>2. \A m \in Nat : \A v \in 0 .. m : v \in Int  OBVIOUS
      <4> QED  BY <4>1, <4>2
    <3>3. d - b + (p + b - a) = d - a + p  OBVIOUS
    <3> QED  BY <1>4, <2>1, <2>3, <3>1, <3>2, <3>3 DEF Used
  <2>6. Flowing(c)
    <3>1. Flowing(f)  BY <1>8, <1>10
    <3> QED  BY <1>1, <1>2, <1>4, <2>3, <2>5, <3>1, FlowsOn
  <2>7. Rest(c) = r  BY <1>5, <2>3 DEF Rest
  <2>8. CASE c.stall > 0
    <3> DEFINE g == [c EXCEPT !.stall = @ - 1]
               h == Counts(g)
    <3>1. Mixed(f) = g  BY <2>8, <2>d
    <3>2. /\ g \in FifoState /\ Served(g) /\ Used(g) = u - 1 /\ SameBg(c, g)
          /\ g.px = c.px /\ g.timer = c.timer /\ g.dot = c.dot
      BY <2>1, <2>4, <2>5, <2>8, StallIs
    <3> HIDE DEF g
    <3>3. /\ h \in FifoState /\ Served(h) /\ Used(h) = Used(g) + 1
          /\ SameBg(g, h) /\ h.px = g.px /\ h.timer = g.timer
      BY <2>3, <3>2, CountsIs
    <3> HIDE DEF h
    <3>4. /\ Used(h) = u /\ h.x = f.x /\ h.px = f.px /\ h.win = f.win /\ h.queue = f.queue
          /\ h.discard = f.discard /\ h.warm = f.warm /\ h.step = f.step /\ h.timer = f.timer
      <4>1. (u - 1) + 1 = u  OBVIOUS
      <4> QED  BY <2>3, <3>2, <3>3, <4>1 DEF SameBg
    <3>5. Flowing(h)
      <4>1. Flowing(f)  BY <1>8, <1>10
      <4> QED  BY <1>1, <1>2, <1>4, <3>4, <4>1, FlowsOn
    <3>6. Running(h)
      <4>1. n >= r - 1 /\ Rest(h) = r  BY <1>5, <1>3, <1>8, <1>10, <3>4 DEF Rest
      <4> QED  BY <1>3, <3>4, <3>5, <4>1 DEF Running
    <3>7. InWindow(h)  BY <3>4 DEF Fed, InWindow
    <3>8. Shows(h) /\ AtEdge(h) /\ AtEnd(h)  BY <1>2, <3>4, StaysAt
    <3> QED  BY <2>3, <3>1, <3>2, <3>3, <3>4, <3>6, <3>7, <3>8 DEF Clock, h
  <2>9. CASE ~(c.stall > 0)
    <3> DEFINE g == Emitted(c)
               h == Counts(g)
    <3>1. Mixed(f) = g  BY <2>9, <2>d
    <3>2. c.stall = 0
      <4>1. c.stall \in Nat  BY <2>1 DEF Served
      <4> QED  BY <2>9, <4>1
    <3>3. c.discard = 0  BY <1>1, <1>10, <2>3
    <3>4. Pipeline(c) /\ NotYet(c)  BY <2>2, SameBgKeeps DEF OnlyObjects
    <3>5. /\ g.px \in Pixels({"bg", "win", "obj", "none"})
          /\ g.px = Pixel(line, x) \/ Contested(line, x)
      <4>1. \A k \in c.next + 1 .. Len(Selected(line)) :
              Selected(line)[k].x < Width + 8 => Selected(line)[k].x - 8 > c.x
        BY <2>1, <2>3
      <4>2. c.queue # <<>> /\ c.x < Width /\ c.x = x  BY <1>2, <1>10, <2>3
      <4>3. /\ g.px \in Pixels({"bg", "win", "obj", "none"})
            /\ g.px = Pixel(line, c.x) \/ Contested(line, c.x)
        BY <2>1, <2>4, <3>3, <3>4, <4>1, <4>2, PixelIs
      <4> QED  BY <4>2, <4>3
    <3>6. /\ g \in FifoState /\ Served(g) /\ Used(g) = u
          /\ g.win = f.win /\ g.queue = Tail(f.queue) /\ g.step = f.step
          /\ g.timer = f.timer /\ g.warm = f.warm /\ g.discard = 0
          /\ g.x = x + 1 /\ g.stall = 0 /\ g.next = c.next /\ g.dot = f.dot
      <4>1. c.x < Width /\ c.queue # <<>>  BY <1>2, <1>10, <2>3
      <4>2. /\ g \in FifoState /\ Served(g) /\ Used(g) = Used(c)
            /\ g.win = c.win /\ g.queue = Tail(c.queue) /\ g.step = c.step
            /\ g.timer = c.timer /\ g.warm = c.warm /\ g.discard = c.discard
            /\ g.x = c.x + 1 /\ g.stall = c.stall /\ g.next = c.next /\ g.dot = c.dot
        BY <2>1, <2>4, <3>5, <4>1, EmittedIs
      <4> QED  BY <1>2, <2>3, <2>5, <3>2, <3>3, <4>2
    <3> HIDE DEF g
    <3>7. /\ h \in FifoState /\ Served(h) /\ Used(h) = Used(g) + 1
          /\ SameBg(g, h) /\ h.px = g.px /\ h.timer = g.timer /\ h.stall = g.stall
          /\ h.next = g.next
      BY <3>6, CountsIs
    <3> HIDE DEF h
    <3>8. /\ Used(h) = u + 1 /\ h.x = x + 1 /\ h.px = g.px /\ h.win = f.win
          /\ h.queue = Tail(f.queue) /\ h.discard = 0 /\ h.warm = f.warm
          /\ h.step = f.step /\ h.timer = f.timer /\ h.stall = 0 /\ h.next = c.next
      BY <3>6, <3>7 DEF SameBg
    <3>9. Flowing(h)
      <4>1. Flowing(f) /\ f.discard = 0  BY <1>8, <1>10, <2>3, <3>3
      <4> QED  BY <1>1, <1>2, <1>4, <3>8, <4>1, FlowsOn
    <3>10. Running(h)
      <4>1. n - 1 >= r - 1 /\ Rest(h) = r  BY <1>5, <1>8, <1>10, <3>8 DEF Rest
      <4> QED  BY <1>8, <1>10, <3>8, <3>9, <4>1 DEF Running
    <3>11. InWindow(h)  BY <3>8 DEF Fed, InWindow
    <3>12. Shows(h)
      <4>1. (x + 1) - 1 = x  OBVIOUS
      <4> QED  BY <3>5, <3>8, <4>1 DEF Shows
    <3>13. AtEdge(h)
      <4>1. PICK v \in Nat : line.wx = v  BY LineIs
      <4>2. line.win /\ ~h.win => x + 7 < v  BY <1>2, <3>8, <4>1 DEF NotYet
      <4>3. x + 7 < v /\ (x + 1) + 7 >= v => x + 1 > 0 /\ (x + 1) + 7 = v  OBVIOUS
      <4> QED  BY <3>8, <4>1, <4>2, <4>3 DEF AtEdge
    <3>14. AtEnd(h)
      <4> SUFFICES ASSUME x + 1 = w, NEW k \in c.next + 1 .. Len(Selected(line))
                   PROVE  Selected(line)[k].x >= Width + 8
        BY <1>2, <3>8 DEF AtEnd
      <4>1. PICK m \in Nat : Len(Selected(line)) = m
              /\ \A i \in 1 .. m : Selected(line)[i].x \in 0 .. 255
        BY ObjectsAre
      <4>2. PICK j \in 0 .. m : c.next = j  BY <2>1, <4>1 DEF Served
      <4>3. k \in 1 .. m  BY <4>1, <4>2
      <4>4. PICK v \in 0 .. 255 : Selected(line)[k].x = v  BY <4>1, <4>3
      <4>5. v < w + 8 => v - 8 > x  BY <1>2, <2>1, <4>4
      <4>6. v >= w + 8  BY <4>5
      <4> QED  BY <1>2, <4>4, <4>6
    <3> QED  BY <3>1, <3>6, <3>7, <3>8, <3>10, <3>11, <3>12, <3>13, <3>14 DEF Clock, h
  <2> QED  BY <2>8, <2>9
<1> QED  BY <1>6, <1>7, <1>9, <1>10
-----------------------------------------------------------------------------
(* The mixer, whatever objects it comes to.                                  *)
LEMMA MixedKeeps ==
  ASSUME line \in Lines, NEW f \in FifoState, Served(f), Pipeline(f), NotYet(f), f.x < Width
  PROVE  LET g == Mixed(f) IN Pipeline(g) /\ Early(g)
<1>t. Typed(f) /\ Shaped(f)  BY DEF Pipeline
<1>1. PICK x \in Nat : f.x = x  BY <1>t, Sizes DEF Typed
<1>2. PICK v \in Nat : line.wx = v  BY LineIs
<1>3. \A g : NotYet(g) /\ g.x = f.x => Early(g)
  BY <1>1, <1>2 DEF NotYet, Early
<1>4. CASE f.stall > 0
  <2> DEFINE g == [f EXCEPT !.stall = @ - 1]
  <2>1. Mixed(f) = g  BY <1>4 DEF Mixed
  <2>2. SameBg(f, g)  BY <1>t DEF SameBg, Shaped, Fields
  <2>3. g.x = f.x  BY <2>2 DEF SameBg
  <2> HIDE DEF g
  <2>4. Pipeline(g) /\ NotYet(g)  BY <2>2, SameBgKeeps
  <2> QED  BY <1>3, <2>1, <2>3, <2>4
<1>5. CASE ~(f.stall > 0) /\ f.queue = <<>>
  <2>1. Mixed(f) = f  BY <1>5 DEF Mixed
  <2> QED  BY <1>3, <2>1
<1>6. CASE ~(f.stall > 0) /\ f.queue # <<>> /\ f.discard > 0
  <2> DEFINE g == [f EXCEPT !.queue = Tail(@), !.discard = @ - 1]
  <2>1. Mixed(f) = g  BY <1>6 DEF Mixed
  <2>2. /\ Shaped(g) /\ g.win = f.win /\ g.queue = Tail(f.queue) /\ g.col = f.col
        /\ g.step = f.step /\ g.tile = f.tile /\ g.warm = f.warm
        /\ g.discard = f.discard - 1 /\ g.x = f.x
    BY <1>t DEF Shaped, Fields
  <2> HIDE DEF g
  <2>3. Pipeline(g)  BY <1>6, <2>2, TakenKeeps
  <2>4. NotYet(g)  BY <2>2 DEF NotYet
  <2> QED  BY <1>3, <2>1, <2>2, <2>3, <2>4
<1>7. CASE ~(f.stall > 0) /\ f.queue # <<>> /\ ~(f.discard > 0)
  <2> DEFINE r == Reached(f)
  <2>1. SameBg(f, r)
    <3>1. r \in Kept(f)  BY ReachedIs
    <3> HIDE DEF r
    <3> QED  BY <3>1, KeptIs DEF OnlyObjects
  <2> HIDE DEF r
  <2>2. Pipeline(r) /\ NotYet(r)  BY <2>1, SameBgKeeps
  <2>3. CASE r.stall > 0
    <3> DEFINE g == [r EXCEPT !.stall = @ - 1]
    <3>1. Mixed(f) = g  BY <1>7, <2>3 DEF Mixed, r
    <3>2. SameBg(r, g)  BY <2>1 DEF SameBg, Shaped, Fields
    <3>3. g.x = f.x  BY <2>1, <3>2 DEF SameBg
    <3> HIDE DEF g
    <3>4. Pipeline(g) /\ NotYet(g)  BY <2>2, <3>2, SameBgKeeps
    <3> QED  BY <1>3, <3>1, <3>3, <3>4
  <2>4. CASE ~(r.stall > 0)
    <3> DEFINE g == Emitted(r)
    <3>1. Mixed(f) = g  BY <1>7, <2>4 DEF Mixed, r
    <3>2. /\ Shaped(g) /\ g.win = r.win /\ g.queue = Tail(r.queue) /\ g.col = r.col
          /\ g.step = r.step /\ g.tile = r.tile /\ g.warm = r.warm
          /\ g.discard = r.discard /\ g.x = r.x + 1
      <4>1. PICK p, o : g = [r EXCEPT !.px = p, !.x = r.x + 1, !.queue = Tail(r.queue),
                                      !.objq = o]
        BY DEF Emitted
      <4> HIDE DEF g
      <4> QED  BY <2>1, <4>1 DEF SameBg, Shaped, Fields
    <3> HIDE DEF g
    <3>3. r.queue # <<>> /\ r.discard = 0 /\ r.x < Width
      BY <1>t, <1>7, <2>1 DEF SameBg, Typed
    <3>4. Pipeline(g)  BY <2>2, <3>2, <3>3, TakenKeeps
    <3>5. Early(g)
      <4>1. r.x = x  BY <1>1, <2>1 DEF SameBg
      <4>2. x + 7 < v => x + 1 + 7 <= v  BY <1>1, <1>2
      <4> QED  BY <1>1, <1>2, <2>2, <3>2, <4>1, <4>2 DEF NotYet, Early
    <3> QED  BY <3>1, <3>4, <3>5
  <2> QED  BY <2>3, <2>4
<1> QED  BY <1>4, <1>5, <1>6, <1>7
-----------------------------------------------------------------------------
(* The line begins with an empty queue.                                      *)
LEMMA InitBInv == Init => BInv
<1> SUFFICES ASSUME Init PROVE BInv  OBVIOUS
<1>1. PICK b \in 0 .. 7 : line.scx % 8 = b  BY LineIs DEF Init
<1>2. /\ Shaped(fifo) /\ fifo.win = FALSE /\ fifo.queue = <<>> /\ fifo.col = 0
      /\ fifo.step = 0 /\ fifo.warm = TRUE /\ fifo.discard = b /\ fifo.x = 0
  BY <1>1 DEF Init, Shaped, Fields
<1>3. <<>> \in Seq(Px) /\ Len(<<>>) = 0  BY EmptySeq
<1>4. Typed(fifo)
  <2>1. 0 \in Nat /\ 0 \in 0 .. 3 /\ 0 \in 0 .. Width /\ 0 <= 16  BY Sizes
  <2>2. fifo.queue \in Seq(Px) /\ Len(fifo.queue) <= 16  BY <1>2, <1>3, <2>1
  <2> QED  BY <1>1, <1>2, <2>1, <2>2 DEF Typed
<1>5. Counted(fifo)
  <2>1. 8 * 0 = 0 + 0 - b + b  OBVIOUS
  <2> QED  BY <1>1, <1>2, <1>3, <2>1 DEF Counted, Shift
<1>6. Latched(fifo) /\ Waits(fifo) /\ Late(fifo) /\ Early(fifo)
  BY <1>2, <1>3 DEF Latched, Waits, Late, Early
<1> QED  BY <1>2, <1>4, <1>5, <1>6 DEF BInv, Pipeline, Init

(* No line is as long as the count.                                          *)
LEMMA LineFits ==
  ASSUME line \in Lines
  PROVE  /\ BareLength(line) \in Nat /\ FullPenalty(line) \in Nat
         /\ BareLength(line) + FullPenalty(line) < MaxDots
<1>1. line \in Line  BY FifoAssumption
<1>2. PICK p \in Nat, m \in Nat : FullPenalty(line) = p /\ MaxObjs = m /\ p <= 11 * m
  BY <1>1, FullPenaltyIs
<1>3. PICK w \in Nat, v \in Nat, b \in 0 .. 7, t \in Nat :
        Width = w /\ line.wx = v /\ Fine = b /\ MaxDots = t
  BY LineIs, Sizes, FifoAssumption DEF Fine
<1> DEFINE bare == w + 11 + (IF line.win /\ v <= w + 6
                             THEN IF v <= 7 THEN 7 - v ELSE 11 + b ELSE b)
<1>4. BareLength(line) = bare  BY <1>3 DEF BareLength, WarmUp, Fine
<1>5. bare \in Nat /\ bare <= w + 29  BY <1>3
<1> HIDE DEF bare
<1>6. w + 29 + 11 * m < t  BY <1>2, <1>3, FifoAssumption
<1>7. bare + p < t  BY <1>2, <1>5, <1>6
<1> QED  BY <1>2, <1>3, <1>4, <1>5, <1>7

(* The count of the dots never reaches its bound within a line.              *)
LEMMA DotsLast ==
  ASSUME line \in Lines, NEW f \in FifoState, Served(f), Clock(f),
         line.win /\ ~f.win => line.wx > 7, f.x < Width
  PROVE  f.dot < MaxDots
<1>1. PICK v \in Nat : line.wx = v  BY LineIs
<1>2. PICK x \in Nat, w \in Nat : f.x = x /\ Width = w /\ x < w
  <2>1. f.x \in 0 .. Width  BY DEF FifoState
  <2> QED  BY <2>1, Sizes
<1>3. /\ f.step \in 0 .. 3 /\ f.timer \in 0 .. 1 /\ f.warm \in BOOLEAN /\ f.win \in BOOLEAN
      /\ f.discard \in 0 .. 7
  BY DEF FifoState
<1>4. PICK d \in Int, m \in Nat : f.dot = d /\ MaxDots = m
  <2>1. f.dot \in 0 .. MaxDots /\ MaxDots \in Nat  BY FifoAssumption DEF FifoState
  <2>2. \A k \in Nat : \A i \in 0 .. k : i \in Int  OBVIOUS
  <2> QED  BY <2>1, <2>2
<1>5. PICK o \in Nat, p \in Nat, t \in Nat :
        Owed(line)[f.next] = o /\ FullPenalty(line) = p /\ f.stall = t /\ o <= p
  BY UsedIs
<1>6. PICK b \in 0 .. 7 : Fine = b  BY LineIs DEF Fine
<1>7. PICK l \in Nat, c \in Nat, e \in 0 .. 7, k \in 0 .. 7 :
        Left(f) = l /\ Began(f) = c /\ Drop(f) = e /\ f.discard = k
  BY <1>3, ClockNumbers
<1>8. Used(f) = d - o + t  BY <1>4, <1>5 DEF Used
<1>9. d - o + t <= c + 11 + (x - l) + e
  <2>1. CASE Starting(f)
    <3>1. Warming(f) \in Nat /\ Warming(f) <= 11
      <4>1. PICK s \in 0 .. 2, i \in 0 .. 1 : f.step = s /\ f.timer = i
        BY <1>3, <2>1 DEF Starting
      <4>2. Warming(f) = (IF f.warm THEN 0 ELSE 6) + 2 * s + i  BY <4>1 DEF Warming
      <4> QED  BY <4>2
    <3>2. d - o + t = c + Warming(f) /\ x = l  BY <1>2, <1>7, <1>8, <2>1 DEF Starting
    <3> QED  BY <3>1, <3>2
  <2>2. CASE Running(f)
    <3>1. d - o + t = c + 11 + (x - l) + (e - k)
      BY <1>2, <1>7, <1>8, <2>2 DEF Running, Flowing, WarmUp
    <3> QED  BY <3>1
  <2> QED  BY <2>1, <2>2 DEF Clock
<1>10. BareLength(line) + p < m  BY <1>4, <1>5, LineFits
<1>11. c + 11 + (x - l) + e < BareLength(line) /\ BareLength(line) \in Int
  <2> DEFINE bare == w + 11 + (IF line.win /\ v <= w + 6
                               THEN IF v <= 7 THEN 7 - v ELSE 11 + b ELSE b)
  <2>1. BareLength(line) = bare  BY <1>1, <1>2, <1>6 DEF BareLength, WarmUp, Fine
  <2>2. CASE f.win
    <3>1. line.win /\ v <= w + 6  BY <1>1, <1>2, <2>2 DEF Clock, InWindow
    <3>2. CASE v <= 7
      <4>1. l = 0 /\ c = 0 /\ e = 7 - v  BY <1>1, <1>7, <2>2, <3>2 DEF Left, Began, Drop
      <4>2. bare = w + 11 + (7 - v)  BY <3>1, <3>2
      <4> HIDE DEF bare
      <4> QED  BY <1>2, <2>1, <4>1, <4>2
    <3>3. CASE v > 7
      <4>1. l = v - 7 /\ e = 0  BY <1>1, <1>7, <2>2, <3>3 DEF Left, Drop
      <4>2. c = l + 11 + b  BY <1>1, <1>6, <1>7, <2>2, <3>3 DEF Began, WarmUp
      <4>3. bare = w + 11 + (11 + b)  BY <3>1, <3>3
      <4> HIDE DEF bare
      <4> QED  BY <1>2, <2>1, <4>1, <4>2, <4>3
    <3> QED  BY <3>2, <3>3
  <2>3. CASE ~f.win
    <3>1. l = 0 /\ c = 0 /\ e = b  BY <1>6, <1>7, <2>3 DEF Left, Began, Drop
    <3>2. bare >= w + 11 + b /\ bare \in Int
      <4>1. line.win => v > 7  BY <1>1, <2>3
      <4> QED  BY <4>1
    <3> HIDE DEF bare
    <3> QED  BY <1>2, <2>1, <3>1, <3>2
  <2> QED  BY <2>2, <2>3
<1>12. d < m
  <2>1. PICK h \in Int : BareLength(line) = h  BY <1>11
  <2>2. d - o + t < h  BY <1>9, <1>11, <2>1
  <2> QED  BY <1>5, <1>10, <2>1, <2>2
<1> QED  BY <1>4, <1>12

(* The objects of a line's beginning, and its clock.                         *)
LEMMA InitOInv == Init => OInv(fifo)
<1> SUFFICES ASSUME Init PROVE OInv(fifo)  OBVIOUS
<1>0. line \in Lines  BY DEF Init
<1>1. PICK b \in 0 .. 7 : line.scx % 8 = b  BY <1>0, LineIs
<1>2. fifo \in FifoState
  <2>1. <<>> \in Seq(Pixels({"bg", "win"}))  BY EmptySeq
  <2>2. 0 \in 0 .. Tiles - 1 /\ 0 \in 0 .. MapWidth - 1 /\ 0 \in 0 .. Width  BY Sizes
  <2>3. 0 \in 0 .. MaxObjs /\ 0 \in 0 .. MaxDots  BY ScanlineAssumption, FifoAssumption
  <2>4. None \in Pixels({"obj", "none"}) /\ None \in Pixels({"bg", "win", "obj", "none"})
    BY <2>2 DEF None, Pixels
  <2> DEFINE q == [i \in 1 .. 8 |-> None]
  <2>5. q \in Seq(Pixels({"obj", "none"}))
    <3>1. q \in [1 .. 8 -> Pixels({"obj", "none"})]  BY <2>4
    <3> HIDE DEF q
    <3>2. [1 .. 8 -> Pixels({"obj", "none"})] \subseteq Seq(Pixels({"obj", "none"}))
      BY SeqDef
    <3> QED  BY <3>1, <3>2
  <2>6. {} \in SUBSET Int /\ 0 \in Nat /\ 0 \in 0 .. 3 /\ 0 \in 0 .. 1  OBVIOUS
  <2>7. fifo = [win |-> FALSE, queue |-> <<>>, col |-> 0, step |-> 0, timer |-> 0,
             tile |-> 0, warm |-> TRUE, discard |-> b,
             stall |-> 0, objq |-> q, next |-> 0,
             paid |-> {}, x |-> 0, dot |-> 0, px |-> None]
    BY <1>1 DEF Init
  <2> HIDE DEF q
  <2> QED  BY <2>1, <2>2, <2>3, <2>4, <2>5, <2>6, <2>7 DEF FifoState
<1>3. /\ fifo.win = FALSE /\ fifo.queue = <<>> /\ fifo.step = 0 /\ fifo.timer = 0
      /\ fifo.warm = TRUE /\ fifo.discard = b /\ fifo.stall = 0 /\ fifo.next = 0
      /\ fifo.paid = {} /\ fifo.x = 0 /\ fifo.dot = 0
      /\ fifo.objq = [i \in 1 .. 8 |-> None]
  BY <1>1 DEF Init
<1>4. PICK n \in Nat : Len(Selected(line)) = n  BY <1>0, ObjectsAre
<1>5. Served(fifo)
  <2>1. None \in Slots
    <3>1. 0 \in 0 .. MapWidth - 1  BY Sizes
    <3> QED  BY <3>1 DEF None, Slots, Pixels
  <2>2. \A i \in 1 .. 8 : Slot(0, 0 + i - 1) = None
    <3>1. {k \in 1 .. 0 : TRUE} = {}  OBVIOUS
    <3>2. \A k \in 1 .. 0 : FALSE  OBVIOUS
    <3> QED  BY <3>2 DEF Slot
  <2>3. fifo.objq \in [1 .. 8 -> Slots]  BY <1>3, <2>1
  <2>4. \A i \in 1 .. 8 : fifo.objq[i] = None  BY <1>3
  <2>5. 0 \in 0 .. Len(Selected(line)) /\ 0 \in Nat /\ \A k \in 1 .. 0 : FALSE  BY <1>4
  <2>6. {BgTile(Selected(line)[j], line.scx) : j \in 1 .. 0} = {}  BY <2>5
  <2> QED  BY <1>3, <2>2, <2>3, <2>4, <2>5, <2>6 DEF Served
<1>6. Used(fifo) = 0
  <2>1. line \in Line  BY <1>0, FifoAssumption
  <2>2. Owed(line)[0] = 0  BY <2>1, OwedIs
  <2> QED  BY <1>3, <2>2 DEF Used
<1>7. Starting(fifo)
  <2>1. Left(fifo) = 0 /\ Drop(fifo) = b /\ Began(fifo) = 0 /\ Warming(fifo) = 0
    BY <1>1, <1>3 DEF Left, Drop, Began, Warming, Fine
  <2> QED  BY <1>3, <1>6, <2>1 DEF Starting
<1>8. Clock(fifo)  BY <1>3, <1>7 DEF Clock, InWindow
<1>9. AtEdge(fifo) /\ Shows(fifo)  BY <1>3, <1>6 DEF AtEdge, Shows
<1>10. AtEnd(fifo)  BY <1>3, Sizes DEF AtEnd
<1>11. fifo.dot < MaxDots
  <2>1. /\ BareLength(line) \in Nat /\ FullPenalty(line) \in Nat /\ MaxDots \in Nat
        /\ BareLength(line) + FullPenalty(line) < MaxDots
    BY <1>0, LineFits, FifoAssumption
  <2> QED  BY <1>3, <2>1
<1> QED  BY <1>2, <1>5, <1>8, <1>9, <1>10, <1>11 DEF OInv

\* The pipeline and the objects.
IInv == BInv /\ OInv(fifo)

(* The invariant speaks of the line in use.                                  *)
LEMMA OInvPrimed ==
  ASSUME NEW g, OInv(g), fifo' = g, line' = line
  PROVE  OInv(fifo)'
<1>1. Served(fifo)'
  <2>1. \A n, x : Slot(n, x)' = Slot(n, x)  BY DEF Slot
  <2> QED  BY <2>1 DEF OInv, Served
<1>2. Shows(fifo)'  BY DEF OInv, Shows
<1>3. Used(fifo)' = Used(g)  BY DEF Used
<1>4. Fine' = Fine  BY DEF Fine
<1>5. Left(fifo)' = Left(g) /\ Drop(fifo)' = Drop(g)  BY <1>4 DEF Left, Drop
<1>6. Began(fifo)' = Began(g)  BY <1>4, <1>5 DEF Began
<1>7. Clock(fifo)'
  <2>1. Starting(g) => Starting(fifo)'  BY <1>3, <1>5, <1>6 DEF Starting, Warming
  <2>2. Running(g) => Running(fifo)'  BY <1>3, <1>5, <1>6 DEF Running, Flowing, Rest
  <2>3. InWindow(g) => InWindow(fifo)'  BY DEF InWindow
  <2> QED  BY <2>1, <2>2, <2>3 DEF OInv, Clock
<1>8. AtEdge(fifo)'  BY <1>3 DEF OInv, AtEdge
<1>9. AtEnd(fifo)'  BY DEF OInv, AtEnd
<1>10. (fifo \in FifoState)' /\ (fifo.x < Width => fifo.dot < MaxDots)'
  BY DEF OInv, FifoState
<1> QED  BY <1>1, <1>2, <1>7, <1>8, <1>9, <1>10 DEF OInv

(* A dot keeps the invariant.                                                *)
LEMMA StepIInv == IInv /\ [Next]_vars => IInv'
<1> SUFFICES ASSUME IInv, [Next]_vars PROVE IInv'  OBVIOUS
<1>1. CASE Dot
  <2> DEFINE t == Triggered(fifo)
             f == Fetched(t)
             m == Mixed(f)
             g == Counts(m)
  <2>1. /\ fifo.x < Width /\ UNCHANGED line
        /\ fifo' = [m EXCEPT !.dot = IF m.dot < MaxDots THEN m.dot + 1 ELSE m.dot]
    BY <1>1 DEF Dot
  <2>2. line \in Lines /\ Pipeline(fifo) /\ Early(fifo)  BY DEF IInv, BInv
  <2>3. /\ fifo \in FifoState /\ Served(fifo) /\ Shows(fifo) /\ Clock(fifo) /\ AtEdge(fifo)
        /\ fifo.dot < MaxDots
    BY <2>1 DEF IInv, OInv
  <2>4. Pipeline(t) /\ NotYet(t) /\ t.x = fifo.x  BY <2>2, TriggeredKeeps
  <2>5. t \in FifoState /\ SameObjects(fifo, t) /\ Clock(t)
    BY <2>1, <2>2, <2>3, TriggeredClock
  <2> HIDE DEF t
  <2>6. Served(t)  BY <2>3, <2>5, SameObjectsServe
  <2>7. Pipeline(f) /\ NotYet(f) /\ f.x = t.x  BY <2>2, <2>4, FetchedKeeps
  <2>8. f \in FifoState /\ SameMap(t, f) /\ Fed(f)  BY <2>2, <2>5, <2>6, FetchedClock
  <2> HIDE DEF f
  <2>9. Served(f)  BY <2>6, <2>8, SameObjectsServe DEF SameMap
  <2>10. f.x = fifo.x /\ f.dot = fifo.dot /\ f.px = fifo.px
    BY <2>5, <2>8 DEF SameMap, SameObjects
  <2>11. Shows(f)  BY <2>3, <2>10 DEF Shows
  <2>12. f.x < Width /\ f.dot < MaxDots  BY <2>1, <2>3, <2>10
  <2>13. Pipeline(m) /\ Early(m)  BY <2>2, <2>7, <2>8, <2>9, <2>12, MixedKeeps
  <2>14. /\ m.dot = f.dot /\ g.win = f.win
         /\ g \in FifoState /\ Served(g) /\ Shows(g) /\ Clock(g) /\ AtEdge(g) /\ AtEnd(g)
    BY <2>2, <2>7, <2>8, <2>9, <2>11, <2>12, MixedObjects
  <2> HIDE DEF m
  <2>15. fifo' = g  BY <2>1, <2>12, <2>14 DEF Counts
  <2>16. SameBg(m, g)  BY <2>13 DEF Counts, SameBg, Pipeline, Shaped, Fields
  <2>17. Pipeline(g) /\ Early(g)  BY <2>13, <2>16, SameBgKeeps
  <2>19. g.x < Width => g.dot < MaxDots
    <3>1. line.win /\ ~g.win => line.wx > 7
      <4>1. PICK v \in Nat : line.wx = v  BY <2>2, LineIs
      <4>2. PICK x \in Nat : f.x = x
        <5>1. f.x \in 0 .. Width  BY <2>8 DEF FifoState
        <5> QED  BY <5>1, Sizes
      <4>3. line.win /\ ~f.win => x + 7 < v  BY <2>7, <4>1, <4>2 DEF NotYet
      <4> QED  BY <2>14, <4>1, <4>3
    <3> QED  BY <2>2, <2>14, <3>1, DotsLast
  <2> HIDE DEF g
  <2>20. OInv(g)  BY <2>14, <2>19 DEF OInv
  <2>21. line' = line  BY <2>1
  <2>22. BInv'
    BY <2>2, <2>15, <2>17, <2>21 DEF BInv, Pipeline, Shaped, Typed, Counted, Shift,
              Latched, TileAt, Waits, Due, Late, Early
  <2>23. OInv(fifo)'  BY <2>15, <2>20, <2>21, OInvPrimed
  <2> QED  BY <2>22, <2>23 DEF IInv
<1>2. CASE UNCHANGED vars
  <2>1. BInv'
    BY <1>2 DEF IInv, BInv, vars, Pipeline, Shaped, Typed, Counted, Shift, Latched, TileAt,
              Waits, Due, Late, Early
  <2>2. OInv(fifo)'  BY <1>2, OInvPrimed DEF IInv, vars
  <2> QED  BY <2>1, <2>2 DEF IInv
<1> QED  BY <1>1, <1>2 DEF Next
-----------------------------------------------------------------------------
(* At the end of the line the dots are the bare length and what the objects  *)
(* owed.                                                                     *)
LEMMA EndOfLine ==
  ASSUME IInv, fifo.x = Width
  PROVE  fifo.dot = BareLength(line) + FullPenalty(line)
<1>0. line \in Lines /\ fifo \in FifoState /\ Served(fifo) /\ Clock(fifo)
  BY DEF IInv, BInv, OInv
<1>1. PICK v \in Nat : line.wx = v  BY <1>0, LineIs
<1>2. PICK w \in Nat : fifo.x = w /\ Width = w  BY Sizes
<1>3. fifo.win \in BOOLEAN /\ fifo.discard \in 0 .. 7  BY <1>0 DEF FifoState
<1>4. PICK d \in Int : fifo.dot = d
  <2>1. fifo.dot \in 0 .. MaxDots /\ MaxDots \in Nat  BY <1>0, FifoAssumption DEF FifoState
  <2>2. \A k \in Nat : \A i \in 0 .. k : i \in Int  OBVIOUS
  <2> QED  BY <2>1, <2>2
<1>5. PICK o \in Nat, p \in Nat : Owed(line)[fifo.next] = o /\ FullPenalty(line) = p
  BY <1>0, UsedIs
<1>6. PICK b \in 0 .. 7 : Fine = b  BY <1>0, LineIs DEF Fine
<1>7. PICK l \in Nat, c \in Nat, e \in 0 .. 7, k \in 0 .. 7 :
        /\ Left(fifo) = l /\ Began(fifo) = c /\ Drop(fifo) = e /\ fifo.discard = k
        /\ l < w
  BY <1>0, <1>2, <1>3, ClockNumbers DEF Clock
<1>8. /\ fifo.stall = 0
      /\ \A i \in fifo.next + 1 .. Len(Selected(line)) : Selected(line)[i].x >= Width + 8
  BY DEF IInv, OInv, AtEnd
<1>9. o = p
  <2>1. line \in Line  BY <1>0, FifoAssumption
  <2>2. fifo.next \in 0 .. Len(Selected(line))  BY <1>0 DEF Served
  <2> QED  BY <1>5, <1>8, <2>1, <2>2, OwedGrows
<1>10. d - o + 0 = c + 11 + (w - l) + (e - k) /\ k = 0
  <2>1. Running(fifo)
    <3>1. ~(w = l)  BY <1>7
    <3> QED  BY <1>0, <1>2, <1>7, <3>1 DEF Clock, Starting
  <2>2. Used(fifo) = d - o + 0  BY <1>4, <1>5, <1>8 DEF Used
  <2>3. w > l  BY <1>7
  <2> QED  BY <1>2, <1>7, <2>1, <2>2, <2>3 DEF Running, Flowing, WarmUp
<1> DEFINE bare == w + 11 + (IF line.win /\ v <= w + 6
                             THEN IF v <= 7 THEN 7 - v ELSE 11 + b ELSE b)
<1>11. BareLength(line) = bare  BY <1>1, <1>2, <1>6 DEF BareLength, WarmUp, Fine
<1>12. bare = c + 11 + (w - l) + e
  <2>1. CASE fifo.win
    <3>1. line.win /\ v <= w + 6  BY <1>0, <1>1, <1>2, <2>1 DEF Clock, InWindow
    <3>2. CASE v <= 7
      <4>1. l = 0 /\ c = 0 /\ e = 7 - v  BY <1>1, <1>7, <2>1, <3>2 DEF Left, Began, Drop
      <4> QED  BY <3>1, <3>2, <4>1
    <3>3. CASE v > 7
      <4>1. l = v - 7 /\ e = 0  BY <1>1, <1>7, <2>1, <3>3 DEF Left, Drop
      <4>2. c = l + 11 + b  BY <1>1, <1>6, <1>7, <2>1, <3>3 DEF Began, WarmUp
      <4> QED  BY <3>1, <3>3, <4>1, <4>2
    <3> QED  BY <3>2, <3>3
  <2>2. CASE ~fifo.win
    <3>1. l = 0 /\ c = 0 /\ e = b  BY <1>6, <1>7, <2>2 DEF Left, Began, Drop
    <3>2. ~(line.win /\ v <= w + 6)
      <4>1. w = 0 \/ w + 7 <= v \/ ~line.win
        BY <1>1, <1>2, <2>2 DEF IInv, BInv, Early
      <4>2. w > 0  BY <1>2, Sizes
      <4> QED  BY <4>1, <4>2
    <3> QED  BY <3>1, <3>2
  <2> QED  BY <2>1, <2>2
<1> HIDE DEF bare
<1>13. d = bare + p  BY <1>9, <1>10, <1>12
<1> QED  BY <1>4, <1>5, <1>11, <1>13

(* The pipeline, the objects and the clock, at every dot of every line.       *)
LEMMA AlwaysIInv == Spec => []IInv
<1>1. Init => IInv  BY InitBInv, InitOInv DEF IInv
<1> QED  BY <1>1, StepIInv, PTL DEF Spec

(* fifo_bg_line: on every line, whatever the scroll, the window and the       *)
(* objects, what waits in the queue is what comes next on the map in use,     *)
(* behind the pixels that are still to be dropped.                            *)
THEOREM TheQueueIsWhatComesNext == Spec => []QueueIsNextPixels
<1>1. IInv => QueueIsNextPixels
  BY DEF IInv, BInv, Pipeline, Waits, Due, QueueIsNextPixels
<1> QED  BY <1>1, AlwaysIInv, PTL

(* fifo_bg_line: every field stays in its range, the ring of 16 never         *)
(* overflows, and no more objects are fetched than the line shows.            *)
THEOREM TheFifoFits == Spec => []FifoInv
<1>1. IInv => FifoInv
  <2> SUFFICES ASSUME IInv PROVE FifoInv  OBVIOUS
  <2>1. /\ fifo \in FifoState /\ Len(fifo.queue) <= 16
        /\ fifo.next \in 0 .. Len(Selected(line)) /\ fifo.objq \in [1 .. 8 -> Slots]
        /\ line \in Lines
    BY DEF IInv, BInv, OInv, Pipeline, Typed, Served
  <2>2. Len(fifo.objq) = 8
    <3>0. [1 .. 8 -> Slots] \subseteq Seq(Slots)  BY SeqDef
    <3>1. fifo.objq \in Seq(Slots)  BY <2>1, <3>0
    <3> QED  BY <2>1, <3>1, LenProperties
  <2>3. fifo.next <= Len(Selected(line))
    <3>1. PICK n \in Nat : Len(Selected(line)) = n  BY <2>1, ObjectsAre
    <3> QED  BY <2>1, <3>1
  <2> QED  BY <2>1, <2>2, <2>3 DEF FifoInv
<1> QED  BY <1>1, AlwaysIInv, PTL

(* fifo_bg_line: a pixel that comes out is the one render_scanline puts there,*)
(* on every line, unless a hidden object lies over one that would be seen.    *)
THEOREM ThePixelsAreRenderScanlines == Spec => []PixelsAreTheScanlines
<1>1. IInv => PixelsAreTheScanlines
  BY DEF IInv, OInv, Shows, PixelsAreTheScanlines
<1> QED  BY <1>1, AlwaysIInv, PTL

(* fifo_bg_line: the dots of a line are those of its scroll and its window and,*)
(* stall by stall, what obj_mode3_penalty computes, with the three it takes off.*)
THEOREM TheStallsAreThePenalty == Spec => []PenaltyEmerges
<1>1. IInv => PenaltyEmerges
  <2> SUFFICES ASSUME IInv, fifo.x = Width
               PROVE  fifo.dot = BareLength(line)
                                   + (IF Penalty(line) > 0 THEN Penalty(line) + 3 ELSE 0)
    BY DEF PenaltyEmerges
  <2>1. line \in Line  BY FifoAssumption DEF IInv, BInv
  <2>2. FullPenalty(line) = IF Penalty(line) > 0 THEN Penalty(line) + 3 ELSE 0
    BY <2>1, ThePenaltyFits
  <2> QED  BY <2>2, EndOfLine
<1> QED  BY <1>1, AlwaysIInv, PTL
=============================================================================
