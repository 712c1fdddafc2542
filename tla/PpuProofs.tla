----------------------------- MODULE PpuProofs -----------------------------
(***************************************************************************)
(* Proofs about Ppu, for lines and frames of any size, any object penalty, *)
(* any fine scroll shorter than the reported tail, both speeds and every   *)
(* program.                                                                *)
(***************************************************************************)
EXTENDS Ppu, TLAPS

(* The constants as integers, and the distances between the boundaries of a  *)
(* line that the proofs use.                                                 *)
LEMMA Timing ==
  /\ LineDots \in Nat /\ Lines \in Nat /\ VblankLine \in Nat /\ Mode2End \in Nat
  /\ Mode3End \in Nat /\ StatDelay \in Nat /\ MaxScx \in Nat /\ WinSize \in Nat
  /\ 0 < VblankLine /\ VblankLine < Lines /\ VblankLine < WinSize
  /\ 4 <= StatDelay /\ MaxScx < StatDelay
  /\ StatDelay < Mode2End /\ Mode2End + StatDelay < Mode3End
  /\ Mode3End + MaxScx + StatDelay <= LineDots
<1>1. Mode3End + MaxScx + 0 + StatDelay <= LineDots  BY PpuAssumption
<1> QED  BY <1>1, PpuAssumption

(* A penalty and a fine scroll leave room for the tail on the line.          *)
LEMMA Delays ==
  /\ \A q \in Pens : q \in Nat /\ Mode3End + MaxScx + q + StatDelay <= LineDots
  /\ \A x \in Scrolls : x \in Nat /\ x <= MaxScx
BY PpuAssumption

(* A PPU between two dots, its numbers typed.                                *)
LEMMA Numbers ==
  ASSUME NEW p \in PpuState
  PROVE  /\ p.row \in Nat /\ p.row < Lines /\ p.col \in Nat /\ p.col < LineDots
         /\ p.ly \in Nat /\ p.ly < Lines /\ p.mode \in {0, 1, 2, 3}
         /\ p.scx \in Nat /\ p.scx <= MaxScx /\ p.pen \in Nat
         /\ Mode3End + MaxScx + p.pen + StatDelay <= LineDots
         /\ p.winLine \in Nat /\ p.winLine < WinSize
         /\ p.on \in BOOLEAN /\ p.drawn \in BOOLEAN /\ p.statLine \in BOOLEAN
<1>1. /\ p.row \in Ly /\ p.col \in 0 .. LineDots - 1 /\ p.ly \in Ly /\ p.mode \in 0 .. 3
      /\ p.scx \in Scrolls /\ p.pen \in Pens /\ p.winLine \in 0 .. WinSize - 1
      /\ p.on \in BOOLEAN /\ p.drawn \in BOOLEAN /\ p.statLine \in BOOLEAN
  BY DEF PpuState
<1>2. p.scx \in Nat /\ p.scx <= MaxScx  BY <1>1, Delays
<1>3. p.pen \in Nat /\ Mode3End + MaxScx + p.pen + StatDelay <= LineDots  BY <1>1, Delays
<1>4. \A n \in Nat : \A i \in 0 .. n - 1 : i \in Nat /\ i < n  OBVIOUS
<1>5. \A m \in 0 .. 3 : m \in {0, 1, 2, 3}  OBVIOUS
<1> QED  BY <1>1, <1>2, <1>3, <1>4, <1>5, Timing DEF Ly
-----------------------------------------------------------------------------
(* stat_check: the STAT line, and a request on its rising edge.              *)
LEMMA StatCheckEffect ==
  ASSUME NEW p \in PpuState
  PROVE  LET c == StatCheck(p) IN
         /\ c \in PpuState
         /\ c.on = p.on /\ c.row = p.row /\ c.col = p.col /\ c.ly = p.ly /\ c.lyc = p.lyc
         /\ c.mode = p.mode /\ c.scx = p.scx /\ c.pen = p.pen /\ c.stat = p.stat
         /\ c.onFrame = p.onFrame /\ c.winLine = p.winLine /\ c.fast = p.fast
         /\ c.drawn = p.drawn
         /\ c.statLine <=> StatSource(p)
         /\ c.irq = IF StatSource(p) /\ ~p.statLine THEN p.irq \cup {"stat"} ELSE p.irq
<1> DEFINE line == StatSource(p)
           irq == IF line /\ ~p.statLine THEN p.irq \cup {"stat"} ELSE p.irq
<1>1. line \in BOOLEAN  BY DEF StatSource
<1>2. p.irq \in SUBSET {"vblank", "stat"}  BY DEF PpuState
<1>3. irq \in SUBSET {"vblank", "stat"}  BY <1>2
<1>4. StatCheck(p) = [p EXCEPT !.statLine = line, !.irq = irq]  BY <1>2 DEF StatCheck, PpuState
<1> SUFFICES LET c == [p EXCEPT !.statLine = line, !.irq = irq] IN
         /\ c \in PpuState
         /\ c.on = p.on /\ c.row = p.row /\ c.col = p.col /\ c.ly = p.ly /\ c.lyc = p.lyc
         /\ c.mode = p.mode /\ c.scx = p.scx /\ c.pen = p.pen /\ c.stat = p.stat
         /\ c.onFrame = p.onFrame /\ c.winLine = p.winLine /\ c.fast = p.fast
         /\ c.drawn = p.drawn
         /\ c.statLine <=> line
         /\ c.irq = irq
  BY <1>4
<1> HIDE DEF line, irq
<1> QED  BY <1>1, <1>3 DEF PpuState

(* The dot counter steps, and wraps at the end of a line and of a frame.     *)
LEMMA AdvanceEffect ==
  ASSUME NEW p \in PpuState
  PROVE  LET a == Advance(p) IN
         /\ a \in PpuState
         /\ a.on = p.on /\ a.ly = p.ly /\ a.lyc = p.lyc
         /\ a.mode = p.mode /\ a.scx = p.scx /\ a.pen = p.pen /\ a.stat = p.stat
         /\ a.onFrame = p.onFrame /\ a.winLine = p.winLine /\ a.fast = p.fast
         /\ a.drawn = p.drawn /\ a.statLine = p.statLine /\ a.irq = p.irq
         /\ p.col < LineDots - 1 => a.col = p.col + 1 /\ a.row = p.row
         /\ p.col = LineDots - 1 =>
              a.col = 0 /\ a.row = IF p.row = Lines - 1 THEN 0 ELSE p.row + 1
<1>n. /\ p.row \in Nat /\ p.row < Lines /\ p.col \in Nat /\ p.col < LineDots
      /\ LineDots \in Nat /\ Lines \in Nat
  BY Numbers, Timing
<1>1. CASE p.col < LineDots - 1
  <2>1. Advance(p) = [p EXCEPT !.col = p.col + 1]  BY <1>1 DEF Advance, PpuState
  <2>2. p.col + 1 \in 0 .. LineDots - 1 /\ p.col # LineDots - 1  BY <1>n, <1>1
  <2> QED  BY <1>1, <2>1, <2>2 DEF PpuState
<1>2. CASE p.col = LineDots - 1
  <2> DEFINE r == IF p.row = Lines - 1 THEN 0 ELSE p.row + 1
  <2>0. ~(p.col < LineDots - 1)  BY <1>n, <1>2
  <2>1. Advance(p) = [p EXCEPT !.col = 0, !.row = r]  BY <2>0 DEF Advance, PpuState
  <2>2. r \in Ly /\ 0 \in 0 .. LineDots - 1  BY <1>n DEF Ly
  <2> SUFFICES LET a == [p EXCEPT !.col = 0, !.row = r] IN
         /\ a \in PpuState
         /\ a.on = p.on /\ a.ly = p.ly /\ a.lyc = p.lyc
         /\ a.mode = p.mode /\ a.scx = p.scx /\ a.pen = p.pen /\ a.stat = p.stat
         /\ a.onFrame = p.onFrame /\ a.winLine = p.winLine /\ a.fast = p.fast
         /\ a.drawn = p.drawn /\ a.statLine = p.statLine /\ a.irq = p.irq
         /\ a.col = 0 /\ a.row = r
    BY <1>2, <2>0, <2>1
  <2> HIDE DEF r
  <2> QED  BY <2>2 DEF PpuState
<1> QED  BY <1>n, <1>1, <1>2

(* The mode of a dot, by the position of the dot.                            *)
LEMMA ModeOfDot ==
  ASSUME NEW p \in PpuState
  PROVE  /\ ModeAt(p) \in 0 .. 3
         /\ ModeAt(p) = 1 <=> p.row >= VblankLine
         /\ ModeAt(p) = 2 <=> p.row < VblankLine /\ p.col < Mode2End
         /\ ModeAt(p) = 3 <=> /\ p.row < VblankLine /\ p.col >= Mode2End
                              /\ p.col < Mode3End + p.scx + p.pen
         /\ ModeAt(p) = 0 <=> /\ p.row < VblankLine
                              /\ p.col >= Mode3End + p.scx + p.pen
<1>1. PICK r \in Nat : p.row = r  BY Numbers
<1>2. PICK c \in Nat : p.col = c  BY Numbers
<1>3. PICK e \in Nat : EndOfMode3(p) = e /\ Mode3End + p.scx + p.pen = e /\ Mode2End < e
  <2>1. PICK x \in Nat : p.scx = x  BY Numbers
  <2>2. PICK n \in Nat : p.pen = n  BY Numbers
  <2> QED  BY <2>1, <2>2, Timing DEF EndOfMode3
<1> QED  BY <1>1, <1>2, <1>3, Timing DEF ModeAt

(* A dot: src/ppu.c 328-362. *)
LEMMA DotIs ==
  ASSUME NEW p \in PpuState, NEW q \in Pens, NEW w \in Windows
  PROVE  Dot(q, w)[p] = Advance(StatCheck(AtDot(p, q, w)))
BY DEF Dot

(* What a dot sets before the STAT check, field by field. *)
LEMMA AtDotEffect ==
  ASSUME NEW p \in PpuState, NEW q \in Pens, NEW w \in Windows
  PROVE  LET s == AtDot(p, q, w) IN
         /\ s \in PpuState
         /\ s.on = p.on /\ s.row = p.row /\ s.col = p.col /\ s.lyc = p.lyc
         /\ s.scx = p.scx /\ s.stat = p.stat /\ s.fast = p.fast /\ s.statLine = p.statLine
         /\ s.ly = p.row /\ s.mode = ModeAt(p)
         /\ s.pen = IF ModeAt(p) = 3 /\ p.mode # 3 THEN q ELSE p.pen
         /\ s.drawn <=> p.drawn \/ Rendered(p)
         /\ s.winLine = IF p.row = 0 /\ p.col = 0 THEN 0
                        ELSE IF Rendered(p) /\ w THEN (p.winLine + 1) % WinSize
                        ELSE p.winLine
         /\ s.irq = IF ModeAt(p) = 1 /\ p.mode # 1 THEN p.irq \cup {"vblank"} ELSE p.irq
<1> DEFINE m == ModeAt(p)
           onFrame == p.onFrame /\ p.row = 0
           pen == IF ModeAt(p) = 3 /\ p.mode # 3 THEN q ELSE p.pen
           drawn == p.drawn \/ Rendered(p)
           win == IF p.row = 0 /\ p.col = 0 THEN 0
                  ELSE IF Rendered(p) /\ w THEN (p.winLine + 1) % WinSize ELSE p.winLine
           irq == IF ModeAt(p) = 1 /\ p.mode # 1 THEN p.irq \cup {"vblank"} ELSE p.irq
           s == [p EXCEPT !.ly = p.row, !.mode = m, !.onFrame = onFrame, !.pen = pen,
                          !.drawn = drawn, !.winLine = win, !.irq = irq]
<1>f. /\ p.row \in Ly /\ p.pen \in Pens /\ p.onFrame \in BOOLEAN /\ p.drawn \in BOOLEAN
      /\ p.irq \in SUBSET {"vblank", "stat"} /\ p.winLine \in 0 .. WinSize - 1
  BY DEF PpuState
<1>1. m \in 0 .. 3  BY ModeOfDot
<1>2. onFrame \in BOOLEAN /\ drawn \in BOOLEAN  BY <1>f DEF Rendered
<1>3. pen \in Pens  BY <1>f
<1>4. win \in 0 .. WinSize - 1
  <2>1. PICK n \in 0 .. WinSize - 1 : p.winLine = n  BY <1>f
  <2>2. (n + 1) % WinSize \in 0 .. WinSize - 1 /\ 0 \in 0 .. WinSize - 1  BY Timing
  <2> QED  BY <2>1, <2>2
<1>5. irq \in SUBSET {"vblank", "stat"}  BY <1>f
<1>6. AtDot(p, q, w) = s  BY DEF AtDot, PpuState
<1> SUFFICES /\ s \in PpuState
             /\ s.on = p.on /\ s.row = p.row /\ s.col = p.col /\ s.lyc = p.lyc
             /\ s.scx = p.scx /\ s.stat = p.stat /\ s.fast = p.fast
             /\ s.statLine = p.statLine
             /\ s.ly = p.row /\ s.mode = m /\ s.pen = pen /\ s.drawn = drawn
             /\ s.winLine = win /\ s.irq = irq
  BY <1>6
<1> HIDE DEF m, onFrame, pen, drawn, win, irq
<1> QED  BY <1>f, <1>1, <1>2, <1>3, <1>4, <1>5 DEF PpuState

(* A whole dot: the position moves on by one, and what the dot set is of the *)
(* position it was at.                                                       *)
LEMMA DotEffect ==
  ASSUME NEW p \in PpuState, NEW q \in Pens, NEW w \in Windows, NEW d, d = Dot(q, w)[p]
  PROVE  /\ d \in PpuState
         /\ d.on = p.on /\ d.scx = p.scx /\ d.stat = p.stat
         /\ d.ly = p.row /\ d.mode = ModeAt(p)
         /\ d.pen = IF ModeAt(p) = 3 /\ p.mode # 3 THEN q ELSE p.pen
         /\ d.drawn <=> p.drawn \/ Rendered(p)
         /\ d.winLine = IF p.row = 0 /\ p.col = 0 THEN 0
                        ELSE IF Rendered(p) /\ w THEN (p.winLine + 1) % WinSize
                        ELSE p.winLine
         /\ "vblank" \in d.irq <=> "vblank" \in p.irq \/ (ModeAt(p) = 1 /\ p.mode # 1)
         /\ "stat" \in p.irq \/ (d.statLine /\ ~p.statLine) => "stat" \in d.irq
         /\ "hblank" \in p.stat /\ ModeAt(p) = 0 => d.statLine
         /\ p.col < LineDots - 1 => d.col = p.col + 1 /\ d.row = p.row
         /\ p.col = LineDots - 1 =>
              d.col = 0 /\ d.row = IF p.row = Lines - 1 THEN 0 ELSE p.row + 1
<1> DEFINE s == AtDot(p, q, w)
           c == StatCheck(s)
<1>d. d = Advance(c)  BY DotIs
<1>1. /\ s \in PpuState
      /\ s.on = p.on /\ s.row = p.row /\ s.col = p.col
      /\ s.scx = p.scx /\ s.stat = p.stat /\ s.statLine = p.statLine
      /\ s.ly = p.row /\ s.mode = ModeAt(p)
      /\ s.pen = IF ModeAt(p) = 3 /\ p.mode # 3 THEN q ELSE p.pen
      /\ s.drawn <=> p.drawn \/ Rendered(p)
      /\ s.winLine = IF p.row = 0 /\ p.col = 0 THEN 0
                     ELSE IF Rendered(p) /\ w THEN (p.winLine + 1) % WinSize
                     ELSE p.winLine
      /\ s.irq = IF ModeAt(p) = 1 /\ p.mode # 1 THEN p.irq \cup {"vblank"} ELSE p.irq
  BY AtDotEffect
<1> HIDE DEF s
<1>2. /\ c \in PpuState
      /\ c.on = s.on /\ c.row = s.row /\ c.col = s.col /\ c.ly = s.ly
      /\ c.mode = s.mode /\ c.scx = s.scx /\ c.pen = s.pen /\ c.stat = s.stat
      /\ c.winLine = s.winLine /\ c.drawn = s.drawn
      /\ c.statLine <=> StatSource(s)
      /\ c.irq = IF StatSource(s) /\ ~s.statLine THEN s.irq \cup {"stat"} ELSE s.irq
  BY <1>1, StatCheckEffect
<1> HIDE DEF c
<1>3. /\ d \in PpuState
      /\ d.on = c.on /\ d.ly = c.ly /\ d.mode = c.mode /\ d.scx = c.scx /\ d.pen = c.pen
      /\ d.stat = c.stat /\ d.winLine = c.winLine /\ d.drawn = c.drawn
      /\ d.statLine = c.statLine /\ d.irq = c.irq
      /\ c.col < LineDots - 1 => d.col = c.col + 1 /\ d.row = c.row
      /\ c.col = LineDots - 1 =>
           d.col = 0 /\ d.row = IF c.row = Lines - 1 THEN 0 ELSE c.row + 1
  BY <1>2, <1>d, AdvanceEffect
<1>4. "hblank" \in p.stat /\ ModeAt(p) = 0 => StatSource(s)  BY <1>1 DEF StatSource
<1>5. d.statLine <=> StatSource(s)  BY <1>2, <1>3
<1>6. d.irq = IF StatSource(s) /\ ~s.statLine THEN s.irq \cup {"stat"} ELSE s.irq
  BY <1>2, <1>3
<1>7. "vblank" \in d.irq <=> "vblank" \in p.irq \/ (ModeAt(p) = 1 /\ p.mode # 1)
  BY <1>1, <1>6
<1>8. "stat" \in p.irq \/ (d.statLine /\ ~p.statLine) => "stat" \in d.irq
  BY <1>1, <1>5, <1>6
<1> QED  BY <1>1, <1>2, <1>3, <1>4, <1>5, <1>7, <1>8
-----------------------------------------------------------------------------
(* What PpuInv says, of any PPU, and that the LCD comes on outside mode 3    *)
(* with no window line drawn.                                                *)
FreshFits(p) == Fresh(p) => p.mode \in {0, 2} /\ p.winLine = 0

Mode3Fits(p) ==
  p.on /\ ~Fresh(p) /\ p.mode = 3 => LastCol(p) < Mode3End + MaxScx + p.pen

\* All of it, but for the upper bound of mode 3.
NearlyFits(p) ==
  /\ p \in PpuState /\ LyIsOfLastDot(p) /\ FreshFits(p)
  /\ p.on /\ ~Fresh(p) => /\ p.ly >= VblankLine <=> p.mode = 1
                          /\ p.mode = 2 <=> p.ly < VblankLine /\ LastCol(p) < Mode2End
                          /\ p.mode = 0 => LastCol(p) >= Mode3End + p.pen

Fits(p) == NearlyFits(p) /\ Mode3Fits(p)

\* Mode 0 has begun for good: SCX was not raised since.
Settled(p) == p.on /\ ~Fresh(p) /\ p.mode = 0 => LastCol(p) >= Mode3End + p.scx + p.pen

(* A dot from anywhere leaves the PPU settled, and from a settled PPU mode 3 *)
(* keeps its bound: an SCX raised in mode 0 can break it for one dot only.   *)
LEMMA DotFits ==
  ASSUME NEW p, NearlyFits(p), p.on, NEW q \in Pens, NEW w \in Windows,
         NEW d, d = Dot(q, w)[p]
  PROVE  /\ NearlyFits(d) /\ Settled(d) /\ d.on /\ ~Fresh(d) /\ LastCol(d) = p.col
         /\ Settled(p) => Mode3Fits(d)
<1>p. p \in PpuState  BY DEF NearlyFits
<1>d. /\ d \in PpuState
      /\ d.on = p.on /\ d.scx = p.scx /\ d.ly = p.row /\ d.mode = ModeAt(p)
      /\ d.pen = IF ModeAt(p) = 3 /\ p.mode # 3 THEN q ELSE p.pen
      /\ p.col < LineDots - 1 => d.col = p.col + 1 /\ d.row = p.row
      /\ p.col = LineDots - 1 =>
           d.col = 0 /\ d.row = IF p.row = Lines - 1 THEN 0 ELSE p.row + 1
  <2>1. d \in PpuState /\ d.scx = p.scx /\ d.ly = p.row
    BY <1>p, DotEffect
  <2>4. d.on = p.on  BY <1>p, DotEffect
  <2>5. d.mode = ModeAt(p)  BY <1>p, DotEffect
  <2>2. d.pen = IF ModeAt(p) = 3 /\ p.mode # 3 THEN q ELSE p.pen  BY <1>p, DotEffect
  <2>3. /\ p.col < LineDots - 1 => d.col = p.col + 1 /\ d.row = p.row
        /\ p.col = LineDots - 1 =>
             d.col = 0 /\ d.row = IF p.row = Lines - 1 THEN 0 ELSE p.row + 1
    BY <1>p, DotEffect
  <2> QED  BY <2>1, <2>2, <2>3, <2>4, <2>5
<1>1. PICK r \in Nat : p.row = r /\ r < Lines  BY <1>p, Numbers
<1>2. PICK c \in Nat : p.col = c /\ c < LineDots  BY <1>p, Numbers
<1>3. PICK x \in Nat : p.scx = x /\ x <= MaxScx  BY <1>p, Numbers
<1>4. PICK n \in Nat : p.pen = n /\ Mode3End + MaxScx + n + StatDelay <= LineDots
  BY <1>p, Numbers
<1>5. PICK l \in Nat : p.ly = l /\ l < Lines  BY <1>p, Numbers
<1>6. q \in Nat  BY Delays
<1>7. /\ d.mode = 1 <=> r >= VblankLine
      /\ d.mode = 2 <=> r < VblankLine /\ c < Mode2End
      /\ d.mode = 3 <=> r < VblankLine /\ c >= Mode2End /\ c < Mode3End + x + n
      /\ d.mode = 0 <=> r < VblankLine /\ c >= Mode3End + x + n
  BY <1>p, <1>d, <1>1, <1>2, <1>3, <1>4, ModeOfDot
<1>8. /\ c < LineDots - 1 => d.col = c + 1 /\ d.row = r
      /\ c = LineDots - 1 => d.col = 0 /\ d.row = IF r = Lines - 1 THEN 0 ELSE r + 1
      /\ c < LineDots - 1 \/ c = LineDots - 1
  BY <1>d, <1>1, <1>2, Timing
<1>9. LastCol(d) = c  BY <1>8, <1>2, Timing DEF LastCol
<1>10. ~Fresh(d)  BY <1>1, <1>7, <1>8, Timing DEF Fresh
<1>11. LyIsOfLastDot(d)
  BY <1>d, <1>1, <1>2, <1>8, <1>10, Timing DEF LyIsOfLastDot
<1>12. d.mode = 0 => d.pen = n  BY <1>d, <1>4
<1>13. NearlyFits(d)
  <2>1. d.ly >= VblankLine <=> d.mode = 1  BY <1>d, <1>1, <1>7
  <2>2. d.mode = 2 <=> d.ly < VblankLine /\ LastCol(d) < Mode2End
    BY <1>d, <1>1, <1>7, <1>9
  <2>3. d.mode = 0 => LastCol(d) >= Mode3End + d.pen
    BY <1>3, <1>4, <1>7, <1>9, <1>12, <1>2, Timing
  <2> QED  BY <1>d, <1>10, <1>11, <2>1, <2>2, <2>3 DEF NearlyFits, FreshFits
<1>14. Settled(d)  BY <1>d, <1>3, <1>7, <1>9, <1>12 DEF Settled
<1>15. Settled(p) => Mode3Fits(d)
  <2> SUFFICES ASSUME Settled(p), d.mode = 3
               PROVE  c < Mode3End + MaxScx + d.pen
    BY <1>9 DEF Mode3Fits
  <2>1. CASE p.mode = 3
    <3>1. d.pen = n  BY <1>d, <1>4, <2>1
    <3> QED  BY <1>2, <1>3, <1>4, <1>7, <3>1, Timing
  <2>2. CASE p.mode # 3
    <3>1. d.pen = q  BY <1>d, <2>2
    <3>2. c # 0 /\ r < VblankLine /\ c >= Mode2End /\ ~Fresh(p)
      BY <1>2, <1>7, Timing DEF Fresh
    <3>3. LastCol(p) = c - 1 /\ l = r
      BY <1>1, <1>2, <1>5, <3>2 DEF LastCol, NearlyFits, LyIsOfLastDot
    <3>4. p.mode # 1  BY <1>5, <3>2, <3>3, <1>1, Timing DEF NearlyFits
    <3>5. p.mode # 0
      BY <1>2, <1>3, <1>4, <1>7, <3>2, <3>3, Timing DEF Settled
    <3>6. p.mode = 2  BY <1>p, <2>2, <3>4, <3>5, Numbers
    <3>7. c - 1 < Mode2End  BY <3>2, <3>3, <3>6 DEF NearlyFits
    <3> QED  BY <1>2, <1>6, <3>1, <3>7, Timing
  <2> QED  BY <2>1, <2>2
<1> QED  BY <1>2, <1>d, <1>9, <1>10, <1>13, <1>14, <1>15
-----------------------------------------------------------------------------
(* The fields the dot clock turns on: a PPU that agrees with one that fits   *)
(* in these fits as well.                                                    *)
SameClock(t, u) ==
  /\ u.on = t.on /\ u.row = t.row /\ u.col = t.col /\ u.ly = t.ly
  /\ u.mode = t.mode /\ u.pen = t.pen /\ u.winLine = t.winLine

(* What depends on the clock, the mode and the penalty alone.                *)
LEMMA SameClockFits ==
  ASSUME NEW t, NEW u \in PpuState, NearlyFits(t), SameClock(t, u)
  PROVE  /\ NearlyFits(u)
         /\ Mode3Fits(t) => Mode3Fits(u)
         /\ Fresh(u) <=> Fresh(t)
         /\ LastCol(u) = LastCol(t) /\ Done(u) = Done(t) /\ Win(u) = Win(t)
         /\ Settled(t) /\ u.scx = t.scx => Settled(u)
<1>1. Fresh(u) <=> Fresh(t)  BY DEF SameClock, Fresh
<1>2. LastCol(u) = LastCol(t)  BY DEF SameClock, LastCol
<1>3. NearlyFits(u)
  BY <1>1, <1>2 DEF NearlyFits, FreshFits, LyIsOfLastDot, SameClock
<1>4. Mode3Fits(t) => Mode3Fits(u)  BY <1>1, <1>2 DEF Mode3Fits, SameClock
<1>5. Done(u) = Done(t) /\ Win(u) = Win(t)  BY <1>1 DEF Done, Win, SameClock
<1>6. Settled(t) /\ u.scx = t.scx => Settled(u)  BY <1>1, <1>2 DEF Settled, SameClock
<1> QED  BY <1>1, <1>2, <1>3, <1>4, <1>5, <1>6

(* An M-cycle's tick: it clears what the last one did, and runs two or four  *)
(* dots, or none while the LCD is off.                                       *)
Begun(p) == [p EXCEPT !.drawn = FALSE, !.irq = {}]

(* Only the record of what the last M-cycle did is cleared.                  *)
LEMMA BegunEffect ==
  ASSUME NEW p \in PpuState
  PROVE  LET s == Begun(p) IN
         /\ s \in PpuState /\ SameClock(p, s) /\ s.scx = p.scx /\ s.stat = p.stat
         /\ s.statLine = p.statLine /\ s.drawn = FALSE /\ s.irq = {} /\ s.fast = p.fast
BY DEF Begun, PpuState, SameClock

(* The tick written out, for each speed.                                     *)
LEMMA TickIs ==
  ASSUME NEW p \in PpuState, NEW q, NEW w
  PROVE  /\ ~p.on => Tick(p, q, w) = Off(Begun(p))
         /\ p.on /\ p.fast => Tick(p, q, w) = Dot(q, w)[Dot(q, w)[Begun(p)]]
         /\ p.on /\ ~p.fast =>
              Tick(p, q, w)
                = Dot(q, w)[Dot(q, w)[Dot(q, w)[Dot(q, w)[Begun(p)]]]]
BY DEF Tick, Begun

\* The PPU while the LCD is off.
Dark(p) == /\ p \in PpuState /\ ~p.on /\ p.row = 0 /\ p.col = 0 /\ p.ly = 0
           /\ p.mode = 0 /\ p.winLine = 0

(* With the LCD off the clock stands at the beginning of the frame.          *)
LEMMA OffEffect ==
  ASSUME NEW p \in PpuState
  PROVE  LET o == Off(p) IN
         /\ o \in PpuState /\ o.on = p.on /\ o.row = 0 /\ o.col = 0 /\ o.ly = 0
         /\ o.mode = 0 /\ o.winLine = 0 /\ o.scx = p.scx /\ o.stat = p.stat
         /\ o.statLine = p.statLine /\ o.drawn = p.drawn /\ o.irq = p.irq
<1>1. 0 \in Ly /\ 0 \in 0 .. LineDots - 1 /\ 0 \in 0 .. WinSize - 1 /\ 0 \in 0 .. 3
  BY Timing DEF Ly
<1> QED  BY <1>1 DEF Off, PpuState

(* Such a PPU fits, with no line and no window line of a frame done.         *)
LEMMA DarkFits == ASSUME NEW p, Dark(p)
                  PROVE  Fits(p) /\ Settled(p) /\ Fresh(p) /\ Done(p) = 0 /\ Win(p) = 0
BY DEF Dark, Fits, NearlyFits, Mode3Fits, Settled, LyIsOfLastDot, FreshFits, Fresh, Done, Win

(* Wherever an M-cycle starts from, its tick ends in a PPU that fits.        *)
LEMMA TickFits ==
  ASSUME NEW p, NearlyFits(p), NEW q \in Pens, NEW w \in Windows
  PROVE  LET t == Tick(p, q, w) IN
         /\ Fits(t) /\ Settled(t) /\ t.on = p.on /\ t.scx = p.scx
         /\ ~p.on => Dark(t) /\ t.drawn = FALSE /\ t.irq = {}
<1> DEFINE dot == Dot(q, w)
           s == Begun(p)
           t == Tick(p, q, w)
<1>p. p \in PpuState /\ p.on \in BOOLEAN  BY DEF NearlyFits, PpuState
<1>1. /\ s \in PpuState /\ SameClock(p, s) /\ s.drawn = FALSE /\ s.irq = {}
      /\ s.scx = p.scx
  BY <1>p, BegunEffect
<1> HIDE DEF s
<1>2. NearlyFits(s) /\ s.on = p.on
  <2>1. NearlyFits(s)  BY <1>1, SameClockFits
  <2> QED  BY <1>1, <2>1 DEF SameClock
<1>3. CASE ~p.on
  <2>1. t = Off(s)  BY <1>3, <1>p, TickIs DEF s
  <2> HIDE DEF t
  <2>2. Dark(t) /\ t.drawn = FALSE /\ t.irq = {} /\ t.on = p.on /\ t.scx = p.scx
    BY <1>1, <1>2, <1>3, <2>1, OffEffect DEF Dark
  <2> QED  BY <2>2, DarkFits DEF t
<1>4. CASE p.on
  <2> DEFINE Good(x) == Fits(x) /\ Settled(x) /\ x.on /\ x.scx = p.scx
  <2> HIDE DEF dot
  <2>s. \A x : NearlyFits(x) => dot[x].scx = x.scx  BY DotEffect DEF dot, NearlyFits
  <2>1. \A x : NearlyFits(x) /\ x.on =>
             NearlyFits(dot[x]) /\ Settled(dot[x]) /\ dot[x].on
    BY DotFits DEF dot
  <2>2. \A x : NearlyFits(x) /\ x.on /\ Settled(x) /\ x.scx = p.scx => Good(dot[x])
    BY <2>s, DotFits DEF dot, Fits
  <2>3. \A x : Good(x) => Good(dot[x])  BY <2>2 DEF Fits
  <2>4. Good(dot[dot[s]])  BY <1>1, <1>2, <1>4, <2>s, <2>1, <2>2
  <2> HIDE DEF Good
  <2>5. Good(dot[dot[dot[dot[s]]]])  BY <2>3, <2>4
  <2>6. t = dot[dot[s]] \/ t = dot[dot[dot[dot[s]]]]  BY <1>p, <1>4, TickIs DEF dot, s
  <2>7. Good(t)  BY <2>4, <2>5, <2>6
  <2> QED  BY <1>4, <2>7 DEF Good
<1> QED  BY <1>p, <1>3, <1>4
-----------------------------------------------------------------------------
(* The writes that may end an M-cycle: src/ppu.c 387-416.  They leave the    *)
(* dot clock alone, or switch the LCD off, or switch it on.                  *)
Untouched(t, u) == SameClock(t, u)
SwitchedOff(t, u) == t.on /\ Dark(u)
SwitchedOn(t, u) == /\ ~t.on /\ u.on /\ u.row = t.row /\ u.col = t.col /\ u.ly = t.ly
                    /\ u.mode = t.mode /\ u.winLine = t.winLine /\ u.pen = t.pen

Write(t) == Idle(t) \/ WriteLcdc(t) \/ WriteStat(t) \/ WriteScx(t) \/ WriteLyc(t)

(* The writes: LCDC may switch the LCD, the others leave the clock alone.    *)
LEMMA WriteEffect ==
  ASSUME NEW t \in PpuState, Write(t)
  PROVE  /\ ppu' \in PpuState /\ ppu'.drawn = t.drawn
         /\ "vblank" \in ppu'.irq <=> "vblank" \in t.irq
         /\ "stat" \in t.irq => "stat" \in ppu'.irq
         /\ Untouched(t, ppu') \/ SwitchedOff(t, ppu') \/ SwitchedOn(t, ppu')
<1> DEFINE u == ppu'
           Goal == /\ u \in PpuState /\ u.drawn = t.drawn
                   /\ "vblank" \in u.irq <=> "vblank" \in t.irq
                   /\ "stat" \in t.irq => "stat" \in u.irq
                   /\ Untouched(t, u) \/ SwitchedOff(t, u) \/ SwitchedOn(t, u)
<1>0. Untouched(t, t)  BY DEF Untouched, SameClock
<1>1. ASSUME Idle(t) PROVE Goal  BY <1>0, <1>1 DEF Idle
<1>2. ASSUME WriteLcdc(t) PROVE Goal
  <2>1. PICK on \in BOOLEAN : u = LcdcWrite(t, on)  BY <1>2 DEF WriteLcdc
  <2>2. CASE t.on /\ ~on
    <3> DEFINE o == Off(t)
               coin == (t.ly = t.lyc)
               line == "lyc" \in t.stat /\ t.ly = t.lyc
    <3>1. u = [o EXCEPT !.on = FALSE, !.lyCoin = coin, !.statLine = line]
      BY <2>1, <2>2 DEF LcdcWrite
    <3>2. /\ o \in PpuState /\ o.row = 0 /\ o.col = 0 /\ o.ly = 0 /\ o.mode = 0
          /\ o.winLine = 0 /\ o.drawn = t.drawn /\ o.irq = t.irq
      BY OffEffect
    <3>3. coin \in BOOLEAN /\ line \in BOOLEAN  OBVIOUS
    <3> HIDE DEF o, coin, line
    <3>4. u \in PpuState  BY <3>1, <3>2, <3>3 DEF PpuState
    <3>5. /\ u.row = 0 /\ u.col = 0 /\ u.ly = 0 /\ u.mode = 0 /\ u.winLine = 0
          /\ u.on = FALSE /\ u.drawn = t.drawn /\ u.irq = t.irq
      BY <3>1, <3>2 DEF PpuState
    <3> QED  BY <2>2, <3>4, <3>5 DEF SwitchedOff, Dark
  <2>3. CASE ~t.on /\ on
    <3> DEFINE c == [t EXCEPT !.on = TRUE, !.onFrame = TRUE]
    <3>1. u = StatCheck(c)  BY <2>1, <2>3 DEF LcdcWrite
    <3>2. /\ c \in PpuState /\ c.on /\ c.row = t.row /\ c.col = t.col /\ c.ly = t.ly
          /\ c.mode = t.mode /\ c.winLine = t.winLine /\ c.pen = t.pen
          /\ c.drawn = t.drawn /\ c.irq = t.irq
      BY DEF PpuState
    <3> HIDE DEF c
    <3>3. /\ u \in PpuState /\ u.on = c.on /\ u.row = c.row /\ u.col = c.col /\ u.ly = c.ly
          /\ u.mode = c.mode /\ u.pen = c.pen /\ u.winLine = c.winLine
          /\ u.drawn = c.drawn
      BY <3>1, <3>2, StatCheckEffect
    <3>4. u.irq = IF StatSource(c) /\ ~c.statLine THEN c.irq \cup {"stat"} ELSE c.irq
      BY <3>1, <3>2, StatCheckEffect
    <3> QED  BY <2>3, <3>2, <3>3, <3>4 DEF SwitchedOn
  <2>4. CASE ~(t.on /\ ~on) /\ ~(~t.on /\ on)
    <3>1. u = t  BY <2>1, <2>4 DEF LcdcWrite
    <3> QED  BY <1>0, <3>1
  <2> QED  BY <2>2, <2>3, <2>4
<1>3. ASSUME WriteStat(t) PROVE Goal
  <2>1. PICK s \in SUBSET Sources : u = [t EXCEPT !.stat = s]  BY <1>3 DEF WriteStat
  <2> QED  BY <2>1 DEF PpuState, Untouched, SameClock
<1>4. ASSUME WriteScx(t) PROVE Goal
  <2>1. PICK v \in Scrolls : u = [t EXCEPT !.scx = v]  BY <1>4 DEF WriteScx
  <2> QED  BY <2>1 DEF PpuState, Untouched, SameClock
<1>5. ASSUME WriteLyc(t) PROVE Goal
  <2>1. PICK v \in Lycs : u = [t EXCEPT !.lyc = v]  BY <1>5 DEF WriteLyc
  <2> QED  BY <2>1 DEF PpuState, Untouched, SameClock
<1> QED  BY <1>1, <1>2, <1>3, <1>4, <1>5 DEF Write

(* A write leaves a PPU that fits; the LCD goes off and on at the top of a   *)
(* frame with nothing drawn.                                                 *)
LEMMA WriteFits ==
  ASSUME NEW t, Fits(t), ~t.on => Dark(t), Write(t)
  PROVE  /\ Fits(ppu')
         /\ ~Untouched(t, ppu') =>
              Fresh(ppu') /\ ppu'.mode = 0 /\ Done(ppu') = 0 /\ Win(ppu') = 0
<1>t. t \in PpuState /\ NearlyFits(t) /\ Mode3Fits(t)  BY DEF Fits, NearlyFits
<1>u. /\ ppu' \in PpuState
      /\ Untouched(t, ppu') \/ SwitchedOff(t, ppu') \/ SwitchedOn(t, ppu')
  BY <1>t, WriteEffect
<1> DEFINE u == ppu'
<1> HIDE DEF u
<1>1. CASE Untouched(t, u)
  BY <1>1, <1>t, <1>u, SameClockFits DEF Fits, Untouched, u
<1>2. CASE SwitchedOff(t, u)
  <2>1. Dark(u)  BY <1>2 DEF SwitchedOff
  <2>2. Fits(u) /\ Fresh(u) /\ Done(u) = 0 /\ Win(u) = 0 /\ u.mode = 0
    BY <2>1, DarkFits DEF Dark
  <2> QED  BY <2>2 DEF u
<1>3. CASE SwitchedOn(t, u)
  <2>1. /\ u.row = 0 /\ u.col = 0 /\ u.ly = 0 /\ u.mode = 0 /\ u.winLine = 0 /\ u.on
    BY <1>3 DEF SwitchedOn, Dark
  <2>2. Fresh(u) /\ Done(u) = 0 /\ Win(u) = 0  BY <2>1 DEF Fresh, Done, Win
  <2>3. Fits(u)
    BY <1>u, <2>1, <2>2 DEF Fits, NearlyFits, Mode3Fits, LyIsOfLastDot, FreshFits, u
  <2> QED  BY <2>1, <2>2, <2>3 DEF u
<1> QED  BY <1>u, <1>1, <1>2, <1>3 DEF u
-----------------------------------------------------------------------------
(* The invariant of the dot clock: PpuInv and where the LCD comes on.        *)
CInv == Fits(ppu) /\ rude \in BOOLEAN

(* The inductive invariant is PpuInv and what it leaves open of a fresh PPU. *)
LEMMA FitsIsPpuInv ==
  CInv <=> PpuInv /\ FreshFits(ppu)
BY DEF CInv, Fits, NearlyFits, Mode3Fits, PpuInv, TypeOK, ModeFitsDot

(* An M-cycle begins with the tick, at the other speed after a STOP.         *)
Ticked(q, w, t) == \/ t = Tick(ppu, q, w)
                   \/ t = Tick([ppu EXCEPT !.fast = ~@], q, w)

(* An M-cycle is a tick, then at most one write.                             *)
LEMMA CycleIs ==
  ASSUME Next
  PROVE  \E q \in Pens, w \in Windows : \E t : Ticked(q, w, t) /\ Write(t) /\ Courtesy
BY DEF Next, MCycle, SwitchSpeed, Ticked, Write, Idle

(* The speed matters to no property of the PPU between M-cycles.             *)
LEMMA TickedFits ==
  ASSUME CInv, NEW q \in Pens, NEW w \in Windows, NEW t, Ticked(q, w, t)
  PROVE  /\ Fits(t) /\ Settled(t) /\ t.on = ppu.on /\ t.scx = ppu.scx
         /\ ~ppu.on => Dark(t) /\ t.drawn = FALSE /\ t.irq = {}
<1>1. NearlyFits(ppu) /\ ppu \in PpuState  BY DEF CInv, Fits, NearlyFits
<1>2. CASE t = Tick(ppu, q, w)  BY <1>1, <1>2, TickFits
<1>3. CASE t = Tick([ppu EXCEPT !.fast = ~@], q, w)
  <2> DEFINE p == [ppu EXCEPT !.fast = ~ppu.fast]
  <2>1. p \in PpuState /\ SameClock(ppu, p) /\ p.on = ppu.on /\ p.scx = ppu.scx
    BY <1>1 DEF PpuState, SameClock
  <2>2. t = Tick(p, q, w)  BY <1>3
  <2> HIDE DEF p
  <2>3. NearlyFits(p)  BY <1>1, <2>1, SameClockFits
  <2> QED  BY <2>1, <2>2, <2>3, TickFits
<1> QED  BY <1>2, <1>3 DEF Ticked

(* The PPU at power-up.                                                      *)
THEOREM InitFits == Init => CInv
<1> SUFFICES ASSUME Init PROVE CInv  OBVIOUS
<1>1. /\ 0 \in Ly /\ 0 \in Lycs /\ 0 \in 0 .. LineDots - 1 /\ 0 \in 0 .. WinSize - 1
      /\ 0 \in Scrolls
      /\ 0 \in Pens /\ 2 \in 0 .. 3
  BY Timing, PpuAssumption DEF Ly
<1>2. ppu \in PpuState  BY <1>1 DEF Init, PpuState
<1>3. Fresh(ppu) /\ ppu.on /\ ppu.ly = 0 /\ ppu.mode = 2 /\ ppu.winLine = 0
  BY DEF Init, Fresh
<1> QED
  BY <1>2, <1>3 DEF Init, CInv, Fits, NearlyFits, Mode3Fits, LyIsOfLastDot, FreshFits

(* Every M-cycle keeps the invariant, with whatever write it ends.           *)
THEOREM StepFits == CInv /\ [Next]_vars => CInv'
<1> SUFFICES ASSUME CInv, [Next]_vars PROVE CInv'  OBVIOUS
<1>1. ASSUME Next PROVE CInv'
  <2>1. PICK q \in Pens, w \in Windows : \E t : Ticked(q, w, t) /\ Write(t) /\ Courtesy
    BY <1>1, CycleIs
  <2>2. PICK t : Ticked(q, w, t) /\ Write(t) /\ Courtesy  BY <2>1
  <2>3. Fits(t) /\ (~t.on => Dark(t))  BY <2>2, TickedFits
  <2>4. Fits(ppu')  BY <2>2, <2>3, WriteFits
  <2>5. rude' \in BOOLEAN  BY <2>2 DEF Courtesy
  <2> QED  BY <2>4, <2>5 DEF CInv
<1>2. CASE UNCHANGED vars
  BY <1>2 DEF vars, CInv, Fits, NearlyFits, Mode3Fits, LyIsOfLastDot, FreshFits, Fresh,
              LastCol
<1> QED  BY <1>1, <1>2
-----------------------------------------------------------------------------
(* LY and the mode follow the dot clock whatever the program does to LCDC,   *)
(* SCX, the STAT sources and the speed.                                      *)
THEOREM ModesFollowTheDots == Spec => []PpuInv
<1>1. CInv => PpuInv  BY FitsIsPpuInv
<1> QED  BY <1>1, InitFits, StepFits, PTL DEF Spec

(* While mode 3 draws, the field of STAT still reads mode 2 or reads mode 3: *)
(* its tail is longer than any fine scroll.                                  *)
LEMMA ReportedWhileDrawing ==
  ASSUME CInv, ppu.mode = 3
  PROVE  /\ ppu.col >= Mode2End + StatDelay => Reported(ppu) = 3
         /\ ~(ppu.onFrame /\ ppu.ly = 0) => Reported(ppu) \in {2, 3}
<1>p. NearlyFits(ppu) /\ Mode3Fits(ppu) /\ ppu \in PpuState  BY DEF CInv, Fits, NearlyFits
<1>1. ppu.on /\ ~Fresh(ppu)  BY <1>p DEF NearlyFits, LyIsOfLastDot, FreshFits
<1>2. PICK c \in Nat : ppu.col = c /\ c < LineDots  BY <1>p, Numbers
<1>3. PICK l \in Nat : ppu.ly = l  BY <1>p, Numbers
<1>4. PICK x \in Nat : ppu.scx = x  BY <1>p, Numbers
<1>5. PICK n \in Nat : ppu.pen = n /\ Mode3End + MaxScx + n + StatDelay <= LineDots
  BY <1>p, Numbers
<1>6. l < VblankLine  BY <1>p, <1>1, <1>3, Timing DEF NearlyFits
<1>7. LastCol(ppu) < Mode3End + MaxScx + n  BY <1>p, <1>1, <1>5 DEF Mode3Fits
<1>8. LastCol(ppu) = IF c = 0 THEN LineDots - 1 ELSE c - 1  BY <1>2 DEF LastCol
<1>9. ~(LastCol(ppu) < Mode2End)  BY <1>p, <1>1, <1>3, <1>6 DEF NearlyFits
<1>10. c > Mode2End /\ c <= Mode3End + MaxScx + n
  BY <1>2, <1>5, <1>7, <1>8, <1>9, Timing
<1>11. ~(c < StatDelay)  BY <1>2, <1>10, Timing
<1>12. c < EndOfMode3(ppu) + StatDelay
  BY <1>2, <1>4, <1>5, <1>10, Timing DEF EndOfMode3
<1>13. ~(l >= VblankLine)  BY <1>6, Timing
<1>14. Reported(ppu) = IF c < Mode2End + StatDelay
                       THEN IF ppu.onFrame /\ ppu.ly = 0 THEN 0 ELSE 2 ELSE 3
  BY <1>1, <1>2, <1>3, <1>11, <1>12, <1>13 DEF Reported
<1>15. c >= Mode2End + StatDelay => ~(c < Mode2End + StatDelay)  BY <1>2, Timing
<1> QED  BY <1>2, <1>14, <1>15

(* VRAM stays hidden while mode 3 draws, from the dot at which the field     *)
(* says so.                                                                  *)
THEOREM VramIsHidden == Spec => []DrawingHidesVram
<1>1. CInv => DrawingHidesVram
  BY ReportedWhileDrawing DEF DrawingHidesVram, VramAccessible
<1> QED  BY <1>1, InitFits, StepFits, PTL DEF Spec

(* OAM stays hidden while mode 3 draws, from the second line after the LCD   *)
(* came on.                                                                  *)
THEOREM OamIsHidden == Spec => []DrawingHidesOam
<1>1. CInv => DrawingHidesOam
  <2> SUFFICES ASSUME CInv, ppu.mode = 3, ~(ppu.onFrame /\ ppu.ly = 0)
               PROVE  ~OamAccessible(ppu)
    BY DEF DrawingHidesOam
  <2>1. Reported(ppu) \in {2, 3}  BY ReportedWhileDrawing
  <2>2. ~(2 <= 1) /\ ~(3 <= 1)  OBVIOUS
  <2> QED  BY <2>1, <2>2 DEF OamAccessible
<1> QED  BY <1>1, InitFits, StepFits, PTL DEF Spec
-----------------------------------------------------------------------------
(* Within an M-cycle that begins with the STAT line low and the HBlank       *)
(* source enabled: whoever raised the line, or rendered a line, has made the *)
(* request.                                                                  *)
Asked(p) == /\ p \in PpuState /\ "hblank" \in p.stat
            /\ p.statLine \/ p.drawn => "stat" \in p.irq

(* A dot keeps the promise of a request, and makes it when it renders.       *)
LEMMA DotAsks ==
  ASSUME NEW p, Asked(p), NEW q \in Pens, NEW w \in Windows
  PROVE  Asked(Dot(q, w)[p])
<1> DEFINE d == Dot(q, w)[p]
<1> HIDE DEF d
<1>p. p \in PpuState  BY DEF Asked
<1>1. d \in PpuState /\ d.stat = p.stat  BY <1>p, DotEffect DEF d
<1>2. d.drawn <=> p.drawn \/ Rendered(p)  BY <1>p, DotEffect DEF d
<1>3. "stat" \in p.irq \/ (d.statLine /\ ~p.statLine) => "stat" \in d.irq
  BY <1>p, DotEffect DEF d
<1>4. "hblank" \in p.stat /\ ModeAt(p) = 0 => d.statLine  BY <1>p, DotEffect DEF d
<1>5. d.statLine => "stat" \in d.irq  BY <1>3 DEF Asked
<1>6. d.drawn => "stat" \in d.irq  BY <1>2, <1>3, <1>4, <1>5 DEF Asked, Rendered
<1> QED  BY <1>1, <1>5, <1>6 DEF Asked, d

(* So do the two or four dots of an M-cycle.                                 *)
LEMMA TickAsks ==
  ASSUME NEW p \in PpuState, ~p.statLine, "hblank" \in p.stat,
         NEW q \in Pens, NEW w \in Windows
  PROVE  Tick(p, q, w).drawn => "stat" \in Tick(p, q, w).irq
<1> DEFINE dot == Dot(q, w)
           s == Begun(p)
<1>1. /\ s \in PpuState /\ s.statLine = p.statLine /\ s.stat = p.stat /\ s.drawn = FALSE
      /\ s.irq = {}
  BY BegunEffect
<1>2. Asked(s)  BY <1>1 DEF Asked
<1> HIDE DEF s, dot
<1>3. CASE ~p.on
  <2>1. Tick(p, q, w) = Off(s)  BY <1>3, TickIs DEF s
  <2> QED  BY <1>1, <2>1, OffEffect
<1>4. CASE p.on
  <2>1. \A x : Asked(x) => Asked(dot[x])  BY DotAsks DEF dot
  <2>2. Asked(dot[dot[s]]) /\ Asked(dot[dot[dot[dot[s]]]])  BY <1>2, <2>1
  <2>3. \/ Tick(p, q, w) = dot[dot[s]]
        \/ Tick(p, q, w) = dot[dot[dot[dot[s]]]]
    BY <1>4, TickIs DEF dot, s
  <2>4. Asked(Tick(p, q, w))  BY <2>2, <2>3
  <2> QED  BY <2>4 DEF Asked
<1> QED  BY <1>3, <1>4

(* The HBlank request is made in the M-cycle that renders the line, for      *)
(* every length of mode 3 and at both speeds.                                *)
THEOREM HBlankRequestsAreOnTime == Spec => HBlankRequestIsOnTime
<1> DEFINE OnTime == ~ppu.statLine /\ "hblank" \in ppu.stat /\ ppu'.drawn
                       => "stat" \in ppu'.irq
<1>1. CInv /\ [Next]_vars => [OnTime]_vars
  <2> SUFFICES ASSUME CInv, Next, ~ppu.statLine, "hblank" \in ppu.stat, ppu'.drawn
               PROVE  "stat" \in ppu'.irq
    OBVIOUS
  <2>1. PICK q \in Pens, w \in Windows : \E t : Ticked(q, w, t) /\ Write(t) /\ Courtesy
    BY CycleIs
  <2>2. PICK t : Ticked(q, w, t) /\ Write(t) /\ Courtesy  BY <2>1
  <2>p. ppu \in PpuState  BY DEF CInv, Fits, NearlyFits
  <2>t. t \in PpuState  BY <2>2, TickedFits DEF Fits, NearlyFits
  <2>3. ppu'.drawn = t.drawn /\ ("stat" \in t.irq => "stat" \in ppu'.irq)
    BY <2>2, <2>t, WriteEffect
  <2>4. t.drawn => "stat" \in t.irq
    <3>1. CASE t = Tick(ppu, q, w)  BY <2>p, <3>1, TickAsks
    <3>2. CASE t = Tick([ppu EXCEPT !.fast = ~@], q, w)
      <4> DEFINE p == [ppu EXCEPT !.fast = ~ppu.fast]
      <4>1. p \in PpuState /\ p.statLine = ppu.statLine /\ p.stat = ppu.stat
        BY <2>p DEF PpuState
      <4>2. t = Tick(p, q, w)  BY <3>2
      <4> HIDE DEF p
      <4> QED  BY <4>1, <4>2, TickAsks
    <3> QED  BY <2>2, <3>1, <3>2 DEF Ticked
  <2> QED  BY <2>3, <2>4
<1> QED  BY <1>1, InitFits, StepFits, PTL DEF Spec, HBlankRequestIsOnTime
-----------------------------------------------------------------------------
(* The refinement of FrameAbs.  Besides PpuInv it takes that a program which *)
(* has not spoilt the frame has let mode 0 begin for good, and that no more  *)
(* lines showed the window than were rendered: win_line does not wrap.       *)
WindowFits(p) == p.mode # 1 => p.winLine <= Done(p)

InFrame(p) == Fits(p) /\ Settled(p) /\ p.on /\ WindowFits(p)

FInv == CInv /\ (~rude => Settled(ppu) /\ WindowFits(ppu))

\* What the dots of an M-cycle do, seen from FrameAbs: from s to x nothing, a line
\* or the vertical blank.
Nothing(s, x) == /\ x.drawn <=> s.drawn
                 /\ "vblank" \in x.irq <=> "vblank" \in s.irq
                 /\ Done(x) = Done(s) /\ Win(x) = Win(s)
Drew(s, x) == /\ x.drawn
              /\ "vblank" \in x.irq <=> "vblank" \in s.irq
              /\ Done(s) < VblankLine /\ Done(x) = Done(s) + 1
              /\ Win(x) = Win(s) \/ Win(x) = Win(s) + 1
Blanked(s, x) == /\ x.drawn <=> s.drawn
                 /\ "vblank" \in x.irq
                 /\ Done(s) = VblankLine /\ Done(x) = 0 /\ Win(x) = 0

\* k dots after a line or a frame ended: neither ends on the next dot.
Quiet(x, k) == x.mode \in {0, 1} /\ LastCol(x) <= LineDots - StatDelay + k

(* A dot of a frame, case by case: where the last dot was and where this one *)
(* is decide what happens.                                                   *)
LEMMA DotInFrame ==
  ASSUME NEW p, InFrame(p), NEW q \in Pens, NEW w \in Windows, NEW d, d = Dot(q, w)[p]
  PROVE  /\ InFrame(d) /\ LastCol(d) = p.col
         /\ Nothing(p, d) \/ ((Drew(p, d) \/ Blanked(p, d)) /\ Quiet(d, 0))
<1>p. /\ p \in PpuState /\ NearlyFits(p) /\ Mode3Fits(p) /\ Settled(p) /\ p.on
      /\ FreshFits(p) /\ LyIsOfLastDot(p)
  BY DEF InFrame, Fits, NearlyFits
<1>f. Fits(d) /\ Settled(d) /\ d.on /\ ~Fresh(d) /\ LastCol(d) = p.col
  BY <1>p, DotFits DEF Fits
<1>1. PICK r \in Nat : p.row = r /\ r < Lines  BY <1>p, Numbers
<1>2. PICK c \in Nat : p.col = c /\ c < LineDots  BY <1>p, Numbers
<1>3. PICK x \in Nat : p.scx = x /\ x <= MaxScx  BY <1>p, Numbers
<1>4. PICK n \in Nat : p.pen = n /\ Mode3End + MaxScx + n + StatDelay <= LineDots
  BY <1>p, Numbers
<1>5. PICK l \in Nat : p.ly = l /\ l < Lines  BY <1>p, Numbers
<1>6. PICK v \in Nat : p.winLine = v /\ v < WinSize  BY <1>p, Numbers
<1>m. ModeAt(p) \in 0 .. 3 /\ p.mode \in {0, 1, 2, 3}  BY <1>p, ModeOfDot, Numbers
<1>7. /\ d.mode = 1 <=> r >= VblankLine
      /\ d.mode = 2 <=> r < VblankLine /\ c < Mode2End
      /\ d.mode = 3 <=> r < VblankLine /\ c >= Mode2End /\ c < Mode3End + x + n
      /\ d.mode = 0 <=> r < VblankLine /\ c >= Mode3End + x + n
      /\ d.mode = ModeAt(p)
  <2>1. d.mode = ModeAt(p)  BY <1>p, DotEffect
  <2> QED  BY <1>p, <1>1, <1>2, <1>3, <1>4, <2>1, ModeOfDot
<1>8. d.ly = r  BY <1>p, <1>1, DotEffect
<1>9. d.drawn <=> p.drawn \/ (d.mode = 0 /\ p.mode = 3)
  <2>1. d.drawn <=> p.drawn \/ Rendered(p)  BY <1>p, DotEffect
  <2>2. Rendered(p) <=> d.mode = 0 /\ p.mode = 3  BY <1>1, <1>7 DEF Rendered
  <2> QED  BY <2>1, <2>2
<1>10. d.winLine = IF r = 0 /\ c = 0 THEN 0
                   ELSE IF (d.mode = 0 /\ p.mode = 3) /\ w THEN (v + 1) % WinSize ELSE v
  <2>1. d.winLine = IF p.row = 0 /\ p.col = 0 THEN 0
                    ELSE IF Rendered(p) /\ w THEN (p.winLine + 1) % WinSize
                    ELSE p.winLine
    BY <1>p, DotEffect
  <2>2. Rendered(p) <=> d.mode = 0 /\ p.mode = 3  BY <1>1, <1>7 DEF Rendered
  <2> QED  BY <1>1, <1>2, <1>6, <2>1, <2>2
<1>11. "vblank" \in d.irq <=> "vblank" \in p.irq \/ (d.mode = 1 /\ p.mode # 1)
  BY <1>p, <1>7, DotEffect
<1>12. Done(d) = IF d.mode = 1 THEN 0 ELSE IF d.mode = 0 THEN r + 1 ELSE r
  BY <1>f, <1>8 DEF Done
<1>13. Win(d) = (IF d.mode = 1 THEN 0 ELSE d.winLine) /\ Win(p) = IF p.mode = 1 THEN 0 ELSE v
  BY <1>6 DEF Win
<1>14. p.mode # 1 => v <= Done(p)  BY <1>6 DEF InFrame, WindowFits
<1>15. (d.mode # 1 => d.winLine <= Done(d)) => InFrame(d)
  BY <1>f DEF InFrame, WindowFits
<1> SUFFICES /\ d.mode # 1 => d.winLine <= Done(d)
             /\ Nothing(p, d) \/ ((Drew(p, d) \/ Blanked(p, d)) /\ Quiet(d, 0))
  BY <1>f, <1>15
<1>a. CASE Fresh(p)
  <2>1. /\ r = 0 /\ c = 0 /\ p.mode \in {0, 2} /\ v = 0
    BY <1>p, <1>a, <1>1, <1>2, <1>6 DEF Fresh, FreshFits
  <2>2. d.mode = 2  BY <1>7, <2>1, Timing
  <2>3. Done(p) = 0  BY <1>a DEF Done
  <2> QED  BY <2>1, <2>2, <2>3, <1>9, <1>10, <1>11, <1>12, <1>13 DEF Nothing
<1>b. CASE ~Fresh(p)
  <2>l. LastCol(p) = IF c = 0 THEN LineDots - 1 ELSE c - 1  BY <1>2 DEF LastCol
  <2>r. r = IF c # 0 THEN l ELSE IF l = Lines - 1 THEN 0 ELSE l + 1
    BY <1>p, <1>b, <1>1, <1>2, <1>5 DEF LyIsOfLastDot
  <2>m. /\ l >= VblankLine <=> p.mode = 1
        /\ p.mode = 2 <=> l < VblankLine /\ LastCol(p) < Mode2End
        /\ p.mode = 3 => LastCol(p) < Mode3End + MaxScx + n
        /\ p.mode = 0 => LastCol(p) >= Mode3End + x + n
    BY <1>p, <1>b, <1>3, <1>4, <1>5 DEF NearlyFits, Mode3Fits, Settled
  <2>d. Done(p) = IF p.mode = 1 THEN 0 ELSE IF p.mode = 0 THEN l + 1 ELSE l
    BY <1>p, <1>b, <1>5 DEF Done
  <2>1. CASE p.mode = 1
    <3>1. l >= VblankLine  BY <2>1, <2>m
    <3>2. d.mode = 1 \/ (d.mode = 2 /\ r = 0 /\ c = 0)
      BY <1>2, <1>5, <1>7, <2>r, <3>1, Timing
    <3> QED  BY <2>1, <2>d, <3>2, <1>9, <1>10, <1>11, <1>12, <1>13 DEF Nothing
  <2>2. CASE p.mode = 2
    <3>1. l < VblankLine /\ LastCol(p) < Mode2End  BY <2>2, <2>m
    <3>2. c # 0 /\ c <= Mode2End /\ r = l  BY <1>2, <1>4, <2>l, <2>r, <3>1, Timing
    <3>3. d.mode = 2 \/ d.mode = 3  BY <1>2, <1>3, <1>4, <1>7, <3>1, <3>2, Timing
    <3> QED  BY <2>2, <2>d, <3>2, <3>3, <1>9, <1>10, <1>11, <1>12, <1>13, <1>14
             DEF Nothing
  <2>3. CASE p.mode = 3
    <3>1. LastCol(p) < Mode3End + MaxScx + n /\ l < VblankLine /\ LastCol(p) >= Mode2End
      <4>1. LastCol(p) \in Int  BY <1>2, <2>l, Timing
      <4> QED  BY <2>3, <2>m, <1>5, <4>1, Timing
    <3>2. /\ c # 0 /\ c > Mode2End /\ c <= Mode3End + MaxScx + n /\ r = l
      BY <1>2, <1>4, <2>l, <2>r, <3>1, Timing
    <3>3. d.mode = 3 \/ d.mode = 0  BY <1>2, <1>3, <1>4, <1>7, <3>1, <3>2, Timing
    <3>4. Done(p) = l /\ v <= l  BY <2>3, <2>d, <1>14
    <3>5. CASE d.mode = 3
      BY <2>3, <3>2, <3>4, <3>5, <1>9, <1>10, <1>11, <1>12, <1>13 DEF Nothing
    <3>6. CASE d.mode = 0
      <4>1. (v + 1) % WinSize = v + 1
        <5>1. v + 1 < WinSize /\ WinSize \in Nat /\ WinSize > 0
          BY <1>5, <3>1, <3>4, Timing
        <5> QED  BY <5>1
      <4>2. d.winLine = v \/ d.winLine = v + 1  BY <1>10, <3>2, <4>1
      <4>3. Done(d) = l + 1 /\ d.winLine <= l + 1  BY <1>5, <1>12, <3>2, <3>4, <3>6, <4>2
      <4>4. Drew(p, d)
        BY <2>3, <3>1, <3>4, <3>6, <4>2, <4>3, <1>9, <1>11, <1>13 DEF Drew
      <4>5. LastCol(d) <= LineDots - StatDelay + 0
        BY <1>f, <1>2, <1>4, <3>2, Timing
      <4> QED  BY <3>6, <4>3, <4>4, <4>5 DEF Quiet
    <3> QED  BY <3>3, <3>5, <3>6
  <2>4. CASE p.mode = 0
    <3>1. LastCol(p) >= Mode3End + x + n /\ l < VblankLine  BY <2>4, <2>m, <1>5, Timing
    <3>2. Done(p) = l + 1 /\ v <= l + 1  BY <2>4, <2>d, <1>14
    <3>3. CASE c # 0
      <4>1. r = l /\ d.mode = 0  BY <1>2, <1>3, <1>4, <1>7, <2>l, <2>r, <3>1, <3>3, Timing
      <4> QED  BY <2>4, <3>2, <3>3, <4>1, <1>9, <1>10, <1>11, <1>12, <1>13 DEF Nothing
    <3>4. CASE c = 0
      <4>1. r = l + 1 /\ r # 0 /\ r <= VblankLine
        BY <1>5, <2>r, <3>1, <3>4, Timing
      <4>2. CASE r < VblankLine
        <5>1. d.mode = 2  BY <1>7, <3>4, <4>2, Timing
        <5> QED  BY <2>4, <3>2, <4>1, <5>1, <1>9, <1>10, <1>11, <1>12, <1>13 DEF Nothing
      <4>3. CASE r = VblankLine
        <5>1. d.mode = 1  BY <1>7, <4>3, Timing
        <5>2. Blanked(p, d)
          BY <2>4, <3>2, <4>1, <4>3, <5>1, <1>9, <1>11, <1>12, <1>13 DEF Blanked
        <5>3. LastCol(d) <= LineDots - StatDelay + 0  BY <1>f, <1>2, <3>4, Timing
        <5> QED  BY <5>1, <5>2, <5>3 DEF Quiet
      <4> QED  BY <1>1, <4>1, <4>2, <4>3, Timing
    <3> QED  BY <3>3, <3>4
  <2> QED  BY <1>m, <2>1, <2>2, <2>3, <2>4
<1> QED  BY <1>a, <1>b

(* Shortly after a line or a frame ended the next dot is on the same line    *)
(* and in the same mode: STAT_MODE_DELAY dots of mode 0 are left at least.   *)
LEMMA QuietDot ==
  ASSUME NEW p, InFrame(p), NEW k \in 0 .. 2, Quiet(p, k),
         NEW q \in Pens, NEW w \in Windows, NEW d, d = Dot(q, w)[p]
  PROVE  InFrame(d) /\ Nothing(p, d) /\ Quiet(d, k + 1)
<1>p. p \in PpuState /\ NearlyFits(p) /\ p.on /\ Settled(p) /\ FreshFits(p) /\ LyIsOfLastDot(p)
  BY DEF InFrame, Fits, NearlyFits
<1>1. PICK r \in Nat : p.row = r /\ r < Lines  BY <1>p, Numbers
<1>2. PICK c \in Nat : p.col = c /\ c < LineDots  BY <1>p, Numbers
<1>3. PICK x \in Nat : p.scx = x /\ x <= MaxScx  BY <1>p, Numbers
<1>4. PICK n \in Nat : p.pen = n /\ Mode3End + MaxScx + n + StatDelay <= LineDots
  BY <1>p, Numbers
<1>5. PICK l \in Nat : p.ly = l /\ l < Lines  BY <1>p, Numbers
<1>6. LastCol(p) = IF c = 0 THEN LineDots - 1 ELSE c - 1  BY <1>2 DEF LastCol
<1>7. c # 0 /\ c <= LineDots - StatDelay + k + 1
  <2>1. LastCol(p) <= LineDots - StatDelay + k  BY DEF Quiet
  <2>2. LineDots - StatDelay + k <= LineDots - 2  BY Timing
  <2> QED  BY <1>2, <1>6, <2>1, <2>2, Timing
<1>8. ~Fresh(p) /\ LastCol(p) = c - 1 /\ r = l
  BY <1>p, <1>1, <1>2, <1>5, <1>6, <1>7 DEF Fresh, LyIsOfLastDot
<1>9. ModeAt(p) = p.mode
  <2>1. CASE p.mode = 1
    <3>1. r >= VblankLine  BY <1>p, <1>5, <1>8, <2>1 DEF NearlyFits
    <3> QED  BY <1>p, <1>1, <2>1, <3>1, ModeOfDot
  <2>2. CASE p.mode = 0
    <3>1. ~(l >= VblankLine)  BY <1>p, <1>5, <1>8, <2>2 DEF NearlyFits
    <3>2. c - 1 >= Mode3End + x + n  BY <1>p, <1>3, <1>4, <1>8, <2>2 DEF Settled
    <3>3. r < VblankLine /\ c >= Mode3End + x + n
      BY <1>1, <1>2, <1>5, <1>8, <3>1, <3>2, Timing
    <3> QED  BY <1>p, <1>1, <1>2, <1>3, <1>4, <2>2, <3>3, ModeOfDot
  <2> QED  BY <2>1, <2>2 DEF Quiet
<1>10. /\ InFrame(d) /\ LastCol(d) = c
       /\ Nothing(p, d) \/ Drew(p, d) \/ Blanked(p, d)
  BY <1>2, DotInFrame
<1>11. d.mode = p.mode /\ d.ly = r /\ d.on  BY <1>p, <1>1, <1>9, DotEffect
<1>12. ~Fresh(d)  BY <1>p, DotFits
<1>13. Done(d) = Done(p)
  BY <1>5, <1>8, <1>11, <1>12, <1>p DEF Done
<1>14. ~Drew(p, d)
  <2>1. Done(p) \in Int  BY <1>p, <1>5, <1>8 DEF Done
  <2> QED  BY <1>13, <2>1 DEF Drew
<1>15. ~Blanked(p, d)
  <2>1. VblankLine # 0  BY Timing
  <2> QED  BY <1>13, <2>1 DEF Blanked
<1>16. LastCol(d) <= LineDots - StatDelay + (k + 1)  BY <1>2, <1>7, <1>10, Timing
<1> QED  BY <1>10, <1>11, <1>14, <1>15, <1>16 DEF Quiet

(* At most one of a line and the vertical blank in the dots of an M-cycle.   *)
Stage(s, x, k) ==
  InFrame(x) /\ (Nothing(s, x) \/ ((Drew(s, x) \/ Blanked(s, x)) /\ Quiet(x, k)))

(* One more dot of the M-cycle: after an event the rest of it is quiet.      *)
LEMMA DotStages ==
  ASSUME NEW s, NEW x, NEW k \in 0 .. 2, Stage(s, x, k),
         NEW q \in Pens, NEW w \in Windows
  PROVE  Stage(s, Dot(q, w)[x], k + 1)
<1> DEFINE d == Dot(q, w)[x]
<1> HIDE DEF d
<1>1. CASE Nothing(s, x)
  <2>1. /\ InFrame(d)
        /\ Nothing(x, d) \/ ((Drew(x, d) \/ Blanked(x, d)) /\ Quiet(d, 0))
    BY DotInFrame DEF d, Stage
  <2>2. Nothing(x, d) => Nothing(s, d)  BY <1>1 DEF Nothing
  <2>3. Drew(x, d) => Drew(s, d)  BY <1>1 DEF Nothing, Drew
  <2>4. Blanked(x, d) => Blanked(s, d)  BY <1>1 DEF Nothing, Blanked
  <2>5. Quiet(d, 0) => Quiet(d, k + 1)
    <3>1. d.col \in Nat  BY <2>1, Numbers DEF InFrame, Fits, NearlyFits
    <3>2. PICK c \in Nat : d.col = c  BY <3>1
    <3>3. LastCol(d) \in Int  BY <3>2, Timing DEF LastCol
    <3>4. \A e \in Int : e <= LineDots - StatDelay + 0 => e <= LineDots - StatDelay + (k + 1)
      BY Timing
    <3> QED  BY <3>3, <3>4 DEF Quiet
  <2> QED  BY <2>1, <2>2, <2>3, <2>4, <2>5 DEF Stage, d
<1>2. CASE (Drew(s, x) \/ Blanked(s, x)) /\ Quiet(x, k)
  <2>1. InFrame(d) /\ Nothing(x, d) /\ Quiet(d, k + 1)
    BY <1>2, QuietDot DEF d, Stage
  <2>2. Drew(s, x) => Drew(s, d)  BY <2>1 DEF Nothing, Drew
  <2>3. Blanked(s, x) => Blanked(s, d)  BY <2>1 DEF Nothing, Blanked
  <2> QED  BY <1>2, <2>1, <2>2, <2>3 DEF Stage, d
<1> QED  BY <1>1, <1>2 DEF Stage

(* The tick of an M-cycle, seen from FrameAbs.                               *)
LEMMA TickInFrame ==
  ASSUME NEW p, InFrame(p), NEW q \in Pens, NEW w \in Windows, NEW t, t = Tick(p, q, w)
  PROVE  /\ InFrame(t)
         /\ \/ /\ ~t.drawn /\ "vblank" \notin t.irq
               /\ Done(t) = Done(p) /\ Win(t) = Win(p)
            \/ /\ t.drawn
               /\ Done(p) < VblankLine /\ Done(t) = Done(p) + 1
               /\ Win(t) = Win(p) \/ Win(t) = Win(p) + 1
            \/ /\ ~t.drawn /\ "vblank" \in t.irq
               /\ Done(p) = VblankLine /\ Done(t) = 0 /\ Win(t) = 0
<1> DEFINE dot == Dot(q, w)
           s == Begun(p)
<1>p. p \in PpuState /\ NearlyFits(p) /\ p.on  BY DEF InFrame, Fits, NearlyFits
<1>1. /\ s \in PpuState /\ SameClock(p, s) /\ s.scx = p.scx /\ s.drawn = FALSE
      /\ s.irq = {}
  BY <1>p, BegunEffect
<1> HIDE DEF s, dot
<1>2. /\ NearlyFits(s) /\ (Mode3Fits(p) => Mode3Fits(s)) /\ Done(s) = Done(p)
      /\ Win(s) = Win(p) /\ (Settled(p) => Settled(s))
  BY <1>p, <1>1, SameClockFits
<1>3. s.on /\ s.mode = p.mode /\ s.winLine = p.winLine  BY <1>p, <1>1 DEF SameClock
<1>4. InFrame(s)  BY <1>2, <1>3 DEF InFrame, Fits, WindowFits
<1>5. /\ InFrame(dot[s])
      /\ Nothing(s, dot[s]) \/ ((Drew(s, dot[s]) \/ Blanked(s, dot[s])) /\ Quiet(dot[s], 0))
  BY <1>4, DotInFrame DEF dot
<1>6. Stage(s, dot[s], 0)  BY <1>5 DEF Stage
<1>7. \A x : \A k \in 0 .. 2 : Stage(s, x, k) => Stage(s, dot[x], k + 1)
  BY DotStages DEF dot
<1>8. Stage(s, dot[dot[s]], 1)
  <2>1. 0 \in 0 .. 2 /\ 0 + 1 = 1  OBVIOUS
  <2> QED  BY <1>6, <1>7, <2>1
<1>9. Stage(s, dot[dot[dot[s]]], 2)
  <2>1. 1 \in 0 .. 2 /\ 1 + 1 = 2  OBVIOUS
  <2> QED  BY <1>7, <1>8, <2>1
<1>10. Stage(s, dot[dot[dot[dot[s]]]], 3)
  <2>1. 2 \in 0 .. 2 /\ 2 + 1 = 3  OBVIOUS
  <2> QED  BY <1>7, <1>9, <2>1
<1>11. t = dot[dot[s]] \/ t = dot[dot[dot[dot[s]]]]
  BY <1>p, TickIs DEF dot, s
<1>12. InFrame(t) /\ (Nothing(s, t) \/ Drew(s, t) \/ Blanked(s, t))
  BY <1>8, <1>10, <1>11 DEF Stage
<1> QED  BY <1>1, <1>2, <1>12 DEF Nothing, Drew, Blanked

(* The tick of an M-cycle in a frame that is not spoilt, at either speed.    *)
LEMMA TickedInFrame ==
  ASSUME InFrame(ppu), NEW q \in Pens, NEW w \in Windows, NEW t, Ticked(q, w, t)
  PROVE  /\ InFrame(t)
         /\ \/ /\ ~t.drawn /\ "vblank" \notin t.irq
               /\ Done(t) = Done(ppu) /\ Win(t) = Win(ppu)
            \/ /\ t.drawn
               /\ Done(ppu) < VblankLine /\ Done(t) = Done(ppu) + 1
               /\ Win(t) = Win(ppu) \/ Win(t) = Win(ppu) + 1
            \/ /\ ~t.drawn /\ "vblank" \in t.irq
               /\ Done(ppu) = VblankLine /\ Done(t) = 0 /\ Win(t) = 0
<1>1. CASE t = Tick(ppu, q, w)  BY <1>1, TickInFrame
<1>2. CASE t = Tick([ppu EXCEPT !.fast = ~@], q, w)
  <2> DEFINE p == [ppu EXCEPT !.fast = ~ppu.fast]
  <2>1. ppu \in PpuState /\ NearlyFits(ppu)  BY DEF InFrame, Fits, NearlyFits
  <2>2. p \in PpuState /\ SameClock(ppu, p) /\ p.scx = ppu.scx
    BY <2>1 DEF PpuState, SameClock
  <2>3. t = Tick(p, q, w)  BY <1>2
  <2> HIDE DEF p
  <2>4. /\ NearlyFits(p) /\ (Mode3Fits(ppu) => Mode3Fits(p)) /\ Done(p) = Done(ppu)
        /\ Win(p) = Win(ppu) /\ (Settled(ppu) => Settled(p))
    BY <2>1, <2>2, SameClockFits
  <2>5. InFrame(p)  BY <2>2, <2>4 DEF InFrame, Fits, WindowFits, SameClock
  <2>6. /\ InFrame(t)
        /\ \/ /\ ~t.drawn /\ "vblank" \notin t.irq
              /\ Done(t) = Done(p) /\ Win(t) = Win(p)
           \/ /\ t.drawn
              /\ Done(p) < VblankLine /\ Done(t) = Done(p) + 1
              /\ Win(t) = Win(p) \/ Win(t) = Win(p) + 1
           \/ /\ ~t.drawn /\ "vblank" \in t.irq
              /\ Done(p) = VblankLine /\ Done(t) = 0 /\ Win(t) = 0
    BY <2>3, <2>5, TickInFrame
  <2> QED  BY <2>4, <2>6
<1> QED  BY <1>1, <1>2 DEF Ticked

(* A frame begins at power-up, with no window line.                          *)
THEOREM InitInFrame == Init => FInv
<1> SUFFICES ASSUME Init PROVE FInv  OBVIOUS
<1>1. CInv  BY InitFits
<1>2. Settled(ppu)  BY DEF Init, Settled
<1>3. WindowFits(ppu)  BY DEF Init, WindowFits, Done, Fresh
<1> QED  BY <1>1, <1>2, <1>3 DEF FInv

(* Every M-cycle keeps the invariant of a frame, unless it makes it rude.    *)
THEOREM StepInFrame == FInv /\ [Next]_vars => FInv'
<1> SUFFICES ASSUME FInv, [Next]_vars PROVE FInv'  OBVIOUS
<1>c. CInv /\ CInv'  BY StepFits DEF FInv
<1>1. ASSUME Next, ~rude' PROVE Settled(ppu') /\ WindowFits(ppu')
  <2>1. PICK q \in Pens, w \in Windows : \E t : Ticked(q, w, t) /\ Write(t) /\ Courtesy
    BY <1>1, CycleIs
  <2>2. PICK t : Ticked(q, w, t) /\ Write(t) /\ Courtesy  BY <2>1
  <2>3. /\ Fits(t) /\ Settled(t) /\ t.on = ppu.on /\ t.scx = ppu.scx
        /\ ~t.on => Dark(t)
    BY <1>c, <2>2, TickedFits
  <2>t. t \in PpuState /\ NearlyFits(t)  BY <2>3 DEF Fits, NearlyFits
  <2> DEFINE u == ppu'
  <2>4. /\ u \in PpuState
        /\ ~Untouched(t, u) => Fresh(u) /\ u.mode = 0 /\ Done(u) = 0 /\ Win(u) = 0
    BY <2>2, <2>3, <2>t, WriteFits, WriteEffect
  <2>5. ~u.on \/ u.mode = 1 \/ (~rude /\ ~(u.mode = 0 /\ u.scx > ppu.scx))
    BY <1>1, <2>2 DEF Courtesy
  <2> HIDE DEF u
  <2>6. CASE ~Untouched(t, u)
    BY <2>4, <2>6 DEF Settled, WindowFits, Win, u
  <2>7. CASE Untouched(t, u)
    <3>1. /\ Fresh(u) <=> Fresh(t)
          /\ LastCol(u) = LastCol(t) /\ Done(u) = Done(t) /\ Win(u) = Win(t)
      BY <2>t, <2>4, <2>7, SameClockFits DEF Untouched
    <3>2. /\ u.on = t.on /\ u.mode = t.mode /\ u.winLine = t.winLine /\ u.pen = t.pen
          /\ u.col = t.col
      BY <2>7 DEF Untouched, SameClock
    <3>3. CASE ~u.on
      <4>1. Dark(t)  BY <2>3, <3>2, <3>3
      <4>2. WindowFits(u)  BY <3>1, <3>2, <3>3, <4>1 DEF WindowFits, Dark, Done
      <4> QED  BY <3>3, <4>2 DEF Settled, u
    <3>4. CASE u.on /\ u.mode = 1  BY <3>4 DEF Settled, WindowFits, u
    <3>5. CASE u.on /\ u.mode # 1
      <4>1. ~rude /\ ~(u.mode = 0 /\ u.scx > ppu.scx)  BY <2>5, <3>5
      <4>2. InFrame(ppu)
        BY <2>3, <3>2, <3>5, <4>1 DEF FInv, CInv, InFrame
      <4>3. WindowFits(t)  BY <2>2, <4>2, TickedInFrame DEF InFrame
      <4>4. WindowFits(u)  BY <3>1, <3>2, <4>3 DEF WindowFits
      <4>5. Settled(u)
        <5> SUFFICES ASSUME ~Fresh(u), u.mode = 0
                     PROVE  LastCol(u) >= Mode3End + u.scx + u.pen
          BY DEF Settled
        <5>1. PICK x \in Nat : t.scx = x  BY <2>t, Numbers
        <5>2. PICK y \in Nat : u.scx = y  BY <2>4, Numbers
        <5>3. PICK n \in Nat : t.pen = n  BY <2>t, Numbers
        <5>4. y <= x  BY <2>3, <4>1, <5>1, <5>2
        <5>5. LastCol(t) >= Mode3End + x + n  BY <2>3, <3>1, <3>2, <3>5, <5>1, <5>3 DEF Settled
        <5>6. PICK c \in Nat : t.col = c  BY <2>t, Numbers
        <5>7. LastCol(t) \in Int  BY <5>6, Timing DEF LastCol
        <5>8. LastCol(t) >= Mode3End + y + n  BY <5>4, <5>5, <5>7, Timing
        <5> QED  BY <3>1, <3>2, <5>2, <5>3, <5>8
      <4> QED  BY <4>4, <4>5 DEF u
    <3>6. u.on \in BOOLEAN  BY <2>4, Numbers
    <3> QED  BY <3>3, <3>4, <3>5, <3>6
  <2> QED  BY <2>6, <2>7
<1>2. CASE UNCHANGED vars
  <2>1. (~rude' => Settled(ppu') /\ WindowFits(ppu'))
    BY <1>2 DEF vars, FInv
  <2> QED  BY <1>c, <2>1 DEF FInv
<1> QED  BY <1>c, <1>1, <1>2 DEF FInv

(* A frame, whatever the program does with the LCD, the speed, LYC and STAT: *)
(* every line is rendered once and in order, at most one in an M-cycle, then *)
(* the vertical blank is requested - except in a frame in which the program  *)
(* raises SCX in mode 0.                                                     *)
THEOREM PpuImplementsFrameAbs == Spec => ImplementsFrameAbs
<1>1. Init => Frames!Init
  BY DEF Init, Frames!Init, Done, Win, Fresh
<1>2. FInv /\ [Next]_vars => [rude' \/ rude \/ [Frames!Next]_(Frames!vars)]_vars
  <2> SUFFICES ASSUME FInv, Next, ~rude, ~rude'
               PROVE  Frames!Next
    OBVIOUS
  <2>c. CInv /\ Settled(ppu) /\ WindowFits(ppu)  BY DEF FInv
  <2>1. PICK q \in Pens, w \in Windows : \E t : Ticked(q, w, t) /\ Write(t) /\ Courtesy
    BY CycleIs
  <2>2. PICK t : Ticked(q, w, t) /\ Write(t) /\ Courtesy  BY <2>1
  <2>3. /\ Fits(t) /\ t.on = ppu.on /\ (~t.on => Dark(t))
        /\ ~ppu.on => t.drawn = FALSE /\ t.irq = {}
    BY <2>c, <2>2, TickedFits
  <2>t. t \in PpuState /\ NearlyFits(t) /\ ppu.on \in BOOLEAN
    BY <2>3, <2>c, Numbers DEF Fits, NearlyFits, CInv
  <2> DEFINE u == ppu'
  <2>4. /\ u \in PpuState /\ u.drawn = t.drawn
        /\ "vblank" \in u.irq <=> "vblank" \in t.irq
        /\ Untouched(t, u) \/ SwitchedOff(t, u) \/ SwitchedOn(t, u)
    BY <2>2, <2>t, WriteEffect
  <2>5. ~Untouched(t, u) => Done(u) = 0 /\ Win(u) = 0
    BY <2>2, <2>3, WriteFits
  <2>6. Untouched(t, u) => u.on = t.on /\ Done(u) = Done(t) /\ Win(u) = Win(t)
    BY <2>t, <2>4, SameClockFits DEF Untouched, SameClock
  <2>7. CASE ppu.on
    <3>1. InFrame(ppu)  BY <2>c, <2>7 DEF InFrame, CInv
    <3>2. \/ /\ ~t.drawn /\ "vblank" \notin t.irq
             /\ Done(t) = Done(ppu) /\ Win(t) = Win(ppu)
          \/ /\ t.drawn
             /\ Done(ppu) < VblankLine /\ Done(t) = Done(ppu) + 1
             /\ Win(t) = Win(ppu) \/ Win(t) = Win(ppu) + 1
          \/ /\ ~t.drawn /\ "vblank" \in t.irq
             /\ Done(ppu) = VblankLine /\ Done(t) = 0 /\ Win(t) = 0
      BY <2>2, <3>1, TickedInFrame
    <3>3. \/ u.on = TRUE /\ Done(u) = Done(t) /\ Win(u) = Win(t)
          \/ u.on = FALSE /\ Done(u) = 0 /\ Win(u) = 0
      <4>1. CASE Untouched(t, u)  BY <2>3, <2>6, <2>7, <2>t, <4>1
      <4>2. CASE ~Untouched(t, u)
        <5>1. ~SwitchedOn(t, u)  BY <2>3, <2>7 DEF SwitchedOn
        <5>2. ~u.on /\ u.on \in BOOLEAN  BY <2>4, <4>2, <5>1, Numbers DEF SwitchedOff, Dark
        <5> QED  BY <2>5, <4>2, <5>2
      <4> QED  BY <4>1, <4>2
    <3>4. CASE ~t.drawn /\ "vblank" \notin t.irq
      <4>1. Frames!Pass
        BY <2>4, <2>7, <2>t, <3>2, <3>3, <3>4 DEF Frames!Pass, Frames!Cycle
      <4> QED  BY <4>1 DEF Frames!Next
    <3>5. CASE t.drawn
      <4>1. Frames!Line
        BY <2>4, <2>7, <2>t, <3>2, <3>3, <3>5 DEF Frames!Line, Frames!Cycle
      <4> QED  BY <4>1 DEF Frames!Next
    <3>6. CASE ~t.drawn /\ "vblank" \in t.irq
      <4>1. Frames!VBlank
        BY <2>4, <2>7, <2>t, <3>2, <3>3, <3>6 DEF Frames!VBlank, Frames!Cycle
      <4> QED  BY <4>1 DEF Frames!Next
    <3> QED  BY <3>4, <3>5, <3>6
  <2>8. CASE ~ppu.on
    <3>1. Dark(t) /\ t.drawn = FALSE /\ t.irq = {}  BY <2>3, <2>8
    <3>2. Done(t) = 0 /\ Win(t) = 0  BY <3>1, DarkFits
    <3>3. Done(u) = 0 /\ Win(u) = 0 /\ u.on \in BOOLEAN
      BY <2>4, <2>5, <2>6, <3>2, Numbers
    <3>4. Frames!Dark  BY <2>4, <2>8, <3>1, <3>3 DEF Frames!Dark
    <3> QED  BY <3>4 DEF Frames!Next
  <2> QED  BY <2>7, <2>8
<1> QED  BY <1>1, <1>2, InitInFrame, StepInFrame, PTL DEF Spec, ImplementsFrameAbs
=============================================================================
