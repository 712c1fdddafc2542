-------------------------------- MODULE Ppu --------------------------------
(***************************************************************************)
(* src/ppu.c: the dot clock, the modes, the STAT interrupt line and the    *)
(* windows in which the cpu reaches VRAM and OAM.                          *)
(*                                                                         *)
(* An action is an M-cycle: four dots (two in double speed), then at most  *)
(* one register write.  What a scanline looks like is left out; that it is *)
(* rendered, and the object penalty it is delayed by, are not.             *)
(***************************************************************************)
EXTENDS Integers

CONSTANTS LineDots,    \* LINE_DOTS (456)
          Lines,       \* LINES (154)
          Lycs,        \* values of LYC, lines or not (0 .. 255)
          VblankLine,  \* VBLANK_LINE (144)
          Mode2End,    \* MODE2_END (80)
          Mode3End,    \* MODE3_END (252), before fine scroll and objects
          StatDelay,   \* STAT_MODE_DELAY (8)
          MaxScx,      \* largest fine scroll, scx & 7 (7)
          Scrolls,     \* the fine scrolls the program uses (0 .. 7)
          Pens,        \* values of obj_mode3_penalty (0 .. 107)
          Windows,     \* may a line show the window?  (subset of BOOLEAN)
          WinSize,     \* values of win_line (2^8)
          Cgb,         \* a Game Boy Color: double speed exists
          Sources      \* STAT sources the program may enable

\* Mode 3 and its reported tail always end on their line, and the fine scroll
\* is shorter than the tail; a tick of four dots never skips a mode.
ASSUME PpuAssumption ==
  /\ LineDots \in Nat /\ Lines \in Nat /\ VblankLine \in Nat
  /\ Lycs \subseteq Nat /\ 0 \in Lycs
  /\ Mode2End \in Nat /\ Mode3End \in Nat /\ StatDelay \in Nat /\ MaxScx \in Nat
  /\ 0 < VblankLine /\ VblankLine < Lines
  /\ 4 <= StatDelay /\ MaxScx < StatDelay
  /\ StatDelay < Mode2End /\ Mode2End + StatDelay < Mode3End
  /\ Scrolls \subseteq 0 .. MaxScx /\ 0 \in Scrolls
  /\ Pens \subseteq Nat /\ 0 \in Pens
  /\ \A q \in Pens : Mode3End + MaxScx + q + StatDelay <= LineDots
  /\ Windows \subseteq BOOLEAN /\ Windows # {}
  /\ WinSize \in Nat /\ VblankLine < WinSize
  /\ Cgb \in BOOLEAN
  /\ Sources \subseteq {"hblank", "vblank", "oam", "lyc"}

VARIABLES ppu,
          rude   \* history: this frame SCX was raised in a mode 0 (see Courtesy)

vars == <<ppu, rude>>

Ly  == 0 .. Lines - 1

PpuState ==
  [on : BOOLEAN,              \* LCDC bit 7
   row : Ly,                  \* ppu_dot / LINE_DOTS
   col : 0 .. LineDots - 1,   \* ppu_dot % LINE_DOTS
   ly : Ly, lyc : Lycs, mode : 0 .. 3, scx : Scrolls, pen : Pens,
   stat : SUBSET Sources, statLine : BOOLEAN, lyCoin : BOOLEAN,
   onFrame : BOOLEAN,         \* lcd_on_frame
   winLine : 0 .. WinSize - 1,
   fast : BOOLEAN,            \* double_speed
   drawn : BOOLEAN,                        \* a scanline was rendered,
   irq : SUBSET {"vblank", "stat"}]        \* requests made in this M-cycle

TypeOK == ppu \in PpuState /\ rude \in BOOLEAN
-----------------------------------------------------------------------------
\* Faults.  Operators named Bug... are slips the code could have made in the
\* definition that follows them; README.md says which property each one breaks.

BugEndOfMode3(p) == Mode3End + p.scx                  \* objects do not count

EndOfMode3(p) == Mode3End + p.scx + p.pen

\* The mode the dot clock stands for, at the dot about to be processed.
ModeAt(p) ==
  IF p.row >= VblankLine THEN 1
  ELSE IF p.col < Mode2End THEN 2
  ELSE IF p.col < EndOfMode3(p) THEN 3 ELSE 0

BugReported(p) ==                           \* mode 3 ends without the tail
  IF ~p.on THEN 0
  ELSE IF p.ly >= VblankLine THEN 1
  ELSE IF p.col < StatDelay THEN 0
  ELSE IF p.col < Mode2End + StatDelay
       THEN IF p.onFrame /\ p.ly = 0 THEN 0 ELSE 2
  ELSE IF p.col < EndOfMode3(p) THEN 3 ELSE 0

\* The mode field of STAT, behind the real mode by StatDelay dots.
Reported(p) ==
  IF ~p.on THEN 0
  ELSE IF p.ly >= VblankLine THEN 1
  ELSE IF p.col < StatDelay THEN 0
  ELSE IF p.col < Mode2End + StatDelay
       THEN IF p.onFrame /\ p.ly = 0 THEN 0 ELSE 2
  ELSE IF p.col < EndOfMode3(p) + StatDelay THEN 3 ELSE 0

BugOamAccessible(p) == Reported(p) # 2

OamAccessible(p)  == Reported(p) <= 1
VramAccessible(p) == Reported(p) # 3

BugStatSource(p) ==                  \* the mode field instead of the mode
  \/ "hblank" \in p.stat /\ Reported(p) = 0
  \/ "vblank" \in p.stat /\ p.mode = 1
  \/ "oam"    \in p.stat /\ p.mode = 2
  \/ "lyc"    \in p.stat /\ p.ly = p.lyc

StatSource(p) == \/ "hblank" \in p.stat /\ p.mode = 0
                 \/ "vblank" \in p.stat /\ p.mode = 1
                 \/ "oam"    \in p.stat /\ p.mode = 2
                 \/ "lyc"    \in p.stat /\ p.ly = p.lyc

BugStatCheck(p) ==                                    \* the line never falls
  LET line == StatSource(p)
  IN  [p EXCEPT !.statLine = @ \/ line,
                !.irq = IF line /\ ~p.statLine THEN @ \cup {"stat"} ELSE @]

\* The STAT interrupt is requested on the rising edge of the line.
StatCheck(p) ==
  LET line == StatSource(p)
  IN  [p EXCEPT !.statLine = line,
                !.irq = IF line /\ ~p.statLine THEN @ \cup {"stat"} ELSE @]

BugAdvanceShort(p) ==                                 \* no vertical blank
  IF p.col < LineDots - 1 THEN [p EXCEPT !.col = @ + 1]
  ELSE [p EXCEPT !.col = 0, !.row = IF @ = VblankLine - 1 THEN 0 ELSE @ + 1]

Advance(p) ==
  IF p.col < LineDots - 1 THEN [p EXCEPT !.col = @ + 1]
  ELSE [p EXCEPT !.col = 0, !.row = IF @ = Lines - 1 THEN 0 ELSE @ + 1]

\* Mode 3 gives way to mode 0: the line is rendered.
Rendered(p) == ModeAt(p) = 0 /\ p.mode = 3 /\ p.row < VblankLine

\* What a dot does before the STAT check.  If mode 3 begins on it obj_mode3_penalty
\* returns q; if a line is rendered on it, w says whether it shows the window.
AtDot(p, q, w) ==
  LET enters(m) == ModeAt(p) = m /\ p.mode # m
  IN  [p EXCEPT !.ly = p.row, !.mode = ModeAt(p),
                !.onFrame = @ /\ p.row = 0,
                !.pen = IF enters(3) THEN q ELSE @,
                !.drawn = @ \/ Rendered(p),
                !.winLine = IF p.row = 0 /\ p.col = 0 THEN 0
                            ELSE IF Rendered(p) /\ w THEN (@ + 1) % WinSize ELSE @,
                !.irq = IF enters(1) THEN @ \cup {"vblank"} ELSE @]

Dot(q, w) == [p \in PpuState |-> Advance(StatCheck(AtDot(p, q, w)))]

BugOffKeepsWindow(p) ==
  [p EXCEPT !.row = 0, !.col = 0, !.ly = 0, !.mode = 0]

Off(p) == [p EXCEPT !.row = 0, !.col = 0, !.ly = 0, !.mode = 0,
                     !.winLine = 0]

\* The M-cycle's dots.
Tick(p, q, w) ==
  LET start == [p EXCEPT !.drawn = FALSE, !.irq = {}]
      dot == Dot(q, w)
      two == dot[dot[start]]
  IN  IF ~p.on THEN Off(start) ELSE IF p.fast THEN two ELSE dot[dot[two]]
-----------------------------------------------------------------------------
\* LCDC bit 7 written: turning the LCD off keeps only the LYC source of the
\* STAT line; turning it on looks for an edge at once.
LcdcWrite(p, on) ==
  IF p.on /\ ~on
  THEN [Off(p) EXCEPT !.on = FALSE, !.lyCoin = (p.ly = p.lyc),
                      !.statLine = "lyc" \in p.stat /\ p.ly = p.lyc]
  ELSE IF ~p.on /\ on THEN StatCheck([p EXCEPT !.on = TRUE, !.onFrame = TRUE])
  ELSE p

Init == /\ ppu = [on |-> TRUE, row |-> 0, col |-> 0, ly |-> 0, lyc |-> 0, mode |-> 2,
                  scx |-> 0, pen |-> 0, stat |-> {}, statLine |-> FALSE,
                  lyCoin |-> FALSE, onFrame |-> FALSE, winLine |-> 0, fast |-> FALSE,
                  drawn |-> FALSE, irq |-> {}]
        /\ rude = FALSE

\* t is the PPU after the M-cycle's tick.
Idle(t) == ppu' = t

WriteLcdc(t) == \E on \in BOOLEAN : ppu' = LcdcWrite(t, on)

WriteStat(t) == \E s \in SUBSET Sources : ppu' = [t EXCEPT !.stat = s]

WriteScx(t) == \E v \in Scrolls : ppu' = [t EXCEPT !.scx = v]

\* Any byte, also one that is no line and so never matches LY.
WriteLyc(t) == \E v \in Lycs : ppu' = [t EXCEPT !.lyc = v]

MCycle(q, w) ==
  LET t == Tick(ppu, q, w)
  IN  Idle(t) \/ WriteLcdc(t) \/ WriteStat(t) \/ WriteScx(t) \/ WriteLyc(t)

\* STOP with a speed switch armed, then the M-cycle that fetches its operand.
SwitchSpeed(q, w) == Cgb /\ ppu' = Tick([ppu EXCEPT !.fast = ~@], q, w)

\* Raising SCX in mode 0 lengthens a mode 3 that has already ended.  The frame
\* in which a program does so is spoilt; the next one starts afresh.
Courtesy ==
  rude' = (/\ ppu'.on /\ ppu'.mode # 1
           /\ rude \/ (ppu'.mode = 0 /\ ppu'.scx > ppu.scx))

Next == \E q \in Pens, w \in Windows :
          (MCycle(q, w) \/ SwitchSpeed(q, w)) /\ Courtesy

\* M-cycles never stop coming: while the LCD is on each of them moves the dot clock.
Running == []<>(~ppu.on) \/ []<><<ppu'.col # ppu.col>>_vars

Spec == Init /\ [][Next]_vars /\ Running
-----------------------------------------------------------------------------
\* The LCD was just turned on, or the machine just booted: no dot yet.
Fresh(p) == p.row = 0 /\ p.col = 0 /\ p.mode # 1

\* The line dot of the last processed dot.
LastCol(p) == IF p.col = 0 THEN LineDots - 1 ELSE p.col - 1

\* LY is the line of the last dot, which is behind ppu_dot at a line's end.
LyIsOfLastDot(p) ==
  /\ ~p.on => p.ly = 0 /\ p.row = 0 /\ p.col = 0 /\ p.mode = 0
  /\ p.on /\ Fresh(p) => p.ly = 0
  /\ p.on /\ ~Fresh(p) =>
       p.row = IF p.col # 0 THEN p.ly ELSE IF p.ly = Lines - 1 THEN 0 ELSE p.ly + 1

\* Whatever the program does to LCDC, SCX and the speed, the mode variable is a
\* mode the last dot can be in: off-by-one tick lengths, a stale penalty or a
\* half-reset LCD would leave it behind the dot clock.
ModeFitsDot(p) ==
  p.on /\ ~Fresh(p) =>
    /\ p.ly >= VblankLine <=> p.mode = 1
    /\ p.mode = 2 <=> p.ly < VblankLine /\ LastCol(p) < Mode2End
    /\ p.mode = 3 => LastCol(p) < Mode3End + MaxScx + p.pen
    /\ p.mode = 0 => LastCol(p) >= Mode3End + p.pen

PpuInv == TypeOK /\ LyIsOfLastDot(ppu) /\ ModeFitsDot(ppu)

\* The mode field trails the real mode, and an SCX write moves the end of both
\* at once; still the cpu never reaches VRAM while mode 3 draws (once the field
\* says so at all), because the tail is longer than any fine scroll.
DrawingHidesVram ==
  ppu.mode = 3 /\ ppu.col >= Mode2End + StatDelay => ~VramAccessible(ppu)

\* Nor OAM, except on the first line after the LCD came on.
DrawingHidesOam ==
  ppu.mode = 3 /\ ~(ppu.onFrame /\ ppu.ly = 0) => ~OamAccessible(ppu)

\* The STAT interrupt follows the real mode, not the delayed field: the HBlank
\* request is made in the very M-cycle that renders the line (and steps the HBlank
\* DMA), at any alignment, speed, scroll and penalty, unless the line was high.
HBlankRequestIsOnTime ==
  [][~ppu.statLine /\ "hblank" \in ppu.stat /\ ppu'.drawn => "stat" \in ppu'.irq]_vars

\* A frame ends, again and again, once the LCD stays on: the front ends' loops
\* `while frame_count == f` rely on it, at either speed and under any SCX.
FramesEnd == <>[](ppu.on) => []<>("vblank" \in ppu.irq)

\* With LYC the only source and left alone, its interrupt comes in every frame if
\* it names a line (0 to 153), and stops coming for ever if it does not.
LycRecurs ==
  /\ <>[](ppu.on /\ ppu.stat = {"lyc"} /\ ppu.lyc \in Ly) /\ <>[][ppu'.lyc = ppu.lyc]_vars
       => []<>("stat" \in ppu.irq)
  /\ <>[](ppu.stat = {"lyc"} /\ ppu.lyc \notin Ly) => <>[]("stat" \notin ppu.irq)
-----------------------------------------------------------------------------
\* Scanlines rendered so far in this frame.
Done(p) == IF ~p.on \/ Fresh(p) \/ p.mode = 1 THEN 0
           ELSE IF p.mode = 0 THEN p.ly + 1 ELSE p.ly

\* Those of them that showed the window.
Win(p) == IF p.mode = 1 THEN 0 ELSE p.winLine

Frames == INSTANCE FrameAbs WITH
            Visible <- VblankLine, lit <- ppu.on, done <- Done(ppu),
            win <- Win(ppu),
            event <- IF ppu.drawn THEN "line"
                     ELSE IF "vblank" \in ppu.irq THEN "vblank" ELSE "none"

\* The dot clock is a frame clock: whatever the program does with the LCD, the
\* speed, LYC and STAT, every line is rendered (and its HBlank DMA block stepped)
\* once, in order, and then the frame ends - except in a frame it spoils with SCX.
ImplementsFrameAbs ==
  Frames!Init /\ [][rude' \/ rude \/ [Frames!Next]_(Frames!vars)]_vars
-----------------------------------------------------------------------------
\* ppu.c: "mode 0 fills the rest" of a line, so a line whose mode 0 has begun is
\* not rendered again (and steps no second HBlank DMA block).
LineRenderedOnce ==
  [][ppu.on /\ ~Fresh(ppu) /\ ppu.mode = 0 /\ ppu'.ly = ppu.ly => ~ppu'.drawn]_vars

\* Running, as the weak fairness of the M-cycles that write nothing: every
\* instruction begins with one.
Fetch == \E q \in Pens, w \in Windows : Idle(Tick(ppu, q, w)) /\ Courtesy

LoopSpec == Init /\ [][Next]_vars /\ WF_vars(Fetch)

\* play.c: "run exactly one frame": the loop's exit condition comes true.
FrameAlwaysEnds == []<>("vblank" \in ppu.irq)
=============================================================================
