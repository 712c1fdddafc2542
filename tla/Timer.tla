------------------------------- MODULE Timer -------------------------------
(***************************************************************************)
(* src/timer.c: the 16-bit divider DIV and the counter TIMA it clocks.     *)
(*                                                                         *)
(* The hardware part works in T-cycles: Increment is one of them, and the  *)
(* cpu runs four of them (Tick) in every M-cycle before the one bus access *)
(* the M-cycle may make.  An action below is such an M-cycle: the tick,    *)
(* then at most one register write or interrupt acknowledge.               *)
(***************************************************************************)
EXTENDS Integers

CONSTANTS DivSize,      \* number of values of div_counter (2^16)
          TimaSize,     \* number of values of TIMA and TMA (2^8)
          PostBootDiv   \* div_counter when the boot ROM hands over (0xABCC)

\* 1024 is the longest TIMA period; the boot ROM ends between two M-cycles.
ASSUME TimerAssumption ==
  /\ DivSize \in Nat \ {0} /\ DivSize % 1024 = 0
  /\ TimaSize \in Nat \ {0}
  /\ PostBootDiv \in 0 .. DivSize - 1 /\ PostBootDiv % 4 = 0

VARIABLES timer,   \* the timer's registers and reload state
          irq      \* the timer bit of IF

vars == <<timer, irq>>

Tima == 0 .. TimaSize - 1
Tac  == 0 .. 7               \* bit 2 enables, bits 0-1 select the DIV bit

TimerState == [div : 0 .. DivSize - 1, tima : Tima, tma : Tima, tac : Tac,
               delay : 0 .. 4, overflow : BOOLEAN, reloaded : BOOLEAN]

TypeOK == timer \in TimerState /\ irq \in BOOLEAN
-----------------------------------------------------------------------------
\* Faults.  Operators named Bug... are slips the code could have made in the
\* definition that follows them; README.md says which property each one breaks.

BugHalfPeriod(sel) == <<512, 8, 32, 64>>[sel + 1]    \* wrong bit for TAC 3

\* 2^TAC_BIT: the selected DIV bit is set during every second such stretch.
HalfPeriod(sel) == <<512, 8, 32, 128>>[sel + 1]

Enabled(t) == t.tac >= 4

Signal(t) == Enabled(t) /\ (t.div \div HalfPeriod(t.tac % 4)) % 2 = 1

BugStepTimaSticks(t) ==                  \* a counter that saturates
  IF t.tima = TimaSize - 1 THEN t ELSE [t EXCEPT !.tima = @ + 1]

\* TIMA counts; at the top it wraps to 0 and the reload is due 4 T-cycles on.
StepTima(t) ==
  IF t.tima = TimaSize - 1
  THEN [t EXCEPT !.tima = 0, !.delay = 4, !.overflow = TRUE]
  ELSE [t EXCEPT !.tima = @ + 1]

\* The signal was `before`: TIMA counts its falling edges.
StepOnFall(before, t) == IF before /\ ~Signal(t) THEN StepTima(t) ELSE t

BugCountdown(t) ==                       \* the reload is not marked
  IF t.delay = 1
  THEN [t EXCEPT !.delay = 0, !.tima = t.tma, !.overflow = FALSE]
  ELSE [t EXCEPT !.delay = IF @ = 0 THEN 0 ELSE @ - 1]

Countdown(t) ==
  IF t.delay = 1
  THEN [t EXCEPT !.delay = 0, !.tima = t.tma,
                 !.overflow = FALSE, !.reloaded = TRUE]
  ELSE [t EXCEPT !.delay = IF @ = 0 THEN 0 ELSE @ - 1]

NextDiv(d) == IF d = DivSize - 1 THEN 0 ELSE d + 1

\* One T-cycle: count down a due reload, then look for the falling edge.
Increment == [t \in TimerState |->
  StepOnFall(Signal(t), Countdown([t EXCEPT !.div = NextDiv(@)]))]

\* One M-cycle.  Afterwards `reloaded` says the interrupt was requested in it.
Tick(t) == Increment[Increment[Increment[Increment[
             [t EXCEPT !.reloaded = FALSE]]]]]

DivWrite(t) == StepOnFall(Signal(t), [t EXCEPT !.div = 0])

TacWrite(t, v) == StepOnFall(Signal(t), [t EXCEPT !.tac = v])

BugTmaWrite(t, v) == [t EXCEPT !.tma = v]

TmaWrite(t, v) ==
  [t EXCEPT !.tma = v, !.tima = IF t.reloaded THEN v ELSE @]

BugTimaWriteNoCancel(t, v) == IF t.reloaded THEN t ELSE [t EXCEPT !.tima = v]

TimaWrite(t, v) ==
  IF t.reloaded THEN t
  ELSE IF t.delay > 0
       THEN [t EXCEPT !.delay = 0, !.overflow = FALSE, !.tima = v]
       ELSE [t EXCEPT !.tima = v]
-----------------------------------------------------------------------------
Init ==
  /\ timer = [div |-> PostBootDiv, tima |-> 0, tma |-> 0, tac |-> 0,
              delay |-> 0, overflow |-> FALSE, reloaded |-> FALSE]
  /\ irq = FALSE

\* IF after the M-cycle's tick: only a reload requests the interrupt.
Raised == irq \/ Tick(timer).reloaded

Idle == timer' = Tick(timer) /\ irq' = Raised

WriteDiv == timer' = DivWrite(Tick(timer)) /\ irq' = Raised

WriteTima == \E v \in Tima : timer' = TimaWrite(Tick(timer), v) /\ irq' = Raised

WriteTma == \E v \in Tima : timer' = TmaWrite(Tick(timer), v) /\ irq' = Raised

WriteTac == \E v \in Tac : timer' = TacWrite(Tick(timer), v) /\ irq' = Raised

\* A program writes IF, or the cpu dispatches the timer interrupt.
WriteIf == timer' = Tick(timer) /\ irq' \in BOOLEAN

Acknowledge == timer' = Tick(timer) /\ Raised /\ irq' = FALSE

Next == \/ Idle \/ WriteDiv \/ WriteTima \/ WriteTma \/ WriteTac
        \/ WriteIf \/ Acknowledge

\* M-cycles never stop coming: even a halted or hung cpu ticks the clock.
Spec == Init /\ [][Next]_vars /\ WF_vars(Next)
-----------------------------------------------------------------------------
\* The invariant behind everything else, in named parts.

\* M-cycles start on a multiple of four T-cycles, so TIMA can only be clocked
\* by the last T-cycle of one.
DivAligned == timer.div % 4 = 0

\* The two encodings of "a reload is due" agree, and it is a whole M-cycle off.
DelayWhole == /\ timer.delay \in {0, 4}
              /\ timer.overflow <=> timer.delay = 4

\* While the reload is due TIMA reads 0: no write and no second edge of the
\* divider can disturb it without also cancelling the reload.
PendingReadsZero == timer.overflow => timer.tima = 0

\* The tick of the coming M-cycle ends a TIMA period.
EdgeDue(t) == Enabled(t) /\ (t.div + 4) % (2 * HalfPeriod(t.tac % 4)) = 0

\* A due reload and an edge never meet in one M-cycle, whatever TAC or DIV
\* write came between: so TIMA holds TMA when the reloading tick ends.
ReloadAlone == timer.overflow => ~EdgeDue(timer)

TimerInv == /\ TypeOK /\ DivAligned /\ DelayWhole
            /\ PendingReadsZero /\ ReloadAlone

\* timer.c's cancel window: a TIMA write cancels a due reload only inside the
\* M-cycle of the overflow.  Once an M-cycle starts with a reload due, that
\* M-cycle reloads whatever it writes, and the request reaches IF unless the
\* very same M-cycle clears the bit.
ReloadIsPunctual ==
  [][timer.overflow => /\ timer'.reloaded
                       /\ irq' \/ Acknowledge \/ WriteIf]_vars

\* A reload makes TIMA equal TMA, even when the reload M-cycle itself writes
\* TIMA (ignored) or TMA (taken): only a glitch edge of a DIV or TAC write in
\* that M-cycle may count one further.
ReloadTakesTma ==
  [][timer'.reloaded => \/ timer'.tima = timer'.tma
                        \/ (WriteDiv \/ WriteTac) /\ Enabled(timer)]_vars

\* An interrupt is requested only for an overflow of an earlier M-cycle.
NoSpuriousRequest == [][~irq /\ irq' => timer.overflow \/ WriteIf]_vars

\* The program leaves the timer's own registers alone.
Quiet == Idle \/ Acknowledge \/ WriteIf

\* Once left alone, a running counter overflows and reloads for ever: at no rate,
\* TMA value, DIV wrap or moment of the last write does the countdown or the edge
\* detector of timer.c stall.
KeepsReloading ==
  <>[][Quiet]_vars /\ <>[]Enabled(timer) => []<>(timer.reloaded)
-----------------------------------------------------------------------------
\* The T-cycle timer keeps the promises of TimerAbs: DIV is its rate divider
\* in T-cycles and the overflow flag marks a due reload.
Abs == INSTANCE TimerAbs WITH
         MDivSize <- DivSize \div 4, PostBootMDiv <- PostBootDiv \div 4,
         mdiv <- timer.div \div 4, tima <- timer.tima, tma <- timer.tma,
         tac <- timer.tac, due <- timer.overflow, reloaded <- timer.reloaded

\* timer.c seen through TimerAbs: its T-cycle loop, falling-edge detector and
\* four-step delay amount to counting whole periods and reloading one M-cycle
\* after the overflow.
ImplementsTimerAbs == Abs!Init /\ [][Abs!Next]_Abs!vars
=============================================================================
