------------------------------ MODULE TimerAbs ------------------------------
(***************************************************************************)
(* What a program may rely on, without divider bits, T-cycles or delays:   *)
(* TIMA counts at one of four rates, and an overflow found at the end of   *)
(* one M-cycle loads TMA and requests the interrupt in the next, unless a  *)
(* TIMA write falls into the overflow M-cycle itself.                      *)
(***************************************************************************)
EXTENDS Integers

CONSTANTS MDivSize,     \* M-cycles before the divider repeats (2^14)
          TimaSize, PostBootMDiv

VARIABLES mdiv,         \* M-cycles since the divider was last 0
          tima, tma, tac,
          due,          \* TIMA overflowed: the next M-cycle reloads it
          reloaded,     \* this M-cycle reloaded it
          irq

vars == <<mdiv, tima, tma, tac, due, reloaded, irq>>

\* M-cycles per count: 1024, 16, 64 or 256 T-cycles.
Period(sel) == <<256, 4, 16, 64>>[sel + 1]

\* The rate divider is in its second half: stopping it there counts once.
Half(m, c) == c >= 4 /\ 2 * (m % Period(c % 4)) >= Period(c % 4)

NextMDiv == IF mdiv = MDivSize - 1 THEN 0 ELSE mdiv + 1

\* A period ends with this M-cycle.
Counts == tac >= 4 /\ NextMDiv % Period(tac % 4) = 0

Up(v) == IF v = TimaSize - 1 THEN 0 ELSE v + 1
Top(v) == v = TimaSize - 1

Loaded == IF due THEN tma ELSE tima

\* TIMA at the end of the M-cycle's tick, and whether it overflowed in it.
TickedTima == IF Counts THEN Up(Loaded) ELSE Loaded
TickedDue  == Counts /\ Top(Loaded)

\* TIMA ends the M-cycle as v, with a reload due or not; every M-cycle carries
\* out the reload it found due and requests the interrupt for it.
Cycle(v, isDue) ==
  /\ tima' = v /\ (due' <=> isDue)
  /\ reloaded' = due
  /\ irq' = (irq \/ due)

\* The write `stopped` the rate divider in its second half: one extra count.
CycleAndGlitch(stopped) ==
  Cycle(IF stopped THEN Up(TickedTima) ELSE TickedTima,
        TickedDue \/ (stopped /\ Top(TickedTima)))

Init == /\ mdiv = PostBootMDiv /\ tima = 0 /\ tma = 0 /\ tac = 0
        /\ due = FALSE /\ reloaded = FALSE /\ irq = FALSE

Idle == Cycle(TickedTima, TickedDue) /\ mdiv' = NextMDiv /\ UNCHANGED <<tma, tac>>

RestartDivider ==
  CycleAndGlitch(Half(NextMDiv, tac)) /\ mdiv' = 0 /\ UNCHANGED <<tma, tac>>

SetTima ==
  /\ IF due THEN Cycle(TickedTima, TickedDue)
            ELSE \E v \in 0 .. TimaSize - 1 : Cycle(v, FALSE)
  /\ mdiv' = NextMDiv /\ UNCHANGED <<tma, tac>>

SetTma ==
  /\ tma' \in 0 .. TimaSize - 1
  /\ Cycle(IF due THEN tma' ELSE TickedTima, TickedDue)
  /\ mdiv' = NextMDiv /\ UNCHANGED tac

SetTac ==
  /\ tac' \in 0 .. 7
  /\ CycleAndGlitch(Half(NextMDiv, tac) /\ ~Half(NextMDiv, tac'))
  /\ mdiv' = NextMDiv /\ UNCHANGED tma

\* The program or the dispatch decides the interrupt bit.
SetIrq ==
  /\ tima' = TickedTima /\ (due' <=> TickedDue) /\ reloaded' = due
  /\ irq' \in BOOLEAN
  /\ mdiv' = NextMDiv /\ UNCHANGED <<tma, tac>>

Next == Idle \/ RestartDivider \/ SetTima \/ SetTma \/ SetTac \/ SetIrq

Spec == Init /\ [][Next]_vars
=============================================================================
