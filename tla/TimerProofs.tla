---------------------------- MODULE TimerProofs ----------------------------
(***************************************************************************)
(* Proofs about Timer for every DivSize, TimaSize and PostBootDiv that     *)
(* TimerAssumption allows.  The heart is TickEffect: from a state that     *)
(* satisfies the invariant, four T-cycles amount to "reload if due, then   *)
(* count once if a TIMA period ends here".                                 *)
(***************************************************************************)
EXTENDS Timer, TLAPS

\* The timer between two M-cycles, as far as the T-cycle loop depends on it.
Settled(t) == /\ t \in TimerState
              /\ t.div % 4 = 0
              /\ t.delay \in {0, 4}
              /\ t.overflow <=> t.delay = 4
              /\ t.overflow => t.tima = 0

\* The selected DIV bit at a divider value d.
Bit(d, sel) == (d \div HalfPeriod(sel)) % 2 = 1

\* The four bit positions differ only in a constant.
LEMMA BitCases ==
  ASSUME NEW d \in Nat
  PROVE  /\ Bit(d, 0) <=> (d \div 512) % 2 = 1
         /\ Bit(d, 1) <=> (d \div 8) % 2 = 1
         /\ Bit(d, 2) <=> (d \div 32) % 2 = 1
         /\ Bit(d, 3) <=> (d \div 128) % 2 = 1
  BY DEF Bit, HalfPeriod

\* Within an M-cycle no DIV bit the timer can select changes.
LEMMA BitSteady ==
  ASSUME NEW d \in Nat, d % 4 # 3, NEW sel \in 0 .. 3
  PROVE  Bit(d + 1, sel) <=> Bit(d, sel)
  <1>1. CASE sel = 0
    <2>1. (d + 1) \div 512 = d \div 512
      OBVIOUS
    <2> QED BY <1>1, <2>1, BitCases
  <1>2. CASE sel = 1
    <2>1. (d + 1) \div 8 = d \div 8
      OBVIOUS
    <2> QED BY <1>2, <2>1, BitCases
  <1>3. CASE sel = 2
    <2>1. (d + 1) \div 32 = d \div 32
      OBVIOUS
    <2> QED BY <1>3, <2>1, BitCases
  <1>4. CASE sel = 3
    <2>1. (d + 1) \div 128 = d \div 128
      OBVIOUS
    <2> QED BY <1>4, <2>1, BitCases
  <1> QED BY <1>1, <1>2, <1>3, <1>4

\* The divider wraps at a multiple of the longest period, so an edge falls
\* exactly where a whole TIMA period ends, wrap or no wrap.
LEMMA BitFalls ==
  ASSUME NEW d \in 0 .. DivSize - 1, d % 4 = 3, NEW sel \in 0 .. 3
  PROVE  /\ NextDiv(d) \in 0 .. DivSize - 1
         /\ NextDiv(d) % 4 = 0
         /\ Bit(d, sel) /\ ~Bit(NextDiv(d), sel)
              <=> (d + 1) % (2 * HalfPeriod(sel)) = 0
  <1> DivSize \in Nat /\ DivSize > 0 /\ DivSize % 1024 = 0
    BY TimerAssumption
  <1> NextDiv(d) = IF d = DivSize - 1 THEN 0 ELSE d + 1
    BY DEF NextDiv
  <1>1. NextDiv(d) \in 0 .. DivSize - 1 /\ NextDiv(d) % 4 = 0
    OBVIOUS
  <1>2. CASE sel = 0
    <2>1. HalfPeriod(sel) = 512 /\ (Bit(d, sel) <=> (d \div 512) % 2 = 1)
            /\ (Bit(NextDiv(d), sel) <=> (NextDiv(d) \div 512) % 2 = 1)
      BY <1>2, <1>1, BitCases DEF HalfPeriod
    <2> QED BY <1>1, <2>1
  <1>3. CASE sel = 1
    <2>1. HalfPeriod(sel) = 8 /\ (Bit(d, sel) <=> (d \div 8) % 2 = 1)
            /\ (Bit(NextDiv(d), sel) <=> (NextDiv(d) \div 8) % 2 = 1)
      BY <1>3, <1>1, BitCases DEF HalfPeriod
    <2> QED BY <1>1, <2>1
  <1>4. CASE sel = 2
    <2>1. HalfPeriod(sel) = 32 /\ (Bit(d, sel) <=> (d \div 32) % 2 = 1)
            /\ (Bit(NextDiv(d), sel) <=> (NextDiv(d) \div 32) % 2 = 1)
      BY <1>4, <1>1, BitCases DEF HalfPeriod
    <2> QED BY <1>1, <2>1
  <1>5. CASE sel = 3
    <2>1. HalfPeriod(sel) = 128 /\ (Bit(d, sel) <=> (d \div 128) % 2 = 1)
            /\ (Bit(NextDiv(d), sel) <=> (NextDiv(d) \div 128) % 2 = 1)
      BY <1>5, <1>1, BitCases DEF HalfPeriod
    <2> QED BY <1>1, <2>1
  <1> QED BY <1>1, <1>2, <1>3, <1>4, <1>5
-----------------------------------------------------------------------------
\* A T-cycle that is neither the last of its M-cycle nor the one that reloads
\* moves DIV and the delay, and nothing else.
LEMMA QuietIncrement ==
  ASSUME NEW t \in TimerState, t.div % 4 # 3, t.delay # 1, NEW u, u = Increment[t]
  PROVE  /\ u \in TimerState
         /\ u.div = t.div + 1 /\ u.delay = (IF t.delay = 0 THEN 0 ELSE t.delay - 1)
         /\ u.tima = t.tima /\ u.tma = t.tma /\ u.tac = t.tac
         /\ u.overflow = t.overflow /\ u.reloaded = t.reloaded
  <1> DEFINE v == [t EXCEPT !.div = t.div + 1,
                            !.delay = IF t.delay = 0 THEN 0 ELSE t.delay - 1]
  <1>1. NextDiv(t.div) = t.div + 1 /\ t.div + 1 \in 0 .. DivSize - 1
    BY TimerAssumption DEF NextDiv, TimerState
  <1>2. Countdown([t EXCEPT !.div = NextDiv(@)]) = v
    BY <1>1 DEF Countdown, TimerState
  <1>3. v \in TimerState /\ v.div = t.div + 1 /\ v.tac = t.tac
    <2> DEFINE de == IF t.delay = 0 THEN 0 ELSE t.delay - 1
    <2>1. de \in 0 .. 4
      BY DEF TimerState
    <2> HIDE DEF de
    <2>2. [t EXCEPT !.div = t.div + 1, !.delay = de] \in TimerState
      BY <2>1, <1>1 DEF TimerState
    <2>3. [t EXCEPT !.div = t.div + 1, !.delay = de].div = t.div + 1
      BY <1>1 DEF TimerState
    <2>4. [t EXCEPT !.div = t.div + 1, !.delay = de].tac = t.tac
      BY DEF TimerState
    <2> QED BY <2>2, <2>3, <2>4 DEF de
  <1>4. t.tac % 4 \in 0 .. 3 /\ t.div \in Nat
    BY TimerAssumption DEF TimerState, Tac
  <1>5. Signal(v) <=> Signal(t)
    BY <1>3, <1>4, BitSteady DEF Signal, Enabled, Bit
  <1>6. u = v
    BY <1>2, <1>5 DEF Increment, StepOnFall
  <1> QED BY <1>3, <1>6 DEF TimerState

\* The value TIMA has after StepTima, and whether that was an overflow.
Up(v) == IF v = TimaSize - 1 THEN 0 ELSE v + 1
Top(v) == v = TimaSize - 1

(* step_tima field by field: counting up, or the overflow and its delay.     *)
LEMMA StepTimaFields ==
  ASSUME NEW t \in TimerState, NEW u, u = StepTima(t)
  PROVE  /\ u \in TimerState
         /\ u.div = t.div /\ u.tma = t.tma /\ u.tac = t.tac
         /\ u.reloaded = t.reloaded
         /\ u.tima = Up(t.tima)
         /\ u.delay = IF Top(t.tima) THEN 4 ELSE t.delay
         /\ u.overflow <=> (Top(t.tima) \/ t.overflow)
  <1>1. CASE t.tima = TimaSize - 1
    <2>1. u = [t EXCEPT !.tima = 0, !.delay = 4, !.overflow = TRUE]
      BY <1>1 DEF StepTima
    <2>2. 0 \in Tima
      BY TimerAssumption DEF Tima
    <2> DEFINE ti == 0 de == 4 ov == TRUE
    <2>3. ti \in Tima /\ de \in 0 .. 4 /\ ov \in BOOLEAN
      BY <2>2
    <2> HIDE DEF ti, de, ov
    <2>4. [t EXCEPT !.tima = ti, !.delay = de, !.overflow = ov] \in TimerState
      BY <2>3 DEF TimerState
    <2>5. u \in TimerState
      BY <2>1, <2>4 DEF ti, de, ov
    <2> QED BY <1>1, <2>1, <2>5 DEF TimerState, Up, Top
  <1>2. CASE t.tima # TimaSize - 1
    <2>1. u = [t EXCEPT !.tima = t.tima + 1]
      BY <1>2 DEF StepTima
    <2>2. t.tima + 1 \in Tima
      BY <1>2, TimerAssumption DEF Tima, TimerState
    <2>3. u \in TimerState
      BY <2>1, <2>2 DEF TimerState
    <2> QED BY <1>2, <2>1, <2>3 DEF TimerState, Up, Top
  <1> QED BY <1>1, <1>2

\* The countdown of the T-cycle that may reload.
LEMMA CountdownFields ==
  ASSUME NEW t \in TimerState, t.delay \in {0, 1}, t.overflow <=> t.delay = 1,
         NEW d \in 0 .. DivSize - 1,
         NEW u, u = Countdown([t EXCEPT !.div = d])
  PROVE  /\ u \in TimerState
         /\ u.div = d /\ u.tma = t.tma /\ u.tac = t.tac
         /\ u.reloaded <=> (t.reloaded \/ t.overflow)
         /\ u.tima = IF t.overflow THEN t.tma ELSE t.tima
         /\ u.delay = 0 /\ ~u.overflow
  <1>1. CASE t.delay = 1
    <2>1. u = [t EXCEPT !.div = d, !.delay = 0, !.tima = t.tma,
                        !.overflow = FALSE, !.reloaded = TRUE]
      BY <1>1 DEF Countdown, TimerState
    <2>2. u \in TimerState
      <3> DEFINE ti == t.tma de == 0 ov == FALSE re == TRUE
      <3>1. ti \in Tima /\ de \in 0 .. 4 /\ ov \in BOOLEAN /\ re \in BOOLEAN
        BY DEF TimerState
      <3> HIDE DEF ti, de, ov, re
      <3>2. [t EXCEPT !.div = d, !.delay = de, !.tima = ti,
                      !.overflow = ov, !.reloaded = re] \in TimerState
        BY <3>1 DEF TimerState
      <3> QED BY <2>1, <3>2 DEF ti, de, ov, re
    <2> QED BY <1>1, <2>1, <2>2 DEF TimerState
  <1>2. CASE t.delay = 0
    <2>1. u = [t EXCEPT !.div = d]
      <3> DEFINE v == [t EXCEPT !.div = d]
      <3>1. v \in TimerState /\ v.delay = 0
        BY <1>2 DEF TimerState
      <3>2. Countdown(v) = [v EXCEPT !.delay = 0]
        BY <3>1 DEF Countdown
      <3>3. [v EXCEPT !.delay = 0] = v
        BY <3>1 DEF TimerState
      <3> QED BY <3>2, <3>3
    <2>2. u \in TimerState
      BY <2>1 DEF TimerState
    <2> QED BY <1>2, <2>1, <2>2 DEF TimerState
  <1> QED BY <1>1, <1>2

\* The last T-cycle of an M-cycle: the reload, if due, and the edge.
LEMMA LastIncrement ==
  ASSUME NEW t \in TimerState, t.div % 4 = 3, t.delay \in {0, 1},
         t.overflow <=> t.delay = 1, ~t.reloaded,
         NEW u, u = Increment[t],
         NEW x, x = (IF t.overflow THEN t.tma ELSE t.tima),
         NEW f, f <=> (Enabled(t) /\ (t.div + 1) % (2 * HalfPeriod(t.tac % 4)) = 0)
  PROVE  /\ u \in TimerState /\ x \in Tima
         /\ u.div = NextDiv(t.div) /\ u.div % 4 = 0
         /\ u.tma = t.tma /\ u.tac = t.tac
         /\ u.reloaded = t.overflow
         /\ f => ~Signal(u)
         /\ f => u.tima = Up(x) /\ u.delay = (IF Top(x) THEN 4 ELSE 0)
                 /\ (u.overflow <=> Top(x))
         /\ ~f => u.tima = x /\ u.delay = 0 /\ ~u.overflow
  <1> DEFINE d == NextDiv(t.div)
             v == Countdown([t EXCEPT !.div = NextDiv(@)])
  <1>0. t.tac % 4 \in 0 .. 3 /\ t.div \in 0 .. DivSize - 1 /\ x \in Tima
    BY DEF TimerState, Tac
  <1>1. d \in 0 .. DivSize - 1 /\ d % 4 = 0
    BY <1>0, BitFalls
  <1>2. v = Countdown([t EXCEPT !.div = d])
    OBVIOUS
  <1>3. /\ v \in TimerState
        /\ v.div = d /\ v.tma = t.tma /\ v.tac = t.tac
        /\ v.reloaded <=> t.overflow
        /\ v.tima = x /\ v.delay = 0 /\ ~v.overflow
    <2> HIDE DEF d, v
    <2> QED BY <1>1, <1>2, CountdownFields
  <1>4. Signal(t) /\ ~Signal(v) <=> f
    <2>1. Signal(t) <=> Enabled(t) /\ Bit(t.div, t.tac % 4)
      BY DEF Signal, Bit
    <2>2. Signal(v) <=> Enabled(t) /\ Bit(d, t.tac % 4)
      BY <1>3 DEF Signal, Bit, Enabled
    <2> QED BY <2>1, <2>2, <1>0, BitFalls
  <1>5. u = IF f THEN StepTima(v) ELSE v
    BY <1>4 DEF Increment, StepOnFall
  <1> HIDE DEF v, d
  <1>6. CASE f
    <2>1. u = StepTima(v)
      BY <1>5, <1>6
    <2>2. /\ u \in TimerState
          /\ u.div = v.div /\ u.tma = v.tma /\ u.tac = v.tac
          /\ u.reloaded = v.reloaded
          /\ u.tima = Up(v.tima)
          /\ u.delay = IF Top(v.tima) THEN 4 ELSE v.delay
          /\ u.overflow <=> (Top(v.tima) \/ v.overflow)
      BY <2>1, <1>3, StepTimaFields
    <2>3. u.reloaded = t.overflow
      BY <1>3, <2>2 DEF TimerState
    <2>4. ~Signal(u)
      BY <1>4, <1>6, <2>2 DEF Signal, Enabled
    <2> QED BY <1>0, <1>1, <1>3, <1>6, <2>2, <2>3, <2>4 DEF d
  <1>7. CASE ~f
    <2>1. v.reloaded = t.overflow
      BY <1>3 DEF TimerState
    <2> QED BY <1>0, <1>1, <1>3, <1>5, <1>7, <2>1 DEF d
  <1> QED BY <1>6, <1>7
-----------------------------------------------------------------------------
\* One M-cycle of a settled timer: reload if due, then count if a TIMA period
\* ends here.  x is what TIMA counts on from, f whether it counts.
LEMMA TickFields ==
  ASSUME NEW t, Settled(t), NEW u, u = Tick(t),
         NEW x, x = (IF t.overflow THEN t.tma ELSE t.tima),
         NEW f, f <=> EdgeDue(t)
  PROVE  /\ u \in TimerState /\ x \in Tima
         /\ u.div = NextDiv(t.div + 3) /\ u.div % 4 = 0
         /\ u.tma = t.tma /\ u.tac = t.tac
         /\ u.reloaded = t.overflow
         /\ f => ~Signal(u)
         /\ f => u.tima = Up(x) /\ u.delay = (IF Top(x) THEN 4 ELSE 0)
                 /\ (u.overflow <=> Top(x))
         /\ ~f => u.tima = x /\ u.delay = 0 /\ ~u.overflow
  <1> DEFINE a == [t EXCEPT !.reloaded = FALSE]
             b == Increment[a]
             c == Increment[b]
             e == Increment[c]
  <1>1. /\ t \in TimerState /\ t.div \in Nat /\ t.div % 4 = 0
        /\ t.delay \in {0, 4} /\ (t.overflow <=> t.delay = 4)
    BY TimerAssumption DEF Settled, TimerState
  <1>2. /\ a \in TimerState /\ ~a.reloaded
        /\ a.div = t.div /\ a.delay = t.delay /\ a.overflow = t.overflow
        /\ a.tima = t.tima /\ a.tma = t.tma /\ a.tac = t.tac
    BY <1>1 DEF TimerState
  <1>3. u = Increment[e]
    BY DEF Tick
  <1> HIDE DEF a
  <1>4. /\ b \in TimerState /\ b.reloaded = a.reloaded
        /\ b.div = t.div + 1 /\ b.delay = (IF t.delay = 0 THEN 0 ELSE 3)
        /\ b.overflow = t.overflow
        /\ b.tima = t.tima /\ b.tma = t.tma /\ b.tac = t.tac
    BY <1>1, <1>2, QuietIncrement
  <1> HIDE DEF b
  <1>5. /\ c \in TimerState /\ c.reloaded = a.reloaded
        /\ c.div = t.div + 2 /\ c.delay = (IF t.delay = 0 THEN 0 ELSE 2)
        /\ c.overflow = t.overflow
        /\ c.tima = t.tima /\ c.tma = t.tma /\ c.tac = t.tac
    BY <1>1, <1>4, QuietIncrement
  <1> HIDE DEF c
  <1>6. /\ e \in TimerState /\ e.reloaded = a.reloaded
        /\ e.div = t.div + 3 /\ e.delay = (IF t.delay = 0 THEN 0 ELSE 1)
        /\ e.overflow = t.overflow
        /\ e.tima = t.tima /\ e.tma = t.tma /\ e.tac = t.tac
    BY <1>1, <1>5, QuietIncrement
  <1> HIDE DEF e
  <1>7. /\ e.div % 4 = 3 /\ e.delay \in {0, 1} /\ ~e.reloaded
        /\ (e.overflow <=> e.delay = 1)
        /\ x = (IF e.overflow THEN e.tma ELSE e.tima)
    BY <1>1, <1>2, <1>6
  <1>8. f <=> (Enabled(e) /\ (e.div + 1) % (2 * HalfPeriod(e.tac % 4)) = 0)
    <2>1. e.div + 1 = t.div + 4
      BY <1>1, <1>6
    <2> QED BY <2>1, <1>6 DEF Enabled, EdgeDue
  <1>9. /\ u \in TimerState /\ x \in Tima
        /\ u.div = NextDiv(e.div) /\ u.div % 4 = 0
        /\ u.tma = e.tma /\ u.tac = e.tac
        /\ u.reloaded = e.overflow
        /\ f => ~Signal(u)
        /\ f => u.tima = Up(x) /\ u.delay = (IF Top(x) THEN 4 ELSE 0)
                /\ (u.overflow <=> Top(x))
        /\ ~f => u.tima = x /\ u.delay = 0 /\ ~u.overflow
    BY <1>3, <1>6, <1>7, <1>8, LastIncrement
  <1> QED BY <1>6, <1>9

\* Just after an edge of any rate no edge is due in the next M-cycle, and an
\* edge is due only while the signal is high.
LEMMA EdgeTiming ==
  ASSUME NEW t \in TimerState, t.div % 4 = 0
  PROVE  /\ t.div % 16 = 0 => ~EdgeDue(t)
         /\ EdgeDue(t) => Signal(t) /\ (t.div + 4) % 16 = 0
  <1> DEFINE d == t.div  k == t.tac % 4
  <1>0. d \in Nat /\ d % 4 = 0 /\ k \in 0 .. 3
    BY TimerAssumption DEF TimerState, Tac
  <1>1. EdgeDue(t) <=> Enabled(t) /\ (d + 4) % (2 * HalfPeriod(k)) = 0
    BY DEF EdgeDue
  <1>2. Signal(t) <=> Enabled(t) /\ Bit(d, k)
    BY DEF Signal, Bit
  <1> HIDE DEF d, k
  <1>3. /\ d % 16 = 0 => (d + 4) % (2 * HalfPeriod(k)) # 0
        /\ (d + 4) % (2 * HalfPeriod(k)) = 0 => Bit(d, k) /\ (d + 4) % 16 = 0
    <2>1. CASE k = 0
      <3>1. HalfPeriod(k) = 512 /\ (Bit(d, k) <=> (d \div 512) % 2 = 1)
        BY <2>1, <1>0, BitCases DEF HalfPeriod
      <3> QED BY <1>0, <3>1
    <2>2. CASE k = 1
      <3>1. HalfPeriod(k) = 8 /\ (Bit(d, k) <=> (d \div 8) % 2 = 1)
        BY <2>2, <1>0, BitCases DEF HalfPeriod
      <3> QED BY <1>0, <3>1
    <2>3. CASE k = 2
      <3>1. HalfPeriod(k) = 32 /\ (Bit(d, k) <=> (d \div 32) % 2 = 1)
        BY <2>3, <1>0, BitCases DEF HalfPeriod
      <3> QED BY <1>0, <3>1
    <2>4. CASE k = 3
      <3>1. HalfPeriod(k) = 128 /\ (Bit(d, k) <=> (d \div 128) % 2 = 1)
        BY <2>4, <1>0, BitCases DEF HalfPeriod
      <3> QED BY <1>0, <3>1
    <2> QED BY <1>0, <2>1, <2>2, <2>3, <2>4
  <1> QED BY <1>1, <1>2, <1>3 DEF d

\* The state every M-cycle starts in.
Steady(t) == Settled(t) /\ (t.overflow => ~EdgeDue(t))

\* The tick leaves the timer settled and reloads exactly a due overflow.  An
\* overflow of the tick itself was an edge: the signal is low after it and the
\* divider is at a multiple of 16, so no rate has an edge in the next M-cycle.
LEMMA TickSettled ==
  ASSUME NEW t, Steady(t), NEW u, u = Tick(t)
  PROVE  /\ Settled(u)
         /\ u.reloaded = t.overflow
         /\ u.tma = t.tma /\ u.tac = t.tac
         /\ u.overflow => ~Signal(u) /\ u.div % 16 = 0
         /\ u.reloaded => ~u.overflow /\ u.tima = u.tma
  <1> DEFINE x == IF t.overflow THEN t.tma ELSE t.tima
             f == EdgeDue(t)
  <1>0. Settled(t) /\ t \in TimerState /\ t.div % 4 = 0
        /\ t.div \in 0 .. DivSize - 1
    BY DEF Steady, Settled, TimerState
  <1>1. /\ u \in TimerState /\ u.div % 4 = 0 /\ u.div = NextDiv(t.div + 3)
        /\ u.tma = t.tma /\ u.tac = t.tac
        /\ u.reloaded = t.overflow
        /\ f => ~Signal(u)
        /\ f => u.tima = Up(x) /\ u.delay = (IF Top(x) THEN 4 ELSE 0)
                /\ (u.overflow <=> Top(x))
        /\ ~f => u.tima = x /\ u.delay = 0 /\ ~u.overflow
    <2> HIDE DEF x, f
    <2>1. /\ x = (IF t.overflow THEN t.tma ELSE t.tima)
          /\ f <=> EdgeDue(t)
      BY DEF x, f
    <2> QED BY <1>0, <2>1, TickFields
  <1>2. f => (t.div + 4) % 16 = 0
    BY <1>0, EdgeTiming
  <1>3. f => u.div % 16 = 0
    BY <1>0, <1>1, <1>2, TimerAssumption DEF NextDiv
  <1>4. t.overflow => ~f
    BY DEF Steady
  <1> HIDE DEF f
  <1>5. Settled(u)
    BY <1>1 DEF Settled, Up, Top
  <1>6. u.overflow => f
    BY <1>1
  <1>7. t.overflow => u.tima = t.tma
    BY <1>1, <1>4
  <1> QED BY <1>1, <1>3, <1>4, <1>5, <1>6, <1>7

\* A write that may glitch an edge keeps the timer settled: with a reload due
\* the signal was low, so there is no edge to count.
LEMMA GlitchSettled ==
  ASSUME NEW u, Settled(u), u.overflow => ~Signal(u),
         NEW v, Settled(v), v.overflow = u.overflow, v.tima = u.tima,
         v.tma = u.tma, v.reloaded = u.reloaded,
         NEW w, w = StepOnFall(Signal(u), v)
  PROVE  /\ Settled(w)
         /\ w.div = v.div /\ w.tac = v.tac
         /\ w.tma = u.tma /\ w.reloaded = u.reloaded
         /\ IF Signal(u) /\ ~Signal(v)
            THEN w.tima = Up(u.tima) /\ (w.overflow <=> Top(u.tima) \/ u.overflow)
            ELSE w.tima = u.tima /\ (w.overflow <=> u.overflow)
         /\ w.overflow => u.overflow \/ ~Signal(w)
  <1>1. CASE Signal(u) /\ ~Signal(v)
    <2>1. w = StepTima(v) /\ v \in TimerState /\ ~v.overflow
      BY <1>1 DEF StepOnFall, Settled
    <2>2. /\ w \in TimerState
          /\ w.div = v.div /\ w.tma = v.tma /\ w.tac = v.tac
          /\ w.reloaded = v.reloaded
          /\ w.tima = Up(v.tima)
          /\ w.delay = IF Top(v.tima) THEN 4 ELSE v.delay
          /\ w.overflow <=> (Top(v.tima) \/ v.overflow)
      BY <2>1, StepTimaFields
    <2>3. ~Signal(w)
      BY <1>1, <2>2 DEF Signal, Enabled
    <2> QED BY <1>1, <2>1, <2>2, <2>3 DEF Settled, Up, Top
  <1>2. CASE ~(Signal(u) /\ ~Signal(v))
    <2>1. w = v
      BY <1>2 DEF StepOnFall
    <2> QED BY <1>2, <2>1
  <1> QED BY <1>1, <1>2

(* A DIV write: the falling edge it makes itself counts once.                *)
LEMMA DivWriteSettled ==
  ASSUME NEW u, Settled(u), u.overflow => ~Signal(u), NEW w, w = DivWrite(u)
  PROVE  /\ Settled(w) /\ w.tma = u.tma /\ w.reloaded = u.reloaded
         /\ w.div = 0 /\ w.tac = u.tac
         /\ IF Signal(u)
            THEN w.tima = Up(u.tima) /\ (w.overflow <=> Top(u.tima) \/ u.overflow)
            ELSE w.tima = u.tima /\ (w.overflow <=> u.overflow)
  <1> DEFINE v == [u EXCEPT !.div = 0]
  <1>1. 0 \in 0 .. DivSize - 1
    BY TimerAssumption
  <1>2. /\ v \in TimerState /\ v.div = 0 /\ v.overflow = u.overflow
        /\ v.tima = u.tima /\ v.tma = u.tma /\ v.reloaded = u.reloaded
        /\ v.delay = u.delay /\ v.tac = u.tac
    BY <1>1 DEF Settled, TimerState
  <1>3. w = StepOnFall(Signal(u), v)
    BY DEF DivWrite
  <1> HIDE DEF v
  <1>4. Settled(v)
    BY <1>2 DEF Settled
  <1>5. ~Signal(v)
    <2>1. v.tac % 4 \in 0 .. 3
      BY <1>2 DEF TimerState, Tac
    <2>2. ~Bit(0, v.tac % 4)
      BY <2>1, BitCases
    <2> QED BY <1>2, <2>2 DEF Signal, Bit
  <1> QED BY <1>2, <1>3, <1>4, <1>5, GlitchSettled

(* A TAC write: the same, when the newly selected signal is low.             *)
LEMMA TacWriteSettled ==
  ASSUME NEW u, Settled(u), u.overflow => ~Signal(u),
         NEW c \in Tac, NEW w, w = TacWrite(u, c)
  PROVE  /\ Settled(w) /\ w.tma = u.tma /\ w.reloaded = u.reloaded
         /\ w.div = u.div /\ w.tac = c
         /\ IF Signal(u) /\ ~(c >= 4 /\ Bit(u.div, c % 4))
            THEN w.tima = Up(u.tima) /\ (w.overflow <=> Top(u.tima) \/ u.overflow)
            ELSE w.tima = u.tima /\ (w.overflow <=> u.overflow)
         /\ w.overflow => u.overflow \/ ~Signal(w)
  <1> DEFINE v == [u EXCEPT !.tac = c]
  <1>2. /\ v \in TimerState /\ v.div = u.div /\ v.overflow = u.overflow
        /\ v.tima = u.tima /\ v.tma = u.tma /\ v.reloaded = u.reloaded
        /\ v.delay = u.delay /\ v.tac = c
    BY DEF Settled, TimerState
  <1>3. w = StepOnFall(Signal(u), v)
    BY DEF TacWrite
  <1> HIDE DEF v
  <1>4. Settled(v)
    BY <1>2 DEF Settled
  <1>5. Signal(v) <=> c >= 4 /\ Bit(u.div, c % 4)
    BY <1>2 DEF Signal, Enabled, Bit
  <1> QED BY <1>2, <1>3, <1>4, <1>5, GlitchSettled

(* A TMA write: TIMA follows in the reload M-cycle only.                     *)
LEMMA TmaWriteSettled ==
  ASSUME NEW u, Settled(u), u.reloaded /\ u.overflow => FALSE,
         NEW c \in Tima, NEW w, w = TmaWrite(u, c)
  PROVE  /\ Settled(w) /\ w.tma = c /\ w.reloaded = u.reloaded
         /\ w.div = u.div /\ w.tac = u.tac
         /\ w.overflow = u.overflow
         /\ w.tima = IF u.reloaded THEN c ELSE u.tima
  <1> DEFINE ti == IF u.reloaded THEN c ELSE u.tima
  <1>1. ti \in Tima /\ u \in TimerState
    BY DEF Settled, TimerState
  <1>2. w = [u EXCEPT !.tma = c, !.tima = ti]
    BY DEF TmaWrite
  <1> HIDE DEF ti
  <1>3. /\ w \in TimerState /\ w.div = u.div /\ w.tac = u.tac
        /\ w.overflow = u.overflow /\ w.delay = u.delay
        /\ w.tima = ti /\ w.tma = c /\ w.reloaded = u.reloaded
    BY <1>1, <1>2 DEF TimerState
  <1>4. Settled(w)
    BY <1>3 DEF Settled, ti
  <1> QED BY <1>3, <1>4 DEF ti

(* A TIMA write: it cancels a reload that is due, and is lost in one.        *)
LEMMA TimaWriteSettled ==
  ASSUME NEW u, Settled(u), NEW c \in Tima, NEW w, w = TimaWrite(u, c)
  PROVE  /\ Settled(w) /\ w.tma = u.tma /\ w.reloaded = u.reloaded
         /\ w.div = u.div /\ w.tac = u.tac
         /\ u.reloaded => w = u
         /\ ~u.reloaded => w.tima = c /\ ~w.overflow
  <1>0. u \in TimerState /\ u.delay \in {0, 4} /\ (u.overflow <=> u.delay = 4)
        /\ u.div % 4 = 0
    BY DEF Settled
  <1>1. CASE u.reloaded
    BY <1>1 DEF TimaWrite
  <1>2. CASE ~u.reloaded /\ u.delay > 0
    <2> DEFINE de == 0  ov == FALSE
    <2>1. de \in 0 .. 4 /\ ov \in BOOLEAN
      OBVIOUS
    <2>2. w = [u EXCEPT !.delay = de, !.overflow = ov, !.tima = c]
      BY <1>2 DEF TimaWrite
    <2> HIDE DEF de, ov
    <2>3. /\ w \in TimerState /\ w.div = u.div /\ w.tac = u.tac
          /\ w.overflow = ov /\ w.delay = de
          /\ w.tima = c /\ w.tma = u.tma /\ w.reloaded = u.reloaded
      BY <1>0, <2>1, <2>2 DEF TimerState
    <2> QED BY <1>0, <1>2, <2>3 DEF Settled, de, ov
  <1>3. CASE ~u.reloaded /\ ~(u.delay > 0)
    <2>1. w = [u EXCEPT !.tima = c]
      BY <1>3 DEF TimaWrite
    <2>2. /\ w \in TimerState /\ w.div = u.div /\ w.tac = u.tac
          /\ w.overflow = u.overflow /\ w.delay = u.delay
          /\ w.tima = c /\ w.tma = u.tma /\ w.reloaded = u.reloaded
      BY <1>0, <2>1 DEF TimerState
    <2> QED BY <1>0, <1>3, <2>2 DEF Settled
  <1> QED BY <1>1, <1>2, <1>3
-----------------------------------------------------------------------------
\* An M-cycle that writes DIV, TMA, TIMA or TAC ends as steady as it began.
LEMMA WriteSteady ==
  ASSUME NEW u, Settled(u), u.overflow => ~Signal(u) /\ u.div % 16 = 0,
         u.reloaded => ~u.overflow
  PROVE  /\ Steady(u)
         /\ Steady(DivWrite(u))
         /\ \A v \in Tima : Steady(TimaWrite(u, v)) /\ Steady(TmaWrite(u, v))
         /\ \A v \in Tac : Steady(TacWrite(u, v))
  <1>0. \A w : Settled(w) => w \in TimerState /\ w.div % 4 = 0
    BY DEF Settled
  <1>1. ASSUME NEW w, Settled(w), w.overflow => w.div % 16 = 0 \/ ~Signal(w)
        PROVE  Steady(w)
    BY <1>0, <1>1, EdgeTiming DEF Steady
  <1>2. Steady(DivWrite(u))
    BY <1>1, DivWriteSettled
  <1>3. ASSUME NEW v \in Tima
        PROVE  Steady(TimaWrite(u, v)) /\ Steady(TmaWrite(u, v))
    <2>1. Steady(TimaWrite(u, v))
      BY <1>1, TimaWriteSettled
    <2>2. /\ Settled(TmaWrite(u, v))
          /\ TmaWrite(u, v).overflow = u.overflow
          /\ TmaWrite(u, v).div = u.div
      BY TmaWriteSettled
    <2> QED BY <1>1, <2>1, <2>2
  <1>4. ASSUME NEW v \in Tac PROVE Steady(TacWrite(u, v))
    <2> DEFINE w == TacWrite(u, v)
    <2>1. w = TacWrite(u, v)
      OBVIOUS
    <2> HIDE DEF w
    <2>2. /\ Settled(w) /\ w.div = u.div
          /\ w.overflow => u.overflow \/ ~Signal(w)
      BY <2>1, TacWriteSettled
    <2>3. Steady(w)
      BY <1>1, <2>2
    <2> QED BY <2>1, <2>3
  <1> QED BY <1>1, <1>2, <1>3, <1>4

(* TimerInv says that the timer is settled between M-cycles.                 *)
LEMMA InvIsSteady == TimerInv <=> Steady(timer) /\ irq \in BOOLEAN
  BY DEF TimerInv, TypeOK, DivAligned, DelayWhole, PendingReadsZero, ReloadAlone,
         Steady, Settled

\* TimerInv is inductive: every M-cycle preserves it.
LEMMA InvInductive == TimerInv /\ [Next]_vars => TimerInv'
  <1> SUFFICES ASSUME TimerInv, [Next]_vars PROVE TimerInv'
    OBVIOUS
  <1> DEFINE u == Tick(timer)
  <1>1. Steady(timer) /\ irq \in BOOLEAN
    BY InvIsSteady
  <1>2. /\ Settled(u) /\ u.reloaded \in BOOLEAN
        /\ u.overflow => ~Signal(u) /\ u.div % 16 = 0
        /\ u.reloaded => ~u.overflow
    <2>1. Settled(u) => u.reloaded \in BOOLEAN
      BY DEF Settled, TimerState
    <2> HIDE DEF u
    <2>2. u = Tick(timer)
      BY DEF u
    <2> QED BY <1>1, <2>1, <2>2, TickSettled
  <1>3. Raised \in BOOLEAN
    BY DEF Raised
  <1> HIDE DEF u
  <1>4. /\ Steady(u) /\ Steady(DivWrite(u))
        /\ \A v \in Tima : Steady(TimaWrite(u, v)) /\ Steady(TmaWrite(u, v))
        /\ \A v \in Tac : Steady(TacWrite(u, v))
    BY <1>2, WriteSteady
  <1>5. Steady(timer') /\ irq' \in BOOLEAN => TimerInv'
    BY DEF TimerInv, TypeOK, DivAligned, DelayWhole, PendingReadsZero,
           ReloadAlone, Steady, Settled
  <1>6. CASE Idle
    BY <1>3, <1>4, <1>5, <1>6 DEF Idle, u
  <1>7. CASE WriteDiv
    BY <1>3, <1>4, <1>5, <1>7 DEF WriteDiv, u
  <1>8. CASE WriteTima
    BY <1>3, <1>4, <1>5, <1>8 DEF WriteTima, u
  <1>9. CASE WriteTma
    BY <1>3, <1>4, <1>5, <1>9 DEF WriteTma, u
  <1>10. CASE WriteTac
    BY <1>3, <1>4, <1>5, <1>10 DEF WriteTac, u
  <1>11. CASE WriteIf
    BY <1>4, <1>5, <1>11 DEF WriteIf, u
  <1>12. CASE Acknowledge
    BY <1>4, <1>5, <1>12 DEF Acknowledge, u
  <1>13. CASE UNCHANGED vars
    BY <1>1, <1>5, <1>13 DEF vars
  <1> QED
    BY <1>6, <1>7, <1>8, <1>9, <1>10, <1>11, <1>12, <1>13 DEF Next

(* The timer at power-up.                                                    *)
LEMMA InitInv == Init => TimerInv
  <1> SUFFICES ASSUME Init PROVE TimerInv
    OBVIOUS
  <1>1. timer \in TimerState
    <2>1. 0 \in Tima /\ 0 \in Tac
      BY TimerAssumption DEF Tima, Tac
    <2> QED BY <2>1, TimerAssumption DEF Init, TimerState
  <1>2. /\ timer.div % 4 = 0 /\ timer.delay = 0 /\ ~timer.overflow
        /\ irq \in BOOLEAN
    BY TimerAssumption DEF Init
  <1> QED BY <1>1, <1>2 DEF TimerInv, TypeOK, DivAligned, DelayWhole,
             PendingReadsZero, ReloadAlone

\* Every program, at every M-cycle: DIV is aligned, a reload is due exactly as
\* both of timer.c's flags say, TIMA then reads 0, and no edge will meet the
\* reload.
THEOREM InvariantHolds == Spec => []TimerInv
  BY InitInv, InvInductive, PTL DEF Spec

\* The invariant the type run checks.
THEOREM TypeCorrect == Spec => []TypeOK
  <1>1. TimerInv => TypeOK
    BY DEF TimerInv
  <1> QED BY <1>1, InvariantHolds, PTL

\* A due reload and a TIMA edge never fall into the same M-cycle.
THEOREM ReloadIsAlone == Spec => []ReloadAlone
  <1>1. TimerInv => ReloadAlone
    BY DEF TimerInv
  <1> QED BY <1>1, InvariantHolds, PTL
-----------------------------------------------------------------------------
\* What every M-cycle does about a reload, whatever it writes.
LEMMA StepReloads ==
  ASSUME TimerInv, Next
  PROVE  /\ timer'.reloaded = timer.overflow
         /\ timer.overflow => Raised
         /\ timer'.reloaded => \/ timer'.tima = timer'.tma
                               \/ (WriteDiv \/ WriteTac) /\ Enabled(timer)
  <1> DEFINE u == Tick(timer)
  <1>1. /\ Settled(u) /\ u.reloaded = timer.overflow
        /\ u.overflow => ~Signal(u)
        /\ u.reloaded => ~u.overflow /\ u.tima = u.tma
        /\ u.tac = timer.tac
    <2>1. Steady(timer)
      BY InvIsSteady
    <2>2. u = Tick(timer)
      OBVIOUS
    <2> HIDE DEF u
    <2> QED BY <2>1, <2>2, TickSettled
  <1>2. timer.overflow => Raised
    BY <1>1 DEF Raised
  <1>3. Signal(u) => Enabled(timer)
    BY <1>1 DEF Signal, Enabled
  <1> HIDE DEF u
  <1>4. ASSUME timer' = u
        PROVE  /\ timer'.reloaded = timer.overflow
               /\ timer'.reloaded => timer'.tima = timer'.tma
    BY <1>1, <1>4
  <1>5. CASE Idle \/ WriteIf \/ Acknowledge
    BY <1>2, <1>4, <1>5 DEF Idle, WriteIf, Acknowledge, u
  <1>6. CASE WriteDiv
    <2>1. timer' = DivWrite(u)
      BY <1>6 DEF WriteDiv, u
    <2>2. /\ timer'.tma = u.tma /\ timer'.reloaded = u.reloaded
          /\ (Signal(u) \/ timer'.tima = u.tima)
      BY <2>1, <1>1, DivWriteSettled
    <2> QED BY <1>1, <1>2, <1>3, <1>6, <2>2
  <1>7. CASE WriteTac
    <2>1. PICK v \in Tac : timer' = TacWrite(u, v)
      BY <1>7 DEF WriteTac, u
    <2>2. /\ timer'.tma = u.tma /\ timer'.reloaded = u.reloaded
          /\ (Signal(u) \/ timer'.tima = u.tima)
      BY <2>1, <1>1, TacWriteSettled
    <2> QED BY <1>1, <1>2, <1>3, <1>7, <2>2
  <1>8. CASE WriteTima
    <2>1. PICK v \in Tima : timer' = TimaWrite(u, v)
      BY <1>8 DEF WriteTima, u
    <2>2. /\ timer'.reloaded = u.reloaded
          /\ u.reloaded => timer' = u
      BY <2>1, <1>1, TimaWriteSettled
    <2> QED BY <1>1, <1>2, <2>2
  <1>9. CASE WriteTma
    <2>1. PICK v \in Tima : timer' = TmaWrite(u, v)
      BY <1>9 DEF WriteTma, u
    <2>2. /\ timer'.tma = v /\ timer'.reloaded = u.reloaded
          /\ timer'.tima = IF u.reloaded THEN v ELSE u.tima
      BY <2>1, <1>1, TmaWriteSettled
    <2> QED BY <1>1, <1>2, <2>2
  <1> QED BY <1>5, <1>6, <1>7, <1>8, <1>9 DEF Next

\* A TIMA write can cancel a reload only in the overflow M-cycle: an M-cycle
\* that starts with the reload due reloads and requests the interrupt.
THEOREM Punctual == Spec => ReloadIsPunctual
  <1>1. ASSUME TimerInv, Next
        PROVE  timer.overflow => timer'.reloaded
                                 /\ (irq' \/ Acknowledge \/ WriteIf)
    <2>1. timer'.reloaded = timer.overflow /\ (timer.overflow => Raised)
      BY <1>1, StepReloads
    <2> SUFFICES ASSUME timer.overflow, Raised
                 PROVE  irq' \/ Acknowledge \/ WriteIf
      BY <2>1
    <2> QED
      BY <1>1 DEF Next, Idle, WriteDiv, WriteTima, WriteTma, WriteTac
  <1>2. TimerInv /\ [Next]_vars
          => [timer.overflow => timer'.reloaded
                                /\ (irq' \/ Acknowledge \/ WriteIf)]_vars
    BY <1>1
  <1> QED BY <1>2, InvariantHolds, PTL DEF Spec, ReloadIsPunctual

\* The reload M-cycle leaves TIMA equal to TMA unless a DIV or TAC write in it
\* counts one further.
THEOREM TakesTma == Spec => ReloadTakesTma
  <1>1. TimerInv /\ [Next]_vars
          => [timer'.reloaded => \/ timer'.tima = timer'.tma
                                 \/ (WriteDiv \/ WriteTac) /\ Enabled(timer)]_vars
    BY StepReloads
  <1> QED BY <1>1, InvariantHolds, PTL DEF Spec, ReloadTakesTma

\* No timer request without an overflow in an earlier M-cycle.
THEOREM NoSpurious == Spec => NoSpuriousRequest
  <1>1. ASSUME TimerInv, Next, ~irq, irq' PROVE timer.overflow \/ WriteIf
    <2>1. Steady(timer)
      BY <1>1, InvIsSteady
    <2>2. Tick(timer).reloaded = timer.overflow
      BY <2>1, TickSettled
    <2>3. Raised => timer.overflow
      BY <1>1, <2>2 DEF Raised
    <2> QED BY <1>1, <2>3 DEF Next, Idle, WriteDiv, WriteTima, WriteTma,
                               WriteTac, Acknowledge
  <1>2. TimerInv /\ [Next]_vars
          => [~irq /\ irq' => timer.overflow \/ WriteIf]_vars
    BY <1>1
  <1> QED BY <1>2, InvariantHolds, PTL DEF Spec, NoSpuriousRequest
-----------------------------------------------------------------------------
\* The T-cycle timer implements TimerAbs.

\* DIV bits and edges against the rate divider counted in M-cycles.
LEMMA RateCases ==
  ASSUME NEW d \in Nat, d % 4 = 0, NEW k \in 0 .. 3, NEW m, m = d \div 4
  PROVE  /\ Bit(d, k) <=> 2 * (m % Abs!Period(k)) >= Abs!Period(k)
         /\ d % (2 * HalfPeriod(k)) = 0 <=> m % Abs!Period(k) = 0
  <1>1. CASE k = 0
    <2>1. HalfPeriod(k) = 512 /\ (Bit(d, k) <=> (d \div 512) % 2 = 1)
          /\ Abs!Period(k) = 256
      BY <1>1, BitCases DEF HalfPeriod, Abs!Period
    <2> QED BY <2>1
  <1>2. CASE k = 1
    <2>1. HalfPeriod(k) = 8 /\ (Bit(d, k) <=> (d \div 8) % 2 = 1)
          /\ Abs!Period(k) = 4
      BY <1>2, BitCases DEF HalfPeriod, Abs!Period
    <2> QED BY <2>1
  <1>3. CASE k = 2
    <2>1. HalfPeriod(k) = 32 /\ (Bit(d, k) <=> (d \div 32) % 2 = 1)
          /\ Abs!Period(k) = 16
      BY <1>3, BitCases DEF HalfPeriod, Abs!Period
    <2> QED BY <2>1
  <1>4. CASE k = 3
    <2>1. HalfPeriod(k) = 128 /\ (Bit(d, k) <=> (d \div 128) % 2 = 1)
          /\ Abs!Period(k) = 64
      BY <1>4, BitCases DEF HalfPeriod, Abs!Period
    <2> QED BY <2>1
  <1> QED BY <1>1, <1>2, <1>3, <1>4

\* The divider wraps in both clocks at once.
LEMMA NextMDivIs ==
  ASSUME NEW t, t = timer, Settled(t)
  PROVE  /\ NextDiv(t.div + 3) \in Nat
         /\ NextDiv(t.div + 3) % 4 = 0
         /\ NextDiv(t.div + 3) \div 4 = Abs!NextMDiv
         /\ (t.div + 4) % 1024 = NextDiv(t.div + 3) % 1024
  <1>1. t.div \in 0 .. DivSize - 1 /\ t.div % 4 = 0
    BY DEF Settled, TimerState
  <1>2. Abs!NextMDiv = IF t.div \div 4 = (DivSize \div 4) - 1 THEN 0
                       ELSE (t.div \div 4) + 1
    BY DEF Abs!NextMDiv
  <1> QED BY <1>1, <1>2, TimerAssumption DEF NextDiv

(* The edge of the abstract period counter is the falling edge of the bit.   *)
LEMMA CountsIsEdge == ASSUME Settled(timer) PROVE Abs!Counts <=> EdgeDue(timer)
  <1> DEFINE k == timer.tac % 4
             d == timer.div + 4
             n == NextDiv(timer.div + 3)
  <1>1. /\ k \in 0 .. 3 /\ d \in Nat /\ d % 4 = 0
        /\ n \in Nat /\ n % 4 = 0 /\ n \div 4 = Abs!NextMDiv
        /\ d % 1024 = n % 1024
    <2>1. timer.tac % 4 \in 0 .. 3 /\ timer.div \in Nat /\ timer.div % 4 = 0
      BY TimerAssumption DEF Settled, TimerState, Tac
    <2> QED BY <2>1, NextMDivIs
  <1>2. Abs!Counts <=> Enabled(timer) /\ Abs!NextMDiv % Abs!Period(k) = 0
    BY DEF Abs!Counts, Enabled
  <1>3. EdgeDue(timer) <=> Enabled(timer) /\ d % (2 * HalfPeriod(k)) = 0
    BY DEF EdgeDue
  <1> HIDE DEF k, d, n
  <1>4. n % (2 * HalfPeriod(k)) = 0 <=> Abs!NextMDiv % Abs!Period(k) = 0
    BY <1>1, RateCases
  <1>5. d % (2 * HalfPeriod(k)) = 0 <=> n % (2 * HalfPeriod(k)) = 0
    <2>1. HalfPeriod(k) \in {512, 8, 32, 128}
      BY <1>1 DEF HalfPeriod
    <2> QED BY <1>1, <2>1
  <1> QED BY <1>2, <1>3, <1>4, <1>5

\* The tick in the terms of TimerAbs.
LEMMA TickAbs ==
  ASSUME TimerInv, NEW u, u = Tick(timer)
  PROVE  /\ Settled(u) /\ (u.overflow => ~Signal(u))
         /\ u.reloaded = timer.overflow
         /\ u.reloaded => ~u.overflow /\ u.tima = u.tma
         /\ u.tma = timer.tma /\ u.tac = timer.tac
         /\ u.tima = Abs!TickedTima /\ (u.overflow <=> Abs!TickedDue)
         /\ u.div \div 4 = Abs!NextMDiv
         /\ \A c \in Tac : Abs!Half(Abs!NextMDiv, c)
                             <=> c >= 4 /\ Bit(u.div, c % 4)
         /\ Signal(u) <=> Abs!Half(Abs!NextMDiv, timer.tac)
         /\ Raised <=> (irq \/ timer.overflow)
  <1> DEFINE x == Abs!Loaded  f == Abs!Counts
  <1>1. Steady(timer) /\ Settled(timer)
    BY InvIsSteady DEF Steady
  <1>2. /\ Settled(u) /\ (u.overflow => ~Signal(u))
        /\ u.reloaded = timer.overflow
        /\ u.reloaded => ~u.overflow /\ u.tima = u.tma
        /\ u.tma = timer.tma /\ u.tac = timer.tac
    BY <1>1, TickSettled
  <1>3. /\ u.div = NextDiv(timer.div + 3)
        /\ f => u.tima = Up(x) /\ (u.overflow <=> Top(x))
        /\ ~f => u.tima = x /\ ~u.overflow
    <2>1. x = (IF timer.overflow THEN timer.tma ELSE timer.tima)
      BY DEF Abs!Loaded
    <2>2. f <=> EdgeDue(timer)
      BY <1>1, CountsIsEdge
    <2> HIDE DEF x, f
    <2> QED BY <1>1, <2>1, <2>2, TickFields
  <1>4. u.tima = Abs!TickedTima /\ (u.overflow <=> Abs!TickedDue)
    BY <1>3 DEF Abs!TickedTima, Abs!TickedDue, Abs!Up, Abs!Top, Up, Top
  <1>5. u.div \in Nat /\ u.div % 4 = 0 /\ u.div \div 4 = Abs!NextMDiv
    BY <1>1, <1>3, NextMDivIs
  <1>6. ASSUME NEW c \in Tac
        PROVE  Abs!Half(Abs!NextMDiv, c) <=> c >= 4 /\ Bit(u.div, c % 4)
    <2>1. c % 4 \in 0 .. 3
      BY DEF Tac
    <2>2. Bit(u.div, c % 4) <=> 2 * (Abs!NextMDiv % Abs!Period(c % 4))
                                  >= Abs!Period(c % 4)
      BY <2>1, <1>5, RateCases
    <2> QED BY <2>2 DEF Abs!Half
  <1>7. Signal(u) <=> Abs!Half(Abs!NextMDiv, timer.tac)
    <2>1. timer.tac \in Tac
      BY <1>1 DEF Settled, TimerState
    <2> QED BY <1>2, <1>6, <2>1 DEF Signal, Enabled, Bit
  <1>8. Raised <=> (irq \/ timer.overflow)
    BY <1>2 DEF Raised
  <1> QED BY <1>2, <1>4, <1>5, <1>6, <1>7, <1>8

\* Every M-cycle of the timer is one of TimerAbs.
LEMMA StepRefines == ASSUME TimerInv, Next PROVE Abs!Next
  <1> DEFINE u == Tick(timer)
  <1>1. /\ Settled(u) /\ (u.overflow => ~Signal(u))
        /\ u.reloaded = timer.overflow
        /\ u.reloaded => ~u.overflow /\ u.tima = u.tma
        /\ u.tma = timer.tma /\ u.tac = timer.tac
        /\ u.tima = Abs!TickedTima /\ (u.overflow <=> Abs!TickedDue)
        /\ u.div \div 4 = Abs!NextMDiv
        /\ \A c \in Tac : Abs!Half(Abs!NextMDiv, c)
                            <=> c >= 4 /\ Bit(u.div, c % 4)
        /\ Signal(u) <=> Abs!Half(Abs!NextMDiv, timer.tac)
        /\ Raised <=> (irq \/ timer.overflow)
    <2>1. u = Tick(timer)
      OBVIOUS
    <2> HIDE DEF u
    <2> QED BY <2>1, TickAbs
  <1>2. irq \in BOOLEAN /\ timer.overflow \in BOOLEAN /\ Raised \in BOOLEAN
    BY DEF TimerInv, TypeOK, TimerState, Raised
  <1>3. Raised = (irq \/ timer.overflow)
    BY <1>1, <1>2
  <1> HIDE DEF u
  <1>4. CASE Idle
    <2>1. timer' = u /\ irq' = Raised
      BY <1>4 DEF Idle, u
    <2>2. Abs!Idle
      BY <1>1, <1>3, <2>1 DEF Abs!Idle, Abs!Cycle
    <2> QED BY <2>2 DEF Abs!Next
  <1>5. CASE WriteIf \/ Acknowledge
    <2>1. timer' = u /\ irq' \in BOOLEAN
      BY <1>5 DEF WriteIf, Acknowledge, u
    <2>2. Abs!SetIrq
      BY <1>1, <2>1 DEF Abs!SetIrq
    <2> QED BY <2>2 DEF Abs!Next
  <1>6. CASE WriteDiv
    <2>1. timer' = DivWrite(u) /\ irq' = Raised
      BY <1>6 DEF WriteDiv, u
    <2>2. /\ timer'.tma = u.tma /\ timer'.reloaded = u.reloaded
          /\ timer'.div = 0 /\ timer'.tac = u.tac
          /\ IF Signal(u)
             THEN /\ timer'.tima = Up(u.tima)
                  /\ timer'.overflow <=> Top(u.tima) \/ u.overflow
             ELSE timer'.tima = u.tima /\ (timer'.overflow <=> u.overflow)
      BY <1>1, <2>1, DivWriteSettled
    <2>3. timer'.div \div 4 = 0
      BY <2>2
    <2>4. Abs!CycleAndGlitch(Abs!Half(Abs!NextMDiv, timer.tac))
      BY <1>1, <1>3, <2>1, <2>2
         DEF Abs!CycleAndGlitch, Abs!Cycle, Abs!Up, Abs!Top, Up, Top
    <2>5. Abs!RestartDivider
      BY <1>1, <2>2, <2>3, <2>4 DEF Abs!RestartDivider
    <2> QED BY <2>5 DEF Abs!Next
  <1>7. CASE WriteTac
    <2>1. PICK c \in Tac : timer' = TacWrite(u, c) /\ irq' = Raised
      BY <1>7 DEF WriteTac, u
    <2>2. /\ timer'.tma = u.tma /\ timer'.reloaded = u.reloaded
          /\ timer'.div = u.div /\ timer'.tac = c
          /\ IF Signal(u) /\ ~(c >= 4 /\ Bit(u.div, c % 4))
             THEN /\ timer'.tima = Up(u.tima)
                  /\ timer'.overflow <=> Top(u.tima) \/ u.overflow
             ELSE timer'.tima = u.tima /\ (timer'.overflow <=> u.overflow)
      BY <1>1, <2>1, TacWriteSettled
    <2>3. Abs!CycleAndGlitch(Abs!Half(Abs!NextMDiv, timer.tac)
                             /\ ~Abs!Half(Abs!NextMDiv, c))
      BY <1>1, <1>3, <2>1, <2>2
         DEF Abs!CycleAndGlitch, Abs!Cycle, Abs!Up, Abs!Top, Up, Top
    <2>4. Abs!SetTac
      BY <1>1, <2>1, <2>2, <2>3 DEF Abs!SetTac, Tac
    <2> QED BY <2>4 DEF Abs!Next
  <1>8. CASE WriteTima
    <2>1. PICK c \in Tima : timer' = TimaWrite(u, c) /\ irq' = Raised
      BY <1>8 DEF WriteTima, u
    <2>2. /\ timer'.tma = u.tma /\ timer'.reloaded = u.reloaded
          /\ timer'.div = u.div /\ timer'.tac = u.tac
          /\ u.reloaded => timer' = u
          /\ ~u.reloaded => timer'.tima = c /\ ~timer'.overflow
      BY <1>1, <2>1, TimaWriteSettled
    <2>3. IF timer.overflow
          THEN Abs!Cycle(Abs!TickedTima, Abs!TickedDue)
          ELSE \E v \in 0 .. TimaSize - 1 : Abs!Cycle(v, FALSE)
      BY <1>1, <1>3, <2>1, <2>2 DEF Abs!Cycle, Tima
    <2>4. Abs!SetTima
      BY <1>1, <2>2, <2>3 DEF Abs!SetTima
    <2> QED BY <2>4 DEF Abs!Next
  <1>9. CASE WriteTma
    <2>1. PICK c \in Tima : timer' = TmaWrite(u, c) /\ irq' = Raised
      BY <1>9 DEF WriteTma, u
    <2>2. /\ timer'.tma = c /\ timer'.reloaded = u.reloaded
          /\ timer'.div = u.div /\ timer'.tac = u.tac
          /\ timer'.overflow = u.overflow
          /\ timer'.tima = IF u.reloaded THEN c ELSE u.tima
      BY <1>1, <2>1, TmaWriteSettled
    <2>3. Abs!SetTma
      BY <1>1, <1>3, <2>1, <2>2 DEF Abs!SetTma, Abs!Cycle, Tima
    <2> QED BY <2>3 DEF Abs!Next
  <1> QED BY <1>4, <1>5, <1>6, <1>7, <1>8, <1>9 DEF Next

\* src/timer.c seen a whole M-cycle at a time is TimerAbs: T-cycle loop,
\* falling-edge detector and reload delay are invisible to a program.
THEOREM Refinement == Spec => ImplementsTimerAbs
  <1>1. Init => Abs!Init
    BY DEF Init, Abs!Init
  <1>2. TimerInv /\ [Next]_vars => [Abs!Next]_Abs!vars
    <2>1. CASE Next
      BY <2>1, StepRefines
    <2>2. CASE UNCHANGED vars
      BY <2>2 DEF vars, Abs!vars
    <2> QED BY <2>1, <2>2
  <1> QED BY <1>1, <1>2, InvariantHolds, PTL DEF Spec, ImplementsTimerAbs
=============================================================================
