----------------------------- MODULE ApuProofs -----------------------------
(***************************************************************************)
(* Proofs about Apu for any number of channels, any length counters and    *)
(* any size of the divider.                                                *)
(***************************************************************************)
EXTENDS Apu, TLAPS

\* What the invariants say of one channel, f being the channels never triggered.
Sound(x, c, f) == /\ x \in Channel /\ x.len <= LenMax[c]
                  /\ x.on => x.dac
                  /\ x.on /\ x.len = 0 => c \in f

Silent(x) == ~x.dac /\ ~x.lenEn

SoundChans(t, f) == t \in [Chans -> Channel] /\ \A c \in Chans : Sound(t[c], c, f)

IInv == ApuInv /\ LengthLeft

\* The invariant, channel by channel.
LEMMA ByChannel ==
  IInv <=> /\ apu \in ApuState /\ clock \in Clock /\ fresh \subseteq Chans
           /\ SoundChans(ch, fresh)
           /\ ~apu.power => \A c \in Chans : Silent(ch[c])
  BY DEF IInv, ApuInv, TypeOK, OnlyPoweredSound, LengthsFit, LengthLeft, SoundChans,
         Sound, Silent

\* A clocked length counter that runs out takes its channel with it.
LEMMA ClockedEffect ==
  ASSUME NEW c \in Chans, NEW f, NEW x, Sound(x, c, f)
  PROVE  Sound(LengthClocked(x), c, f)
  <1>1. x \in Channel /\ x.len \in Nat /\ LenMax[c] \in Nat
    BY ApuAssumption DEF Sound, Channel
  <1> DEFINE n == x.len - 1
             b == x.on /\ x.len # 1
  <1>2. IF x.lenEn /\ x.len > 0
        THEN LengthClocked(x) = [x EXCEPT !.len = n, !.on = b] ELSE LengthClocked(x) = x
    BY DEF LengthClocked
  <1>3. x.len > 0 => n \in Nat /\ n <= LenMax[c] /\ (b => x.on /\ n # 0)
    BY <1>1 DEF Sound
  <1>4. b \in BOOLEAN
    OBVIOUS
  <1> HIDE DEF n, b
  <1> QED BY <1>1, <1>2, <1>3, <1>4 DEF Sound, Channel

\* The extra clock of an enabling write does the same, unless a trigger follows.
LEMMA EnabledEffect ==
  ASSUME NEW c \in Chans, NEW f, NEW x, Sound(x, c, f),
         NEW en \in BOOLEAN, NEW trig \in BOOLEAN, NEW a
  PROVE  /\ Enabled(x, en, trig, a) \in Channel
         /\ Enabled(x, en, trig, a).len <= LenMax[c]
         /\ ~trig => Sound(Enabled(x, en, trig, a), c, f)
  <1> DEFINE e == ~x.lenEn /\ en /\ ~NextStepClocksLen(a) /\ x.len > 0
             n == IF e THEN x.len - 1 ELSE x.len
             b == x.on /\ ~(e /\ x.len = 1 /\ ~trig)
             y == Enabled(x, en, trig, a)
  <1>1. x \in Channel /\ x.len \in Nat /\ LenMax[c] \in Nat /\ x.len <= LenMax[c]
    BY ApuAssumption DEF Sound, Channel
  <1>2. y = [x EXCEPT !.lenEn = en, !.len = n, !.on = b]
    BY DEF Enabled
  <1>3. e => x.len > 0
    OBVIOUS
  <1>4. b \in BOOLEAN /\ (b => x.on) /\ (b /\ ~trig => ~(e /\ x.len = 1))
    OBVIOUS
  <1> HIDE DEF e
  <1>5. n \in Nat /\ n <= LenMax[c] /\ (n = 0 => x.len = 0 \/ (e /\ x.len = 1))
    BY <1>1, <1>3
  <1> HIDE DEF n, b, y
  <1>6. y \in Channel /\ y.dac = x.dac /\ y.len = n /\ y.on = b
    BY <1>1, <1>2, <1>4, <1>5 DEF Channel
  <1>7. ASSUME ~trig PROVE Sound(y, c, f)
    <2>1. b /\ n = 0 => x.on /\ x.len = 0
      BY <1>4, <1>5, <1>7
    <2>2. b => x.dac
      BY <1>4 DEF Sound
    <2>3. x.on /\ x.len = 0 => c \in f
      BY DEF Sound
    <2> QED BY <1>5, <1>6, <2>1, <2>2, <2>3 DEF Sound
  <1> QED BY <1>5, <1>6, <1>7 DEF y

\* A trigger leaves a length in any case.
LEMMA TriggeredEffect ==
  ASSUME NEW c \in Chans, NEW f, NEW x, x \in Channel, x.len <= LenMax[c],
         NEW kill \in BOOLEAN, NEW a
  PROVE  Sound(Triggered(x, LenMax[c], kill, a), c, f)
  <1> DEFINE m == IF x.lenEn /\ ~NextStepClocksLen(a) THEN LenMax[c] - 1 ELSE LenMax[c]
             y == Triggered(x, LenMax[c], kill, a)
  <1>1. x.len \in Nat /\ LenMax[c] \in Nat /\ LenMax[c] > 1
    BY ApuAssumption DEF Channel
  <1>2. m \in Nat /\ m > 0 /\ m <= LenMax[c]
    BY <1>1
  <1> DEFINE n == IF x.len # 0 THEN x.len ELSE m
             b == x.dac /\ ~kill
  <1>3. y = [x EXCEPT !.on = b, !.len = n]
    BY DEF Triggered
  <1>4. n \in Nat /\ n # 0 /\ n <= LenMax[c]
    BY <1>1, <1>2
  <1>5. b \in BOOLEAN /\ (b => x.dac)
    OBVIOUS
  <1> HIDE DEF n, b, m, y
  <1>6. y \in Channel /\ y.on = b /\ y.dac = x.dac /\ y.len = n
    BY <1>3, <1>4, <1>5 DEF Channel
  <1>7. Sound(y, c, f)
    BY <1>4, <1>5, <1>6 DEF Sound
  <1> QED BY <1>7 DEF y

\* A tick keeps the channels sound, with any divider, and does nothing to them while
\* the power is off.
LEMMA TickEffect ==
  ASSUME IInv, NEW k \in Clock, NEW kill \in BOOLEAN
  PROVE  /\ TickedApu(k) \in ApuState /\ TickedApu(k).power = apu.power
         /\ SoundChans(TickedCh(k, kill), fresh)
         /\ ~apu.power => TickedCh(k, kill) = ch
  <1>1. apu \in ApuState /\ SoundChans(ch, fresh)
    BY ByChannel
  <1>2. TickedApu(k) \in ApuState /\ TickedApu(k).power = apu.power
    <2> DEFINE b == Bit(k)
               n == IF Steps(k) THEN (apu.fs + 1) % 8 ELSE apu.fs
    <2>1. b \in BOOLEAN /\ n \in 0 .. 7
      BY <1>1 DEF Bit, ApuState
    <2>2. TickedApu(k) = [apu EXCEPT !.prev = b, !.fs = n]
      BY DEF TickedApu
    <2> HIDE DEF b, n
    <2> QED BY <1>1, <2>1, <2>2 DEF ApuState
  <1>3. ASSUME NEW n \in 0 .. 7
        PROVE  SoundChans(SteppedCh(n, kill), fresh)
    <2> DEFINE x(c) == IF n % 2 = 0 THEN LengthClocked(ch[c]) ELSE ch[c]
               y(c) == [x(c) EXCEPT !.on = x(c).on /\ ~(kill /\ c = SweepChan /\ n \in {2, 6})]
    <2>1. ASSUME NEW c \in Chans
          PROVE  y(c) \in Channel /\ Sound(y(c), c, fresh)
      <3>1. Sound(x(c), c, fresh)
        BY <1>1, ClockedEffect DEF SoundChans
      <3> HIDE DEF x
      <3> QED BY <3>1 DEF Sound, Channel
    <2>2. SteppedCh(n, kill) = [c \in Chans |-> y(c)]
      BY DEF SteppedCh
    <2> HIDE DEF y
    <2> QED BY <2>1, <2>2 DEF SoundChans
  <1>4. (apu.fs + 1) % 8 \in 0 .. 7
    BY <1>1 DEF ApuState
  <1>5. SoundChans(TickedCh(k, kill), fresh)
    BY <1>1, <1>3, <1>4 DEF TickedCh
  <1>6. ~apu.power => TickedCh(k, kill) = ch
    BY DEF TickedCh, Steps
  <1> QED BY <1>2, <1>5, <1>6

\* The divider wraps, and a speed switch does not move it.
LEMMA ClockEffect ==
  ASSUME clock \in Clock
  PROVE  /\ Counted(clock) \in Clock
         /\ Counted([clock EXCEPT !.fast = ~@]) \in Clock
  <1>1. Half \in Nat /\ Half > 0
    BY ApuAssumption
  <1>2. ASSUME NEW k \in Clock
        PROVE  Counted(k) \in Clock
    <2> DEFINE n == IF k.div = 4 * Half - 1 THEN 0 ELSE k.div + 1
    <2>1. n \in 0 .. 4 * Half - 1
      BY <1>1 DEF Clock
    <2>2. Counted(k) = [k EXCEPT !.div = n]
      BY DEF Counted
    <2> HIDE DEF n
    <2> QED BY <2>1, <2>2 DEF Clock
  <1>3. [clock EXCEPT !.fast = ~@] \in Clock
    <2> DEFINE b == ~clock.fast
    <2>1. b \in BOOLEAN
      OBVIOUS
    <2>2. [clock EXCEPT !.fast = ~@] = [clock EXCEPT !.fast = b]
      OBVIOUS
    <2> HIDE DEF b
    <2>3. [clock EXCEPT !.fast = b] \in Clock
      BY <2>1 DEF Clock
    <2> QED BY <2>2, <2>3
  <1> QED BY <1>2, <1>3

\* apu_init: only the channel with the sweep sounds, with its DAC and its power.
LEMMA InitHolds == Init => IInv
  <1> SUFFICES ASSUME Init PROVE IInv OBVIOUS
  <1>1. apu \in ApuState /\ apu.power
    BY DEF Init, ApuState
  <1>2. clock \in Clock /\ fresh = Chans
    BY ApuAssumption DEF Init, Clock
  <1>3. SoundChans(ch, fresh)
    <2>1. ASSUME NEW c \in Chans
          PROVE  ch[c] \in Channel /\ Sound(ch[c], c, fresh)
      <3>1. ch[c] = [on |-> c = SweepChan, dac |-> c = SweepChan, lenEn |-> FALSE, len |-> 0]
        BY DEF Init
      <3>2. LenMax[c] \in Nat
        BY ApuAssumption
      <3> QED BY <1>2, <3>1, <3>2 DEF Channel, Sound
    <2> QED BY <2>1 DEF Init, SoundChans
  <1> QED BY <1>1, <1>2, <1>3, ByChannel

\* Every M-cycle keeps the invariant: the tick first, then the write.
LEMMA MCycleHolds ==
  ASSUME IInv, NEW k \in Clock, NEW kill \in BOOLEAN, MCycle(k, TickedCh(k, kill))
  PROVE  IInv'
  <1> DEFINE t == TickedCh(k, kill)
             a == TickedApu(k)
  <1>1. /\ a \in ApuState /\ a.power = apu.power /\ SoundChans(t, fresh)
        /\ ~apu.power => \A c \in Chans : Silent(t[c])
    BY TickEffect, ByChannel
  <1>2. fresh \subseteq Chans
    BY ByChannel
  <1>3. MCycle(k, t)
    OBVIOUS
  <1> HIDE DEF t, a
  <1>4. SUFFICES /\ apu' \in ApuState /\ clock' \in Clock /\ fresh' \subseteq Chans
                 /\ SoundChans(ch', fresh')
                 /\ ~apu'.power => \A c \in Chans : Silent(ch'[c])
    BY ByChannel DEF IInv, ApuInv, TypeOK, OnlyPoweredSound, LengthsFit, LengthLeft,
                     SoundChans, Sound, Silent
  <1>5. CASE Idle(k, t)
    BY <1>1, <1>2, <1>5 DEF Idle, a
  <1>6. CASE WriteLength(k, t)
    <2>1. PICK c \in Chans : \E n \in 1 .. LenMax[c] : ch' = [t EXCEPT ![c].len = n]
      BY <1>6 DEF WriteLength
    <2>2. PICK n \in 1 .. LenMax[c] : ch' = [t EXCEPT ![c].len = n]
      BY <2>1
    <2>3. ch' = [t EXCEPT ![c] = [t[c] EXCEPT !.len = n]] /\ n \in Nat /\ n > 0 /\ n <= LenMax[c]
      BY <2>2, ApuAssumption
    <2>4. LET y == [t[c] EXCEPT !.len = n] IN
          Sound(y, c, fresh) /\ y.dac = t[c].dac /\ y.lenEn = t[c].lenEn
      BY <1>1, <2>3, ApuAssumption DEF SoundChans, Sound, Channel
    <2>5. SoundChans(ch', fresh) /\ (~apu.power => \A d \in Chans : Silent(ch'[d]))
      BY <1>1, <2>3, <2>4 DEF SoundChans, Sound, Silent
    <2> QED BY <1>1, <1>2, <1>6, <2>5 DEF WriteLength, a
  <1>7. CASE WriteDac(k, t)
    <2>1. PICK c \in Chans, b \in BOOLEAN : ch' = [t EXCEPT ![c].dac = b, ![c].on = @ /\ b]
      BY <1>7 DEF WriteDac
    <2>2. ch' = [t EXCEPT ![c] = [t[c] EXCEPT !.dac = b, !.on = t[c].on /\ b]]
      BY <1>1, <2>1 DEF SoundChans, Sound, Channel
    <2>3. Sound([t[c] EXCEPT !.dac = b, !.on = t[c].on /\ b], c, fresh)
      BY <1>1 DEF SoundChans, Sound, Channel
    <2>4. SoundChans(ch', fresh)
      BY <1>1, <2>2, <2>3 DEF SoundChans, Sound
    <2> QED BY <1>1, <1>2, <1>7, <2>4 DEF WriteDac, a
  <1>8. CASE WriteEnable(k, t)
    <2>1. PICK c \in Chans, en \in BOOLEAN :
            ch' = [t EXCEPT ![c] = Enabled(t[c], en, FALSE, a)]
      BY <1>8 DEF WriteEnable, a
    <2>2. Sound(t[c], c, fresh)
      BY <1>1 DEF SoundChans
    <2>3. Sound(Enabled(t[c], en, FALSE, a), c, fresh)
      BY <2>2, EnabledEffect
    <2>4. SoundChans(ch', fresh)
      BY <1>1, <2>1, <2>3 DEF SoundChans, Sound
    <2> QED BY <1>1, <1>2, <1>8, <2>4 DEF WriteEnable, a
  <1>9. CASE WriteTrigger(k, t)
    <2>1. PICK c \in Chans, en \in BOOLEAN, over \in BOOLEAN :
            /\ ch' = [t EXCEPT ![c] = Triggered(Enabled(t[c], en, TRUE, a), LenMax[c], over, a)]
            /\ fresh' = fresh \ {c}
      BY <1>9 DEF WriteTrigger, a
    <2>2. Sound(t[c], c, fresh)
      BY <1>1 DEF SoundChans
    <2> DEFINE e == Enabled(t[c], en, TRUE, a)
               y == Triggered(e, LenMax[c], over, a)
    <2>3. e \in Channel /\ e.len <= LenMax[c]
      BY <2>2, EnabledEffect
    <2> HIDE DEF e
    <2>4. Sound(y, c, fresh')
      BY <2>3, TriggeredEffect
    <2>5. ch' = [t EXCEPT ![c] = y]
      BY <2>1 DEF e
    <2> HIDE DEF y
    <2>6. \A d \in Chans : d # c => Sound(t[d], d, fresh')
      BY <1>1, <2>1 DEF SoundChans, Sound
    <2>7. SoundChans(ch', fresh')
      BY <1>1, <2>4, <2>5, <2>6 DEF SoundChans, Sound
    <2> QED BY <1>1, <1>2, <1>9, <2>1, <2>7 DEF WriteTrigger, a
  <1>10. CASE PowerOff(k, t)
    <2>1. ch' = [c \in Chans |-> [t[c] EXCEPT !.on = FALSE, !.dac = FALSE, !.lenEn = FALSE]]
      BY <1>10 DEF PowerOff
    <2>2. ASSUME NEW c \in Chans
          PROVE  ch'[c] \in Channel /\ Sound(ch'[c], c, fresh) /\ Silent(ch'[c])
      BY <1>1, <2>1 DEF SoundChans, Sound, Silent, Channel
    <2>3. SoundChans(ch', fresh) /\ \A c \in Chans : Silent(ch'[c])
      BY <2>1, <2>2 DEF SoundChans
    <2>4. [a EXCEPT !.power = FALSE] \in ApuState
      BY <1>1 DEF ApuState
    <2> QED BY <1>2, <1>10, <2>3, <2>4 DEF PowerOff, a
  <1>11. CASE PowerOn(k, t)
    <2>0. 0 \in 0 .. 7
      OBVIOUS
    <2>1. LET b == [a EXCEPT !.power = TRUE, !.fs = 0] IN b \in ApuState /\ b.power
      BY <1>1, <2>0 DEF ApuState
    <2> QED BY <1>1, <1>2, <1>11, <2>1 DEF PowerOn, a
  <1>12. CASE WriteDiv(k, t)
    <2>1. [k EXCEPT !.div = 0] \in Clock
      BY ApuAssumption DEF Clock
    <2> QED BY <1>1, <1>2, <1>12, <2>1 DEF WriteDiv, a
  <1> QED BY <1>3, <1>5, <1>6, <1>7, <1>8, <1>9, <1>10, <1>11, <1>12 DEF MCycle

\* So does every step: an M-cycle, or the speed switch and the M-cycle after it.
LEMMA StepHolds == IInv /\ [Next]_vars => IInv'
  <1> SUFFICES ASSUME IInv, [Next]_vars PROVE IInv' OBVIOUS
  <1>1. clock \in Clock
    BY ByChannel
  <1>2. ASSUME NEW kill \in BOOLEAN, MCycle(Counted(clock), TickedCh(Counted(clock), kill))
        PROVE  IInv'
    BY <1>1, <1>2, ClockEffect, MCycleHolds
  <1>3. ASSUME NEW kill \in BOOLEAN, SwitchSpeed(kill)
        PROVE  IInv'
    <2> DEFINE k == Counted([clock EXCEPT !.fast = ~@])
    <2>1. k \in Clock /\ Idle(k, TickedCh(k, kill))
      BY <1>1, <1>3, ClockEffect DEF SwitchSpeed
    <2> HIDE DEF k
    <2>2. MCycle(k, TickedCh(k, kill))
      BY <2>1 DEF MCycle
    <2> QED BY <2>1, <2>2, MCycleHolds
  <1>4. CASE UNCHANGED vars
    BY <1>4 DEF vars, IInv, ApuInv, TypeOK, OnlyPoweredSound, LengthsFit, LengthLeft
  <1> QED BY <1>2, <1>3, <1>4 DEF Next

\* Nothing sounds without power and DAC, and no counter leaves its range, whatever
\* program drives apu_write.
THEOREM SoundIsPowered == Spec => []ApuInv
  <1>1. IInv => ApuInv
    BY DEF IInv
  <1> QED BY <1>1, InitHolds, StepHolds, PTL DEF Spec

\* A channel that sounds has a length left to count, whatever extra clocks went before.
THEOREM LengthIsLeft == Spec => []LengthLeft
  <1>1. IInv => LengthLeft
    BY DEF IInv
  <1> QED BY <1>1, InitHolds, StepHolds, PTL DEF Spec
=============================================================================
