-------------------------------- MODULE Apu --------------------------------
(***************************************************************************)
(* src/apu.c: when a channel sounds - power, DACs, triggers, the frame     *)
(* sequencer on the divider and the length counters.                       *)
(*                                                                         *)
(* An action is an M-cycle: the divider and apu_tick, then at most one     *)
(* write.  Envelopes and samples are left out; the frequency sweep is the  *)
(* input `kill`, whether it overflows where it may silence its channel.    *)
(***************************************************************************)
EXTENDS Integers

CONSTANTS Chans,        \* channels (four)
          SweepChan,    \* the one with a sweep, which sounds at power-up
          LenMax,       \* LEN_MAX: 64, for the wave channel 256
          Half,         \* M-cycles that DIV bit 12 keeps a value (1024)
          PostBootDiv   \* the divider at power-up, in M-cycles (0xABCC / 4)

\* With LenMax 1 the extra clock of a trigger would leave nothing to count.
ASSUME ApuAssumption ==
  /\ SweepChan \in Chans /\ Half \in Nat \ {0}
  /\ LenMax \in [Chans -> Nat] /\ \A c \in Chans : LenMax[c] > 1
  /\ PostBootDiv \in 0 .. 4 * Half - 1

VARIABLES apu,     \* power, frame sequencer, div_bit_prev
          ch,      \* the channels
          clock,   \* the divider and the cpu speed
          fresh    \* history: the channels never triggered since power-up

vars == <<apu, ch, clock, fresh>>

ApuState == [power : BOOLEAN, fs : 0 .. 7, prev : BOOLEAN]
Channel  == [on : BOOLEAN, dac : BOOLEAN, lenEn : BOOLEAN, len : Nat]
Clock    == [div : 0 .. 4 * Half - 1, fast : BOOLEAN]

TypeOK == /\ apu \in ApuState /\ ch \in [Chans -> Channel]
          /\ clock \in Clock /\ fresh \subseteq Chans
-----------------------------------------------------------------------------
\* Faults.  Operators named Bug... are slips the code could have made in the
\* definition that follows them; README.md says which property each one breaks.

\* The divider bit of the frame sequencer: 12, in double speed 13.
Bit(k) == (k.div \div (IF k.fast THEN 2 * Half ELSE Half)) % 2 = 1

Counted(k) == [k EXCEPT !.div = IF @ = 4 * Half - 1 THEN 0 ELSE @ + 1]

\* length_clock of one channel.
LengthClocked(x) ==
  IF x.lenEn /\ x.len > 0
  THEN [x EXCEPT !.len = @ - 1, !.on = @ /\ x.len # 1] ELSE x

\* A step of the frame sequencer to n: lengths on the even ones, sweep on 2 and 6.
SteppedCh(n, kill) == [c \in Chans |->
  LET x == IF n % 2 = 0 THEN LengthClocked(ch[c]) ELSE ch[c]
  IN  [x EXCEPT !.on = @ /\ ~(kill /\ c = SweepChan /\ n \in {2, 6})]]

BugSteps(k) == apu.power /\ apu.prev /\ ~Bit(k) /\ ~k.fast  \* not in double speed

\* apu_tick steps the frame sequencer on the falling edge of the bit.
Steps(k) == apu.power /\ apu.prev /\ ~Bit(k)

\* The APU and the channels after the tick, with the divider at k.
TickedApu(k) ==
  [apu EXCEPT !.prev = Bit(k), !.fs = IF Steps(k) THEN (@ + 1) % 8 ELSE @]

TickedCh(k, kill) == IF Steps(k) THEN SteppedCh((apu.fs + 1) % 8, kill) ELSE ch

\* The next step of the frame sequencer clocks the length counters.
NextStepClocksLen(a) == (a.fs + 1) % 2 = 0

BugEnabled(x, en, trig, a) ==                \* the extra clock never expires
  LET extra == ~x.lenEn /\ en /\ ~NextStepClocksLen(a) /\ x.len > 0
  IN  [x EXCEPT !.lenEn = en, !.len = IF extra THEN @ - 1 ELSE @]

\* NRx4 sets the length enable; set late in a length period it clocks at once.
Enabled(x, en, trig, a) ==
  LET extra == ~x.lenEn /\ en /\ ~NextStepClocksLen(a) /\ x.len > 0
  IN  [x EXCEPT !.lenEn = en, !.len = IF extra THEN @ - 1 ELSE @,
                !.on = @ /\ ~(extra /\ x.len = 1 /\ ~trig)]

\* trigger: an empty counter is filled, less the extra clock if one is due.
Triggered(x, max, kill, a) ==
  [x EXCEPT !.on = x.dac /\ ~kill,
            !.len = IF @ # 0 THEN @
                    ELSE IF x.lenEn /\ ~NextStepClocksLen(a) THEN max - 1 ELSE max]
-----------------------------------------------------------------------------
Init ==
  /\ apu = [power |-> TRUE, fs |-> 0, prev |-> FALSE]
  /\ ch = [c \in Chans |-> [on |-> c = SweepChan, dac |-> c = SweepChan,
                            lenEn |-> FALSE, len |-> 0]]
  /\ clock = [div |-> PostBootDiv, fast |-> FALSE]
  /\ fresh = Chans

\* Each action gets the counted divider k and the ticked channels t.
Idle(k, t) == apu' = TickedApu(k) /\ ch' = t /\ clock' = k /\ UNCHANGED fresh

\* NRx1: 1 .. LenMax, also with the power off.
WriteLength(k, t) ==
  /\ \E c \in Chans : \E n \in 1 .. LenMax[c] : ch' = [t EXCEPT ![c].len = n]
  /\ apu' = TickedApu(k) /\ clock' = k /\ UNCHANGED fresh

\* NRx2 and NR30: the DAC.
WriteDac(k, t) ==
  /\ apu.power
  /\ \E c \in Chans, b \in BOOLEAN :
       ch' = [t EXCEPT ![c].dac = b, ![c].on = @ /\ b]
  /\ apu' = TickedApu(k) /\ clock' = k /\ UNCHANGED fresh

\* NRx4 without bit 7.
WriteEnable(k, t) ==
  /\ apu.power
  /\ \E c \in Chans, en \in BOOLEAN :
       ch' = [t EXCEPT ![c] = Enabled(@, en, FALSE, TickedApu(k))]
  /\ apu' = TickedApu(k) /\ clock' = k /\ UNCHANGED fresh

\* NRx4 with bit 7.
WriteTrigger(k, t) ==
  /\ apu.power
  /\ \E c \in Chans, en \in BOOLEAN, kill \in BOOLEAN :
       /\ kill => c = SweepChan
       /\ ch' = [t EXCEPT ![c] = Triggered(Enabled(@, en, TRUE, TickedApu(k)),
                                           LenMax[c], kill, TickedApu(k))]
       /\ fresh' = fresh \ {c}
  /\ apu' = TickedApu(k) /\ clock' = k

BugPowerOff(k, t) ==                         \* the channels play on
  /\ apu.power
  /\ ch' = [c \in Chans |-> [t[c] EXCEPT !.dac = FALSE, !.lenEn = FALSE]]
  /\ apu' = [TickedApu(k) EXCEPT !.power = FALSE] /\ clock' = k /\ UNCHANGED fresh

\* NR52: off silences everything but keeps the length counters.
PowerOff(k, t) ==
  /\ apu.power
  /\ ch' = [c \in Chans |-> [t[c] EXCEPT !.on = FALSE, !.dac = FALSE, !.lenEn = FALSE]]
  /\ apu' = [TickedApu(k) EXCEPT !.power = FALSE] /\ clock' = k /\ UNCHANGED fresh

PowerOn(k, t) ==
  /\ ~apu.power
  /\ apu' = [TickedApu(k) EXCEPT !.power = TRUE, !.fs = 0]
  /\ ch' = t /\ clock' = k /\ UNCHANGED fresh

\* A DIV write; the edge it may make is seen by the next tick.
WriteDiv(k, t) == /\ apu' = TickedApu(k) /\ ch' = t
                  /\ clock' = [k EXCEPT !.div = 0] /\ UNCHANGED fresh

MCycle(k, t) == \/ Idle(k, t) \/ WriteLength(k, t) \/ WriteDac(k, t)
                \/ WriteEnable(k, t) \/ WriteTrigger(k, t)
                \/ PowerOff(k, t) \/ PowerOn(k, t) \/ WriteDiv(k, t)

\* STOP changes the speed, and with it the bit, before its operand's M-cycle.
SwitchSpeed(kill) ==
  LET k == Counted([clock EXCEPT !.fast = ~@]) IN Idle(k, TickedCh(k, kill))

Next == \E kill \in BOOLEAN :
          \/ MCycle(Counted(clock), TickedCh(Counted(clock), kill))
          \/ SwitchSpeed(kill)

\* The M-cycles that write nothing here, to begin with the opcode fetches.
Quiet == \E kill \in BOOLEAN :
           Idle(Counted(clock), TickedCh(Counted(clock), kill))

Spec == Init /\ [][Next]_vars /\ WF_vars(Quiet)
-----------------------------------------------------------------------------
\* A channel never sounds past its DAC, and nothing of a channel is on while the
\* power is off.
OnlyPoweredSound ==
  \A c \in Chans : /\ ch[c].on => ch[c].dac
                   /\ ~apu.power => ~ch[c].dac /\ ~ch[c].lenEn

\* The extra clocks of NRx4 neither underflow a counter nor overfill it.
LengthsFit == \A c \in Chans : ch[c].len <= LenMax[c]

ApuInv == TypeOK /\ OnlyPoweredSound /\ LengthsFit

\* A sounding channel has a length left, whatever extra clocks, loads, triggers and
\* power cycles went before: a counter that is empty could never end it.  Only the
\* channel that sounds at power-up starts without one, until its first trigger.
LengthLeft == \A c \in Chans : ch[c].on /\ ch[c].len = 0 => c \in fresh

\* So an enabled length ends the sound, at either speed and from any position of
\* divider and frame sequencer, once the program writes no more.
LengthEnds ==
  <>[][Quiet]_vars => \A c \in Chans :
    <>[](c \notin fresh /\ ch[c].lenEn => ~ch[c].on)
=============================================================================
