-------------------------------- MODULE Hdma --------------------------------
(***************************************************************************)
(* src/bus.c: the Game Boy Color's DMA to VRAM.  FF51-FF54 latch source    *)
(* and destination, a write of FF55 copies 16-byte blocks: all of them at  *)
(* once, or one in every HBlank (hdma_hblank_step, called by the PPU).     *)
(*                                                                         *)
(* Blocks are the unit: a block of memory is one value.  Each read goes    *)
(* over the bus, so an OAM DMA on the same bus answers instead of memory   *)
(* (see OamDma!Read); whether one does is the input `taken`.               *)
(***************************************************************************)
EXTENDS Integers

CONSTANTS Blocks,      \* source blocks of the address space (2^12)
          Slots,       \* block slots of a VRAM bank (2^9)
          Flag,        \* weight of bit 7 of FF55: the most blocks, too (2^7)
          Value,       \* contents of a block
          BusVal       \* 16 times the byte an OAM DMA drives the bus with

ASSUME HdmaAssumption ==
  /\ Blocks \in Nat \ {0} /\ Slots \in Nat \ {0}
  /\ Flag \in Nat \ {0} /\ Flag <= Slots
  /\ BusVal \in Value

VARIABLES hdma,    \* the DMA unit
          latch,   \* FF51-FF54, FF4F
          mem,     \* memory by source block
          vram,    \* both VRAM banks
          job,     \* history: what the last FF55 write that started a copy asked
                   \* for, and how many of its blocks were copied
          touched  \* history: since then the program wrote memory, VRAM or the
                   \* bank, or an OAM DMA answered instead of memory

vars == <<hdma, latch, mem, vram, job, touched>>

Source == 0 .. Blocks - 1
Slot   == 0 .. Slots - 1
Bank   == {0, 1}

\* hdma_len when a transfer has finished, 0xFF.
Idling == (2 * Flag) - 1

HdmaState == [active : BOOLEAN, len : 0 .. Idling,
              src : Source, dst : Slot]
Latches == [src : Source, dst : Slot, bank : Bank]
Job == [src : Source, dst : Slot, bank : Bank, count : 0 .. Flag, done : 0 .. Flag]

TypeOK == /\ hdma \in HdmaState /\ latch \in Latches /\ job \in Job /\ touched \in BOOLEAN
          /\ mem \in [Source -> Value] /\ vram \in [Bank -> [Slot -> Value]]
-----------------------------------------------------------------------------
\* hdma_copy_block, n times from src to dst.
BusRead(b, taken) == IF taken THEN BusVal ELSE mem[b % Blocks]

\* Faults.  Operators named Bug... are slips the code could have made in the
\* definition that follows them; README.md says which property each one breaks.

BugCopiedOneMore(src, dst, n, taken) ==      \* <= instead of <
  [vram EXCEPT ![latch.bank] = [s \in Slot |->
     LET k == (s - dst) % Slots IN IF k <= n THEN BusRead(src + k, taken) ELSE @[s]]]

Copied(src, dst, n, taken) ==
  [vram EXCEPT ![latch.bank] = [s \in Slot |->
     LET k == (s - dst) % Slots IN IF k < n THEN BusRead(src + k, taken) ELSE @[s]]]

BugMoved(h, n) == [h EXCEPT !.src = (@ + n) % Blocks]     \* dst stays

Moved(h, n) == [h EXCEPT !.src = (@ + n) % Blocks, !.dst = (@ + n) % Slots]

Loaded == [hdma EXCEPT !.src = latch.src, !.dst = latch.dst]

Init == /\ hdma = [active |-> FALSE, len |-> 0, src |-> 0, dst |-> 0]
        /\ latch = [src |-> 0, dst |-> 0, bank |-> 0]
        /\ mem \in [Source -> Value]
        /\ vram \in [Bank -> [Slot -> Value]]
        /\ job = [src |-> 0, dst |-> 0, bank |-> 0, count |-> 0, done |-> 0]
        /\ touched = FALSE

Requested(n, done) == [src |-> latch.src, dst |-> latch.dst, bank |-> latch.bank,
                       count |-> n, done |-> done]

\* FF55 with bit 7 clear while an HBlank transfer runs: stop it.
Stop == /\ hdma.active
        /\ hdma' = [hdma EXCEPT !.active = FALSE, !.len = Flag + @]
        /\ UNCHANGED <<latch, mem, vram, job, touched>>

\* FF55 with bit 7 clear otherwise: n blocks at once.
General(n, taken) ==
  /\ ~hdma.active
  /\ vram' = Copied(latch.src, latch.dst, n, taken)
  /\ hdma' = [Moved(Loaded, n) EXCEPT !.len = Idling]
  /\ job' = Requested(n, n) /\ touched' = taken /\ UNCHANGED <<latch, mem>>

\* FF55 with bit 7 set: n blocks, one in each HBlank from now on.
Begin(n) ==
  /\ hdma' = [Loaded EXCEPT !.len = n - 1, !.active = TRUE]
  /\ job' = Requested(n, 0) /\ touched' = FALSE /\ UNCHANGED <<latch, mem, vram>>

BugHBlank(taken) ==                          \* ends one block early
  /\ hdma.active
  /\ vram' = Copied(hdma.src, hdma.dst, 1, taken)
  /\ hdma' = IF hdma.len <= 1 THEN [Moved(hdma, 1) EXCEPT !.active = FALSE, !.len = Idling]
                              ELSE [Moved(hdma, 1) EXCEPT !.len = @ - 1]
  /\ job' = [job EXCEPT !.done = @ + 1]
  /\ touched' = (touched \/ taken) /\ UNCHANGED <<latch, mem>>

\* hdma_hblank_step.
HBlank(taken) ==
  /\ hdma.active
  /\ vram' = Copied(hdma.src, hdma.dst, 1, taken)
  /\ hdma' = IF hdma.len = 0 THEN [Moved(hdma, 1) EXCEPT !.active = FALSE, !.len = Idling]
                             ELSE [Moved(hdma, 1) EXCEPT !.len = @ - 1]
  /\ job' = [job EXCEPT !.done = @ + 1]
  /\ touched' = (touched \/ taken) /\ UNCHANGED <<latch, mem>>

Count == 1 .. Flag

Ff55(taken) == Stop \/ \E n \in Count : General(n, taken) \/ Begin(n)

WriteLatches == \E s \in Source, d \in Slot :
  latch' = [latch EXCEPT !.src = s, !.dst = d] /\ UNCHANGED <<hdma, mem, vram, job, touched>>

WriteBank == /\ latch' = [latch EXCEPT !.bank = 1 - @]
             /\ touched' = TRUE /\ UNCHANGED <<hdma, mem, vram, job>>

WriteMem == /\ \E b \in Source, x \in Value : mem' = [mem EXCEPT ![b] = x]
            /\ touched' = TRUE /\ UNCHANGED <<hdma, latch, vram, job>>

WriteVram == /\ \E s \in Slot, x \in Value : vram' = [vram EXCEPT ![latch.bank][s] = x]
             /\ touched' = TRUE /\ UNCHANGED <<hdma, latch, mem, job>>

Next == \/ \E taken \in BOOLEAN : Ff55(taken) \/ HBlank(taken)
        \/ WriteLatches \/ WriteBank \/ WriteMem \/ WriteVram

Spec == Init /\ [][Next]_vars
-----------------------------------------------------------------------------
\* A transfer is where its FF55 write and the blocks copied since put it, through
\* stops, restarts and new latch values: a running one in memory, in VRAM and in its
\* count; a stopped one remembers what is left; one that ends has copied everything.
\* (All the blocks there can be, stopped before the first, leave 0xFF as well.)
Runs == /\ job.done < job.count
        /\ hdma.len = job.count - job.done - 1
        /\ hdma.src = (job.src + job.done) % Blocks
        /\ hdma.dst = (job.dst + job.done) % Slots

Rests == \/ job.done < job.count /\ hdma.len = Flag + (job.count - job.done - 1)
         \/ job.done = job.count /\ hdma.len = Idling
         \/ job.count = 0 /\ job.done = 0 /\ hdma.len = 0

ProgressFits == IF hdma.active THEN Runs ELSE Rests

\* Only the slots a transfer was asked to fill are written by it, wherever its
\* destination wraps; the rest of both banks is the program's.
OnlyRequestedSlots ==
  [][UNCHANGED hdma \/ \A b \in Bank, s \in Slot : vram'[b][s] # vram[b][s] =>
       b = latch.bank /\ (s - job'.dst) % Slots < job'.count]_vars

HdmaInv == TypeOK /\ ProgressFits
-----------------------------------------------------------------------------
\* Running, stopped or finished, what was copied is in place: the first blocks of
\* the request, one slot after the other, wherever source and destination wrap -
\* unless the program or an OAM DMA came between; new latch values do not.
BlocksAreInPlace ==
  ~touched => \A k \in 0 .. job.done - 1 :
    vram[job.bank][(job.dst + k) % Slots] = mem[(job.src + k) % Blocks]
=============================================================================
