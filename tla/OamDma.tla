------------------------------- MODULE OamDma -------------------------------
(***************************************************************************)
(* src/bus.c: OAM DMA.  A write of FF46 names a source page; after a       *)
(* startup delay one byte is copied to OAM in every M-cycle, while the cpu *)
(* goes on using the bus, OAM and FF46 itself.                             *)
(*                                                                         *)
(* An action is an M-cycle: dma_tick, then at most one access of the cpu.  *)
(* Whether the PPU lets the bus reach VRAM (v) and OAM (o) in it is input. *)
(***************************************************************************)
EXTENDS Integers

CONSTANTS Len,       \* bytes of OAM (160)
          Delay,     \* startup delay in M-cycles (3)
          Ext,       \* source pages on the external bus: ROM, cart RAM, WRAM
          Vram,      \* source pages in VRAM
          OamPage,   \* page FE
          Value,     \* bytes
          Zero,      \* what OAM holds at power-up (00)
          Blank      \* what a blocked read returns (FF)

ASSUME OamDmaAssumption ==
  /\ Len \in Nat /\ Len > 1 /\ Delay \in Nat \ {0}
  /\ Ext \cap Vram = {} /\ OamPage \notin Ext \cup Vram
  /\ Zero \in Value /\ Blank \in Value

VARIABLES dma,   \* the DMA unit
          mem,   \* the source pages
          oam,
          dirty  \* history: since the transfer started its pages were written,
                 \* VRAM was closed to it, or the cpu wrote OAM

vars == <<dma, mem, oam, dirty>>

Page  == Ext \cup Vram \cup {OamPage}
Index == 0 .. Len - 1

DmaState == [src : Page, pending : Page, pos : 0 .. Len, start : 0 .. Delay,
             running : BOOLEAN, busVal : Value]

TypeOK == /\ dma \in DmaState
          /\ mem \in [Ext \cup Vram -> [Index -> Value]]
          /\ oam \in [Index -> Value] /\ dirty \in BOOLEAN
-----------------------------------------------------------------------------
\* Faults.  Operators named Bug... are slips the code could have made in the
\* definition that follows them; README.md says which property each one breaks.

\* The transfer is on the same bus as an access of page p (below FE00).
OnDmaBus(p) == p # OamPage /\ (dma.src \in Vram <=> p \in Vram)

Memory(p, i, v) == IF p = OamPage \/ (p \in Vram /\ ~v) THEN Blank ELSE mem[p][i]

BugRead(p, i, v, o) ==                       \* memory answers, not the bus
  IF p = OamPage THEN IF dma.running \/ ~o THEN Blank ELSE oam[i]
                 ELSE Memory(p, i, v)

\* What the cpu reads at index i of page p at the end of this M-cycle.
Read(p, i, v, o) ==
  IF dma.running /\ OnDmaBus(p) THEN dma.busVal
  ELSE IF p = OamPage THEN IF dma.running \/ ~o THEN Blank ELSE oam[i]
  ELSE Memory(p, i, v)

BugStarted ==                                \* the position is not reset
  IF dma.start = 1
  THEN [dma EXCEPT !.start = 0, !.src = dma.pending, !.running = TRUE]
  ELSE [dma EXCEPT !.start = IF @ = 0 THEN 0 ELSE @ - 1]

BugStartedUnderflow ==                       \* counts down past 0
  IF dma.start = 1
  THEN [dma EXCEPT !.start = 0, !.src = dma.pending, !.pos = 0, !.running = TRUE]
  ELSE [dma EXCEPT !.start = @ - 1]

\* dma_tick's startup: the pending source takes over when the delay ends.
Started ==
  IF dma.start = 1
  THEN [dma EXCEPT !.start = 0, !.src = dma.pending, !.pos = 0, !.running = TRUE]
  ELSE [dma EXCEPT !.start = IF @ = 0 THEN 0 ELSE @ - 1]

\* dma_tick: one byte, read from d's source past any conflict.
Copies(d) == d.running /\ d.pos < Len

BugTickedDma(v) ==                           \* stops one byte early
  LET d == Started
  IN  IF ~Copies(d) THEN d
      ELSE [d EXCEPT !.busVal = Memory(d.src, d.pos, v), !.pos = @ + 1,
                     !.running = d.pos + 2 < Len]

TickedDma(v) ==
  LET d == Started
  IN  IF ~Copies(d) THEN d
      ELSE [d EXCEPT !.busVal = Memory(d.src, d.pos, v), !.pos = @ + 1,
                     !.running = d.pos + 1 < Len]

TickedOam(v) ==
  LET d == Started
  IN  IF ~Copies(d) THEN oam ELSE [oam EXCEPT ![d.pos] = Memory(d.src, d.pos, v)]
-----------------------------------------------------------------------------
\* The source registers start at page 00, which is ROM.
Init == /\ dma \in [src : Ext, pending : Ext, pos : {Len}, start : {0},
                    running : {FALSE}, busVal : {Zero}]
        /\ mem \in [Ext \cup Vram -> [Index -> Value]]
        /\ oam = [i \in Index |-> Zero] /\ dirty = TRUE

\* The bookkeeping of dirty, when the cpu's access in this M-cycle is a foul one.
Track(v, foul) ==
  dirty' = (foul \/ (~v /\ Started.src \in Vram) \/ (dirty /\ dma.start # 1))

\* The M-cycle reads, or does not touch what is modelled here.
Idle(v) == Track(v, FALSE) /\ dma' = TickedDma(v) /\ oam' = TickedOam(v) /\ UNCHANGED mem

WriteFF46(v) ==
  /\ \E p \in Page :
       dma' = [TickedDma(v) EXCEPT !.pending = p, !.start = Delay]
  /\ Track(v, FALSE) /\ oam' = TickedOam(v) /\ UNCHANGED mem

\* The cpu writes a source page: the transfer does not keep it from doing so.
WriteMem(v) ==
  /\ \E p \in Ext \cup Vram, i \in Index, b \in Value :
       /\ p \in Vram => v
       /\ mem' = [mem EXCEPT ![p][i] = b]
  /\ Track(v, TRUE) /\ dma' = TickedDma(v) /\ oam' = TickedOam(v)

BugWriteOam(v, o) ==                         \* only the PPU locks OAM
  /\ o
  /\ \E i \in Index, b \in Value : oam' = [TickedOam(v) EXCEPT ![i] = b]
  /\ Track(v, TRUE) /\ dma' = TickedDma(v) /\ UNCHANGED mem

WriteOam(v, o) ==
  /\ o /\ ~TickedDma(v).running
  /\ \E i \in Index, b \in Value : oam' = [TickedOam(v) EXCEPT ![i] = b]
  /\ Track(v, TRUE) /\ dma' = TickedDma(v) /\ UNCHANGED mem

MCycle(v, o) == Idle(v) \/ WriteFF46(v) \/ WriteMem(v) \/ WriteOam(v, o)

Next == \E v, o \in BOOLEAN : MCycle(v, o)

\* M-cycles never stop coming, and those that fetch an opcode write nothing.
Spec == Init /\ [][Next]_vars /\ WF_vars(\E v \in BOOLEAN : Idle(v))
-----------------------------------------------------------------------------
\* A running transfer is inside OAM, and the value it drives the bus with is the
\* byte it has just stored: nothing the program does with OAM or with another
\* FF46 write comes in between.
BusShowsLastByte ==
  dma.running => /\ dma.pos \in 1 .. Len - 1
                 /\ oam[dma.pos - 1] = dma.busVal

\* A cpu read of the bus the transfer uses gives the byte of this very M-cycle,
\* whatever is addressed; OAM reads blank.
ReadsSeeTheTransfer ==
  dma.running => \A p \in Page, i \in Index, v, o \in BOOLEAN :
    /\ OnDmaBus(p) => Read(p, i, v, o) = oam[dma.pos - 1]
    /\ p = OamPage => Read(p, i, v, o) = Blank

\* While the transfer runs on, the cpu cannot change OAM: an M-cycle changes at
\* most the byte at the position the transfer left.
OamIsLocked ==
  [][dma'.running => \A i \in Index :
       oam'[i] # oam[i] => i = dma'.pos - 1]_vars

DmaInv == TypeOK /\ BusShowsLastByte
-----------------------------------------------------------------------------
\* The bytes a transfer has passed are those of its own source, however often and
\* whenever it was restarted: none is left of the transfer it replaced, none is
\* skipped or off by one - if the program and the PPU left source and OAM alone.
PrefixIsCopied ==
  dma.running /\ ~dirty =>
    \A i \in 0 .. dma.pos - 1 : oam[i] = Memory(dma.src, i, TRUE)

\* Once the program writes no more, the last request completes, whatever transfer
\* it interrupted: the bus is free again and OAM a copy of the page it named.
RequestCompletes ==
  <>[][Idle(TRUE)]_vars =>
    <>[](/\ ~dma.running /\ dma.start = 0
         /\ dirty \/ \A i \in Index : oam[i] = Memory(dma.pending, i, TRUE))
=============================================================================
