# A TLA+ model of gameboy-emu

gameboy-emu is a Game Boy and Game Boy Color emulator in C (`src/*.c`, 3200
lines). One `GB` structure (`src/gb.h`) holds the whole machine; there are no
threads. What makes it hard is *time*: every memory access of the cpu lets the
other devices run first (`tick()` in `src/cpu.c`), so that one instruction is
interleaved with timer, PPU, DMA, audio and serial port at every M-cycle, and
what an access sees or does depends on the exact dot or T-cycle it falls on.
The modules here model that interplay, device by device; paths in this file are
relative to the repository.

## Inventory

| part | state it keeps | operations | what makes it correct |
|---|---|---|---|
| CPU control (`src/cpu.c` 33-56, 226-275, 408-443) | pc, IME, ime_pending, halted, halt_bug, locked | `cpu_step`, `service_interrupt`, EI, DI, HALT, RETI, `tick` | a dispatch has a cause, runs alone and reaches the vector of what it acknowledged; no request is lost; HALT ends |
| instructions (`src/cpu.c` 58-415) | registers, flags | `execute` | results and flags of each opcode |
| bus (`src/bus.c`) | WRAM, HRAM, IO registers, IE | `bus_read`, `bus_write` | each address reaches its device, and only when the device lets it |
| OAM DMA (`src/bus.c` 38-68, 114-131, 174-177) | source, position, delay, bus value | `dma_tick`, FF46 | OAM ends up a copy of the last page named; the cpu sees the transfer's bytes on its bus |
| HDMA (`src/bus.c` 77-111) | source, destination, length, active | FF51-FF55, `hdma_hblank_step` | exactly the requested blocks, once each |
| timer (`src/timer.c`) | 16-bit divider, TIMA, TMA, TAC, reload delay | `timer_tick`, register writes | TIMA counts falling edges, reloads one M-cycle after an overflow, one request per reload |
| PPU timing (`src/ppu.c` 278-416) | dot counter, LY, mode, STAT line, window line, penalty | `ppu_tick`, LCDC/STAT/SCX/LYC writes | mode and LY follow the dots; VRAM and OAM are closed while they are drawn from; STAT requests on edges; frames end |
| rendering (`src/ppu.c` 20-276) | framebuffer, window line | `render_scanline`, `obj_mode3_penalty` | layer and object priorities |
| pixel FIFO (`src/ppu_fifo.c`) | fetcher, queue, object slots, stall | `fifo_bg_line` | the pixels of the scanline renderer, and its penalty as emergent stalls |
| audio (`src/apu.c`) | four channels, frame sequencer, sample ring | `apu_tick`, `apu_read`, `apu_write` | a channel never sounds with its DAC off; lengths expire; the ring stays in bounds |
| cartridge (`src/cart.c`) | ROM, RAM, bank registers, RTC | `cart_read`, `cart_write`, battery load and save | both ROM windows show banks of the file, RAM accesses stay inside the RAM; RAM changes only when enabled; a session goes on where the last one ended |
| serial port (`src/serial.c`) | SB, SC, a log of 65535 bytes | SB/SC writes; `serial_tick` does nothing | a transfer is complete in the write that starts it, and requests once |
| save states, rewind (`src/state.c`, `src/play.c` 88-136) | a file; a ring of snapshots | F5, F9, Backspace, capture | machine and cartridge RAM are restored together; the ring is a stack |
| debugger, disassembler, front ends, PNG writer | none of the machine's | | text and files |

The parts meet in `tick()`: timer, PPU, OAM DMA, audio, serial port, in that
order, then the access itself. The PPU calls `hdma_hblank_step` at every HBlank;
timer, PPU and serial port set bits in IF; the cpu reads them. The front end is
around all of it: between two frames it may copy the whole machine to or from a
file or a ring, and what outlives it is on disk.

## Modules

| module | models | proofs |
|---|---|---|
| `Timer`, `MCTimer` | `src/timer.c`, T-cycle by T-cycle | `TimerProofs` |
| `TimerAbs` | what a program sees of the timer, M-cycle by M-cycle | |
| `Cpu`, `MCCpu` | the control of `src/cpu.c` | `CpuProofs` |
| `Ppu`, `MCPpu` | the timing of `src/ppu.c`, dot by dot | `PpuProofs` |
| `FrameAbs` | what the machine sees of a frame | |
| `OamDma`, `MCOamDma` | OAM DMA of `src/bus.c` | `OamDmaProofs` |
| `Hdma`, `MCHdma` | VRAM DMA of `src/bus.c` | `HdmaProofs` |
| `Apu`, `MCApu` | when the channels of `src/apu.c` sound | `ApuProofs` |
| `Scanline` | the pixels and the object penalty of a line, `src/ppu.c` | |
| `Fifo`, `MCFifo` | `src/ppu_fifo.c`, dot by dot, over `Scanline` | `FifoProofs` |
| `Cart` | the registers, banks, RAM and battery file of `src/cart.c` | `SessionProofs` |
| `Session`, `MCSession` | sessions of `src/play.c` with `src/state.c`, over `Cart` | `SessionProofs` |
| `RewindAbs` | a bounded stack of past machines | |
| `Alu` | the arithmetic of `src/cpu.c` on bytes, pairs and flags | `CpuProofs` |

One action is one M-cycle wherever the cpu can interfere: the device's tick, then
at most one access. So the interleavings of the modules are those of the
program: any register write may end any M-cycle. In `Hdma` an action is a
register write or an HBlank, as the unit does nothing between. In `Fifo` an action
is a dot, in `Session` an event of the front end's loop.

Each module keeps the device's fields in one record variable named after it.
What the rest of the machine feeds in is a quantified input: the interrupts the
hardware raises in a tick (`Cpu`), whether the PPU lets the bus reach VRAM and
OAM (`OamDma`), whether an OAM DMA holds the bus (`Hdma`), the object penalty
and the use of the window (`Ppu`), the overflow of the sweep (`Apu`). `raised` and `acked` in
`Cpu`, `rude` in `Ppu`, `dirty` in `OamDma`, `job` and `touched` in `Hdma`, `fresh` in
`Apu`, `due` and the fields `mirror` and `mixed` of the machine in `Session` are history variables: they
record what happened for the properties, and no guard reads them (`mixed` decides
only what `due` and `mirror` become).

### Timer

`Tick` is four times `Increment`: `Countdown` (the delayed reload), then
`StepOnFall` (the falling edge of the selected DIV bit). Each register write is
`timer_write` after a tick, with the edge it makes itself. IF is its timer bit
only. `TimerAbs` says what a program may rely on: a period counter, a reload one
M-cycle after the overflow, the cancel window, the TMA window and the glitch
edges, without T-cycles. `ImplementsTimerAbs` is the refinement, with DIV
divided by four.

### Cpu

The phases of `cpu` are the places where `tick()` is called: between two calls
of `cpu_step`, inside a longer instruction, and the five M-cycles of a dispatch.
Instructions that do nothing to the control are `Short`, which moves pc by one,
`JpHl`, which goes anywhere in its one M-cycle, or `Long`, with any number of further
M-cycles, any write to IE or IF in each of them and any pc at the end; EI, DI, HALT,
RETI and the undefined opcodes are themselves. `service_interrupt` reads IF again one
M-cycle after `cpu_step` did, and its pushes may overwrite IE and IF. `acked` is what
the dispatch under way has taken out of IF. `HandlerIsAcknowledged` compares it with
the vector reached, after both pushes; it does not say when the choice is made, where
the code and the hardware differ (see "Disagreements found").

### Ppu

`Dot` is the body of `ppu_tick`'s loop, `Tick` an M-cycle (four dots, two in
double speed). The dot counter is a row and a column. `Reported` is the mode the
cpu reads, delayed by `StatDelay`. Raising SCX in HBlank makes the code start mode
3 again on the same line; `rude` marks the frame in which a program does so, and
the refinement of `FrameAbs` (lines once each, in order, then the vertical
blank) is about the other frames. LYC holds any of the values `Lycs`, lines or not,
as FF45 stores any byte: `LycRecurs` says that an LYC that is a line requests in every
frame, and that one that is no line stops requesting.

### OamDma, Hdma

`Started` is the end of the startup delay, `TickedDma` and `TickedOam` the byte
of the M-cycle. A page on the external bus, one in VRAM and the page of OAM
itself behave differently; two pages of one bus do not. `dirty` says that memory
or OAM was disturbed during the current transfer.
In `Hdma` blocks are the unit: a block of memory is one value. A source in VRAM
itself is left out. `touched` says that the program or an OAM DMA came between
request and copy, and `job.done` counts the blocks copied. A request is of 1 to `Flag`
blocks (128). All of them, stopped before the first is copied, leave 0xFF in `hdma_len`, as
a finished transfer does; the properties tell the two apart by `job`. No program can:
FF55 reads 0xFF whenever no transfer runs (`src/bus.c` 149-150).

### Apu

`TickedApu` and `TickedCh` are `apu_tick` in its place in `tick()`, with the
divider the timer has just counted; then at most one write. Of a channel the
module keeps what decides whether it sounds: status, DAC, length enable, length.
`Enabled` and `Triggered` are NRx4 with its extra clocks. `kill` is the sweep's
overflow. `fresh` are the channels no trigger has reached yet: the one that sounds
at power-up has an empty length counter, so the properties about lengths except
it. After a speed switch `apu_tick` looks at another bit of the divider at once.

### Scanline, Fifo

A pixel is the place it comes from, a column of the background's or the window's
map row or of an object; whether such a place has colour 0 is a constant of the
model, and the shade, palettes and flips are left out. `Pixel` says what
`render_scanline` shows at an x, `Penalty` is `obj_mode3_penalty`, and both
renderers share `Selected`, the objects of a line by priority. `Dot` is a turn
of `fifo_bg_line`'s loop: `Triggered` (the window starts), `Fetched` (a step of
the fetcher every other dot, `Pushed` at its end), `Mixed` (a stall, a discarded
pixel, the objects reached, or a pixel out). `x` and `px` are `out_x` and the last
entry of `out`. LCDC bit 0 is on, as the file says itself.

### Cart, Session

`Cart` has no state: its operators work on a record with the fields of `Cart` in
`gb.h` and on the RAM, because everything above it copies the two separately.
`Written` and `RamWritten` are `cart_write`, `RamRead` and the two ROM banks
`cart_read`. The length of the ROM file, in whole banks, is a field `file` of `Header`
beside what the header promises (`Promised`): `RomBanks` is the smaller of the two but at
least 2, and the bank number is masked bit by bit (`And`), as `rom_byte` does, so that
a file whose length is no power of two has banks that never show. A battery file is the
RAM, then the clock; `CutSavs` is what a write that stops early leaves.

`Session` is the front end: `Start` (load the cartridge and its battery file), the
events of the poll loop (`Quit`, `SaveState` for F5, `LoadState` for F9), then
`Rewind` (Backspace) or a frame (`BeginFrame`, any writes of the program,
`EndFrame` with its snapshot every `Every` turns), and `Close`. `Crash` may come at
any moment. A state file may be cut anywhere, and a load does what
`gb_load_state` does with what there is: nothing without a header, a machine put
together from two if it ends in the machine, a machine without its RAM if it ends
there. One that reaches the cartridge's fields (`LoadCart`) overwrites the live
mapper registers, as many as it has (`Overlaid`, `Reaches`), if this process saved it;
after another process its pointers to ROM and RAM lead nowhere, and what follows is
`Crash`. `mirror` is what the program has read and written of its RAM,
and travels with the machine as a program's memory does; `mixed` marks a
machine put together from two or brought in from another cartridge. `ReadsStayInRom`
says of every unmixed machine, with at least two banks in its file, that both ROM windows
show banks of the file. Of a popped slot the
model forgets the content, which the code may not read again either
(`SlotsFilled`).

### Alu

Operators only: a byte and the flags in, a byte and the flags out, one operator per
function of `src/cpu.c` 76-186. `Sum` and `Difference` are what the functions with
and without the carry share, `Left` and `Right` what the rotations and shifts share.
The RLCA family (324-331) differs in a cleared Z only and is left out, with AND, OR,
XOR, BIT, RES and SET. No run is about them: `CpuProofs` says what they compute for
every operand.

## Runs

| run | instance | shows |
|---|---|---|
| `timer` | real bit positions and rates, DIV of one longest period (1024), TIMA of three values | `TimerInv`, punctual reload, TMA taken, refinement of `TimerAbs`, liveness of reloads |
| `cpu` | two interrupts, six addresses, instructions of up to four M-cycles | a dispatch has a cause, its handler is that of the acknowledged request, no request is lost, HALT ends, what is pending is served |
| `cpu_di` (violation) | as `cpu` | EI; DI leaves the interrupts on |
| `cpu_halt_bug` (violation) | as `cpu` | EI; HALT with a pending request carries the double fetch into the handler |
| `ppu` | three lines of 44 dots, two visible, LYC 0, in the vertical blank and no line, two scrolls, two penalties, both speeds, two STAT sources | mode and LY, memory windows, HBlank request, refinement of `FrameAbs`, frames and LYC requests recur |
| `ppu_line` (violation) | one speed, two scrolls | SCX raised in HBlank renders the line twice |
| `ppu_loop` (violation) | one speed, no sources | with the LCD off no frame ends and the front end's loop does not return |
| `oam_dma` | three bytes, one page on each bus, two values, the real delay | bus value, OAM lock, copied prefix, completion |
| `hdma` | three slots, two source blocks, requests of one to three blocks, the most FF55 counts in the instance, two values | progress, only the requested slots, blocks in place |
| `fifo` | lines of 24 pixels on a map of 64, three scrolls, five windows, up to three objects of three kinds at six places | queue, pixels, emerging penalty, end of the line |
| `session` | an MBC3 with clock, battery and one cell of RAM, and an MBC1 whose ROM file lacks the last of four banks; two slots, a snapshot after every frame; a battery file with a clock at first, or none | types and filled slots, machine and RAM together, reads inside the ROM file, refinement of `RewindAbs`, battery files |
| `apu` | a channel with a sweep and one without, lengths of two and three, a divider of four M-cycles, both speeds | power and DAC, a length left to every sound, enabled lengths end it |

Why the bounds are enough. The timer's behaviour depends on DIV only through its
position in the longest period, which is whole in the instance; TIMA needs a
bottom, a middle and a top. The cpu compares interrupts only by priority, so two
are enough for "the lowest of several"; six addresses hold a vector for each bit
and a wrap of pc. The PPU instance has every boundary of the source (80, 252, 8,
456 dots) in the same order, on the grid of four dots where the source is and off
it with an odd scroll or penalty; three lines give a first, a further and a
vertical-blank line. Three bytes give the DMA a first, a middle and a last; three
slots give a destination that wraps. A length of two has the extra clock that leaves
one and the one that empties it; a divider of four has an edge of each bit. A line
of 24 pixels has more than the two tiles the queue holds, a window before, at and
after its left edge, objects that are cut off on each side, that overlap, that
share a background tile and that exceed the number shown. Two slots are the fewest
with an oldest one to forget and a head that wraps; one cell of RAM can be written,
cut off and missed; two cartridges are what one state file can confuse; a cut state file
reaches behind the mapper fields (`Reaches` is {11}; files that end among them are in
the theorems only, and so are frames without a snapshot, `Every` above 1). Three banks are the fewest of which the mask hides one. More cells or
cartridges repeat these cases. The
theorems do not depend on any bound.

Each property of a passing run has a mutant in `PROJECT.json`. The operators
named `Bug...` are those slips, each before the definition it replaces:

| slip | breaks |
|---|---|
| `BugTimaWriteNoCancel`: a TIMA write does not cancel the reload | `TimerInv` |
| `BugCountdown`: the reload M-cycle is not marked | `ReloadIsPunctual` |
| `BugTmaWrite`: TMA written in the reload M-cycle misses TIMA | `ReloadTakesTma` |
| `BugHalfPeriod`: wrong DIV bit for TAC 3 | `ImplementsTimerAbs` |
| `BugStepTimaSticks`: TIMA saturates | `KeepsReloading` |
| `BugServiceKeepsIme`: IME stays on in the dispatch | `CpuInv` |
| `BugDispatchesMasked`: IE is not consulted | `ServiceHasCause` |
| `BugServiceAcksMasked`: the acknowledge clears the lowest request, masked by IE or not | `HandlerIsAcknowledged` |
| `BugServiceStaleIf`: IF is written back as read before the tick | `NoRequestLost` |
| `BugSleeps`: HALT needs IME to wake | `HaltWakes` |
| `BugDispatchesTop`: the mask is a bit short | `PendingIsServed` |
| `BugEndOfMode3`: objects do not lengthen mode 3 | `PpuInv` |
| `BugReported`: the mode field has no tail | `DrawingHidesVram` |
| `BugOamAccessible`: OAM is open in mode 3 | `DrawingHidesOam` |
| `BugStatSource`: STAT follows the delayed field | `HBlankRequestIsOnTime` |
| `BugOffKeepsWindow`: LCD-off keeps the window line | `ImplementsFrameAbs` |
| `BugAdvanceShort`: no vertical blank | `FramesEnd` |
| `BugStatCheck`: the STAT line never falls | `LycRecurs` |
| `BugStartedUnderflow`: the delay counts past 0 | `DmaInv` |
| `BugRead`: memory answers during a transfer | `ReadsSeeTheTransfer` |
| `BugWriteOam`: a transfer does not lock OAM | `OamIsLocked` |
| `BugStarted`: the position is not reset | `PrefixIsCopied` |
| `BugTickedDma`: the transfer stops a byte early | `RequestCompletes` |
| `BugHBlank`: the transfer ends a block early | `HdmaInv` |
| `BugMoved`: the destination stays | `BlocksAreInPlace` |
| `BugCopiedOneMore`: one block too many | `OnlyRequestedSlots` |
| `BugPowerOff`: the channels play on without power | `ApuInv` |
| `BugEnabled`: the extra clock never ends a sound | `LengthLeft` |
| `BugSteps`: the sequencer rests in double speed | `LengthEnds` |
| `BugPushed`: a tile is pushed without room | `FifoInv` |
| `BugTriggered`: the window does not clear the queue | `QueueIsNextPixels` |
| `BugFetchObj`: an object's columns left of the screen are shown | `PixelsAreTheScanlines` |
| `BugReached`: only one object is fetched at a dot | `PenaltyEmerges` |
| `BugPushedNever`: the warm-up does not end | `LineEnds` |
| `BugCounted`: the ring counts more snapshots than slots | `SessionInv` |
| `BugRamLoaded`: F9 leaves the RAM as it is | `RamBelongs` |
| `BugRomBanks`: the header is believed, whatever the file has | `ReadsStayInRom` |
| `BugCaptured`: the head moves before the snapshot is taken | `ImplementsRewindAbs` |
| `BugSavFile`: the battery file has no clock | `SavesContinue` |

### Fairness

The front ends call `cpu_step` for ever, and every path through it ticks, also
that of a halted or hung cpu. That is the only fairness assumed: `WF_vars(Next)`
in `Timer` (its divider moves in every step); `WF_cpu(Next)` in `Cpu`, which lets
a sleeping cpu wait for a hardware that never answers; in `Ppu`, that the dots go
on while the LCD is on; in `OamDma` and `Apu`, that M-cycles without a write go
on, since every instruction begins with a fetch; in `Fifo`, that the loop, which has no
other exit, goes on until the line is full. `Session` assumes none. No property relies on the program.

## Proofs

`TimerProofs` (for every size of DIV that is a multiple of 1024, every TIMA size
and every start value) proves `TimerInv` inductive. `TickEffect` is the heart: an
M-cycle amounts to "reload if due, then count once if a period ends", because
M-cycles start on multiples of four T-cycles (`DivAligned`), so at most the last
T-cycle of one can be an edge. `ReloadAlone`, that a due reload and an edge never
share an M-cycle, cannot be dropped: without it TIMA need not hold TMA when the
reload M-cycle ends. The invariant gives `Punctual`, `TakesTma`, `NoSpurious`
and `Refinement`.

`CpuProofs` (for any number of interrupts, any vectors, any hardware) proves
`CpuInv`, and with it `ServiceHasCause` and `HandlerIsAcknowledged`. Its conjunct
`PickedIsReal` is not inductive alone: the picked bit is real only because something was
pending when the dispatch began and stays so during one tick, and the state after the
dispatch is well formed only because nothing is left over from an instruction
(`NothingLeftOver`, `QuirksExclude`). That the vector names one request only is
`VectorsDiffer`. `LowestBitFound` is the lemma about the scan, from the
well-foundedness of the naturals. `NothingLost` is the action property about IF.

`OamDmaProofs` (any length, delay, pages and values) proves `DmaInv`, and from it
that cpu reads see the transfer, that OAM is locked and that the copied prefix is
the source's.

`ApuProofs` (any channels, counters and divider) proves `ApuInv` and `LengthLeft`
together: neither the clocks nor the writes could keep a sounding channel's counter
above 0 without the other's guarantee. `ByChannel` turns the invariant into one
statement about each channel, and the lemmas about `LengthClocked`, `Enabled` and
`Triggered` keep that.

`SessionProofs` (any cartridges, programs, number of slots, interval and sizes)
proves all five properties of `Session`. `RamBelongs` is about the machine that
runs; its inductive form `IInv` says the same of every machine that may come back,
those in the ring (`RingOk`) and the one in the state file (`OwnFile`), and that an
unmixed machine has its cartridge's header and number of banks (`Own`), from which
`ReadsStayInRom` follows. A slot must also be known to be
filled before it is restored: `Live` says without a remainder which slots count,
`Neighbours` and `StackSlots` translate the code's `%`. `StepRefines` maps
each step to a step of `RewindAbs` or to none; its cases are `CaptureKeeps`, where a
full ring forgets the oldest snapshot, and `RewindBacks`. `SavesContinueHolds` rests
on `Kept`: a promise is what is in the file. About `Cart` alone, `RomWindows`
and `RamIsProtected` speak of all four mappers, of which the run has two. `RomWindows`
says that in every state of the registers both windows are inside the file, if that has
two banks; and that, if the file is complete, the second shows the bank that the
registers name, modulo the number of banks, with the mappers' substitutes for bank 0.
Its lemmas are that a mask only lowers a number (`MaskStays`) and that a mask of the
low bits is the remainder (`MaskIsMod`).

The second part of `CpuProofs` compares the arithmetic of `Alu` with what it is for. ADC and DAA add packed
decimal numbers, SBC and DAA subtract them, a byte at a time with the carry between
(operands with a hexadecimal digit are not covered); SUB undoes ADD and both agree
on the carries; ADD HL is two byte additions and has the flags of the upper one; ADD SP
with a signed offset has the carries of an unsigned addition; INC and DEC leave the
carry; RR undoes RL, RRC undoes RLC, SWAP itself; SLA, SRL and SRA double and halve.
`SumIs` and `DifferenceIs` turn the remainder into a number with a carry of 0 or 1,
and the rest is arithmetic on digits (`Nibbles`, `ModAbove`).

`HdmaProofs` (any number of blocks and slots, any request, that of all 128 blocks
included) proves `HdmaInv`, `BlocksAreInPlace` and `OnlyRequestedSlots`. A transfer that has
stopped must still say how far it came, which its register does not always do; `Rests` takes it
from `job.done`. `BankKept` adds that the VRAM bank is the request's as long as nothing
interfered. `HBlankKeepsHInv` is the step that counts: the block copied now
lands in the slot at distance `job.done` from the first one and in no slot already
filled, also when source or destination wraps (`ModNext`, `SlotDistance`).

`PpuProofs` (lines and frames of any size, any penalties and scrolls, both speeds,
both kinds of machine) proves `PpuInv`, `DrawingHidesVram`, `DrawingHidesOam`,
`HBlankRequestIsOnTime` and the refinement of `FrameAbs`. The proofs go by the dot:
`DotEffect` says what a dot does to each field, `DotFits` that it keeps the agreement
of clock, LY and mode (`Fits`), and `TickFits` puts the two or four dots of an M-cycle
together. The upper bound of mode 3 is not inductive for a dot. A raise of SCX in
mode 0 puts the PPU back into mode 3 on a line it has drawn, for one dot in which the
bound does not hold; `NearlyFits` is what is left of the invariant then, and the next
dot restores it. For the refinement the inductive invariant `FInv` adds, in a frame
that is not `rude`, that mode 0 has begun for good (`Settled`) and that no more window
lines are counted than lines (`WindowFits`). `FrameAbs` takes one step in an
M-cycle, so at most one line or vertical blank may fall into its four dots: after a
line is drawn no line ends for at least `StatDelay` dots, and after a vertical blank
the clock is at the start of a line (`Quiet`, `Stage`).

`FifoProofs` (lines and maps of any width, any scroll and window, any objects, any
number of them) proves `FifoInv`, `QueueIsNextPixels`, `PixelsAreTheScanlines` and
`PenaltyEmerges`: the FIFO and the scanline renderer agree on every line, contested
pixels aside. The invariant `IInv` has three parts.
The queue (`Pipeline`): eight times the tiles pushed is the pixels waiting and shown,
less those still to be discarded, plus the offset of the first tile on the map
(`Counted`). With the tile latched at the fetcher's first step (`Latched`) this says
that the next tile pushed continues the queue, with one `%` at the map's edge
(`ColumnOfTile`). In the window the count starts again at its left edge, and so it must
not begin later than its first pixel: `Early` and `NotYet` say so before and after
`Triggered`. Objects leave all this alone (`Kept`).
The objects (`Served`): the slot of a column holds the first of the fetched objects
that is opaque there (`Slot`), because they are fetched by priority. When a pixel comes
out, every object not yet fetched lies to its right, because priority is by x (`Ranks`,
`SelectedIs`: a rank is a count, and no two objects have the same). So what
`render_scanline` shows there is the slot, the background or a contested case
(`PixelIs`).
The clock (`Clock`): the dots so far are the pixels out and discarded, what the objects
fetched so far cost together (`Owed`) less the stall that is left, the warm-up of the
line and that of the window (`Used`). This holds because the queue, once filled, never
runs dry: it lasts until the fetcher's next push (`Rest`, `Running`), stall or no stall,
since a stall stops both. `Owed` and `Fetches` are recursive functions. That they exist
and can be unfolded is `Recursion`; a fact about all their values is the set of
arguments where it holds, which `CountUp` shows to be all of them (there is no least
number outside, `Least`). `ThePenaltyFits` adds that a penalty is 0 or between 3 and
107, the range (`Pens`) for which `PpuProofs` needs room on the line.

Model-checked only: liveness. Every invariant and every action property of the passing
runs is a theorem. `LineEnds` in particular rests on the fairness of the loop: the
proofs say how many dots a line takes when it ends.

The assumptions of the proofs are the named ASSUMEs of the modules, which TLC evaluates
in the runs. They are what the constants of the code satisfy. In particular the window
line, a byte, cannot wrap within a frame (`VblankLine < WinSize`, 144 below 256); a line
with its fine scroll or its window's offset is shorter than the map (`Width + 16 <=
MapWidth`, 176 below 256), without which the window could wrap; `MaxDots`, up to which
the model counts a line's dots, is not reached by two warm-ups, the fine scroll and
eleven dots an object (`Width + 29 + 11 * MaxObjs < MaxDots`; 299 dots in the code,
whose count is an `int`); the reported mode is delayed by at least an M-cycle and by
more than an odd SCX adds (`StatDelay`, 8 dots against 7); the longest mode 3 leaves
room on the line; and the largest request fits in a VRAM bank (`Flag <= Slots`, 128 below
512).

## Disagreements found

* EI; DI leaves the interrupts enabled (`cpu_di`).
* EI; HALT with a request pending moves the HALT bug into the handler
  (`cpu_halt_bug`).
* A line whose mode 0 has begun is rendered again after a raise of SCX
  (`ppu_line`).
* `while (gb.frame_count == f)` never ends with the LCD off (`ppu_loop`).

Others, met while modelling; the models behave as the code does.

* `service_interrupt` chooses the interrupt and acknowledges it before both pushes, so a
  push that overwrites IE changes nothing. The hardware looks at IE after the first
  push, and may then serve another interrupt or none. `STATUS.md` 298 and `progress.md`
  1106 list this (`ie_push`) as failing. `Service` follows the code, and
  `HandlerIsAcknowledged` holds in either order: no run says that the code's is right.
* LCD-on requests a STAT interrupt for the HBlank source; an interrupted EI turns
  IME on in the handler; HDMA copies the bus value of an OAM DMA.
* Of two overlapping objects, the upper one hidden by the background, the scanline
  renderer shows the lower one (`src/ppu.c` 129) and the FIFO neither
  (`src/ppu_fifo.c` 145). `STATUS.md` 67-70 calls the two pixel-identical;
  `Contested` names the case.
* A line without objects takes 171 + (SCX & 7) dots in the FIFO, as `STATUS.md` 85
  says, and not 172 as in `src/ppu_fifo.c` 12. Objects take three dots more than
  `obj_mode3_penalty` says, on every line where that is not 0 (`TheStallsAreThePenalty`).
* F9 reads into the running machine: a cut state file leaves a machine made of two,
  the mapper's registers included, or pointers of another process, though a comment
  says that the buffers belong to the live cartridge (`src/state.c` 57-64). A failed F5 has already destroyed the
  previous file and prints "[state saved]" (`src/play.c` 106).
* `quick.gss` is one file for all ROMs: F9 may bring in another cartridge's mapper,
  battery flag and machine without an error.
* F9 does not clear the ring, so Backspace after it may go forward in time; a tap
  of Backspace counts as a turn, so snapshots may be more than `REW_EVERY` frames
  apart; held past the oldest snapshot, Backspace plays on.
* `cart_save_battery` ignores short writes. A cartridge of type 0x0F has a clock
  and a battery but no RAM, and its clock is never saved, unlike `src/cart.c` 108
  says. Without a mapper RAM can be written but reads as 0xFF.
* A ROM file shorter than its header says may have a number of banks that is no
  power of two, and then some of them can never be read; one of less than two banks
  is read beyond its end, as `rom_banks` is still 2 (`src/cart.c` 69-71, 133), and so may be a
  ROM under the state of a larger cartridge. `ReadsStayInRom` leaves the last two out.
* A stopped HBlank transfer keeps the blocks left in `hdma_len`, but FF55 never shows
  them: it reads 0xFF (`src/bus.c` 94, 149-150).

## Not modelled, and the plan

1. `Sweep`: the arithmetic of the frequency sweep, with theorems like those of `Alu`;
   the bitwise instructions, and DAA after operands that are not decimal.
2. `Serial`, joypad and the composition of timer, PPU, OAM DMA and serial port
   in the order of `tick()`, with IF shared with `Cpu`.
3. The colour renderer's priorities (`render_scanline_cgb`), if a question about
   them comes up that is not a table look-up.

Left out for good: the mixing and filtering of samples, tile decoding, shades and
colours, the timing and audio of the front end, the option `--frames`, text output
of debugger and disassembler, SDL and PNG code.
