-------------------------------- MODULE Cart --------------------------------
(***************************************************************************)
(* src/cart.c: the cartridge, its bank registers, RAM and battery file.    *)
(*                                                                         *)
(* A cartridge is a record c, the Cart of gb.h without its two buffers;    *)
(* its RAM is a function of its own, because save states and the rewind    *)
(* ring copy the two separately.  These are operators on c and ram; who    *)
(* uses them keeps the state.                                              *)
(***************************************************************************)
EXTENDS Integers, Sequences

CONSTANTS Roms,       \* the cartridges there are
          Header,     \* what each says in 0x147, 0x148 and 0x149, and how many
                      \* whole banks of 16 KB its file has
          BankCells,  \* bytes of a RAM bank (0x2000)
          Mbc2Cells   \* cells of the RAM built into an MBC2 (512)

\* The last RAM code known to RAM_SIZE_TABLE is 5.  A ROM file may be shorter or
\* longer than its header says.
ASSUME CartAssumption ==
  /\ Header \in [Roms -> [type : 0 .. 255, romCode : 0 .. 8, ramCode : 0 .. 255, file : Nat]]
  /\ BankCells \in Nat \ {0} /\ Mbc2Cells \in Nat \ {0}

Byte == 0 .. 255

CartState ==
  [title : Roms, mbc : {0, 1, 2, 3, 5}, romBanks : 2 .. 512, ramBanks : Nat,
   battery : BOOLEAN,
   en : BOOLEAN,                       \* ram_enable
   lo : Byte, hi : 0 .. 3, rb : Byte,  \* bank_lo, bank_hi, ram_bank
   mode : 0 .. 1, rtc : [0 .. 4 -> Byte]]
-----------------------------------------------------------------------------
\* cart_load.  An unknown type counts as MBC1.
Mbc(r) == LET t == Header[r].type
          IN  IF t = 0 THEN 0 ELSE IF t \in 5 .. 6 THEN 2
              ELSE IF t \in 15 .. 19 THEN 3 ELSE IF t \in 25 .. 30 THEN 5 ELSE 1

HasBattery(r) == Header[r].type \in {3, 6, 9, 15, 16, 19, 27, 30}

\* rom_banks: what the header says, or what the file has, but two at least.
Promised(r) == <<2, 4, 8, 16, 32, 64, 128, 256, 512>>[Header[r].romCode + 1]

BugRomBanks(r) == Promised(r)                       \* whatever the file has

RomBanks(r) == LET n == IF Promised(r) > Header[r].file THEN Header[r].file ELSE Promised(r)
               IN  IF n < 2 THEN 2 ELSE n

RamBanks(r) == LET k == Header[r].ramCode
               IN  IF Mbc(r) = 2 THEN 1
                   ELSE IF k \in 2 .. 5 THEN <<1, 4, 16, 8>>[k - 1] ELSE 0

RamCells(r) == IF Mbc(r) = 2 THEN Mbc2Cells ELSE RamBanks(r) * BankCells

Ram(r) == [0 .. RamCells(r) - 1 -> Byte]

Loaded(r) ==
  [title |-> r, mbc |-> Mbc(r), romBanks |-> RomBanks(r), ramBanks |-> RamBanks(r),
   battery |-> HasBattery(r), en |-> FALSE, lo |-> 1, hi |-> 0, rb |-> 0,
   mode |-> 0, rtc |-> [i \in 0 .. 4 |-> 0]]

EmptyRam(r) == [i \in 0 .. RamCells(r) - 1 |-> 0]
-----------------------------------------------------------------------------
\* The ROM bank at 0x4000 as the registers name it, and the one at 0.
NotZero(b) == IF b = 0 THEN 1 ELSE b

HighRomBank(c) ==
  IF c.mbc = 1 THEN (c.hi * 32) + NotZero(c.lo % 32)
  ELSE IF c.mbc = 2 THEN NotZero(c.lo % 16)
  ELSE IF c.mbc = 3 THEN NotZero(c.lo % (IF c.romBanks > 128 THEN 256 ELSE 128))
  ELSE IF c.mbc = 5 THEN c.hi * 256 + c.lo
  ELSE 1

LowRomBank(c) == IF c.mbc = 1 /\ c.mode = 1 THEN c.hi * 32 ELSE 0

\* b & m, for an m of nine bits.
And(b, m) == LET both(w) == ((b \div w) % 2) * ((m \div w) % 2) * w
             IN  both(1) + both(2) + both(4) + both(8) + both(16)
                   + both(32) + both(64) + both(128) + both(256)

\* The bank rom_byte reads.  Of a file whose length is no power of two the mask
\* hides some banks.
RomBank(c, b) == And(b, c.romBanks - 1)

RamBank(c) == IF c.mbc = 1 THEN (IF c.mode = 1 THEN c.hi ELSE 0)
              ELSE IF c.mbc = 5 THEN c.rb % 16
              ELSE IF c.mbc = 3 THEN c.rb % 4 ELSE 0

\* The cell behind address a of the RAM window, in the buffer or not.
RamCell(c, a) ==
  IF c.mbc = 2 THEN a % Mbc2Cells
  ELSE (IF c.ramBanks = 0 THEN RamBank(c) ELSE RamBank(c) % c.ramBanks) * BankCells + a

RtcSelected(c) == c.mbc = 3 /\ c.rb \in 8 .. 12

\* What a read of the RAM window gives.
RamRead(c, ram, a) ==
  IF ~c.en THEN 255
  ELSE IF RtcSelected(c) THEN c.rtc[c.rb - 8]
  ELSE IF RamCell(c, a) \notin DOMAIN ram THEN 255
  ELSE IF c.mbc = 2 THEN 240 + (ram[RamCell(c, a)] % 16)
  ELSE ram[RamCell(c, a)]
-----------------------------------------------------------------------------
\* A write: the block of 0x1000 it falls in (10 is the RAM window), bit 8 of
\* the address, the address within a RAM bank, and the value.
Write == [block : (0 .. 7) \cup {10}, bit8 : BOOLEAN, a : 0 .. BankCells - 1, val : Byte]

Enables(w) == w.val % 16 = 10

\* cart_write to the registers, mapper by mapper; the clock is one of them.
Mbc1Written(c, w) ==
  IF w.block \in 0 .. 1 THEN [c EXCEPT !.en = Enables(w)]
  ELSE IF w.block \in 2 .. 3 THEN [c EXCEPT !.lo = w.val % 32]
  ELSE IF w.block \in 4 .. 5 THEN [c EXCEPT !.hi = w.val % 4]
  ELSE IF w.block \in 6 .. 7 THEN [c EXCEPT !.mode = w.val % 2] ELSE c

Mbc2Written(c, w) ==
  IF w.block \notin 0 .. 3 THEN c
  ELSE IF w.bit8 THEN [c EXCEPT !.lo = w.val % 16] ELSE [c EXCEPT !.en = Enables(w)]

Mbc3Written(c, w) ==
  IF w.block \in 0 .. 1 THEN [c EXCEPT !.en = Enables(w)]
  ELSE IF w.block \in 2 .. 3 THEN [c EXCEPT !.lo = w.val]
  ELSE IF w.block \in 4 .. 5 THEN [c EXCEPT !.rb = w.val]
  ELSE IF w.block = 10 /\ c.en /\ RtcSelected(c)
       THEN [c EXCEPT !.rtc = [@ EXCEPT ![c.rb - 8] = w.val]] ELSE c

Mbc5Written(c, w) ==
  IF w.block \in 0 .. 1 THEN [c EXCEPT !.en = Enables(w)]
  ELSE IF w.block = 2 THEN [c EXCEPT !.lo = w.val]
  ELSE IF w.block = 3 THEN [c EXCEPT !.hi = w.val % 2]
  ELSE IF w.block \in 4 .. 5 THEN [c EXCEPT !.rb = w.val % 16] ELSE c

Written(c, w) ==
  IF c.mbc = 1 THEN Mbc1Written(c, w) ELSE IF c.mbc = 2 THEN Mbc2Written(c, w)
  ELSE IF c.mbc = 3 THEN Mbc3Written(c, w) ELSE IF c.mbc = 5 THEN Mbc5Written(c, w)
  ELSE c

\* cart_write to the RAM window.  Without a mapper nothing protects the RAM.
RamWritten(c, ram, w) ==
  IF /\ w.block = 10
     /\ c.en \/ c.mbc = 0
     /\ ~RtcSelected(c)
     /\ RamCell(c, w.a) \in DOMAIN ram
  THEN [ram EXCEPT ![RamCell(c, w.a)] = IF c.mbc = 2 THEN w.val % 16 ELSE w.val]
  ELSE ram
-----------------------------------------------------------------------------
\* The battery file: the RAM, and the clock of an MBC3 behind it.
BugSavFile(c, ram) == [ram |-> ram, rtc |-> <<>>]   \* the clock is forgotten

SavFile(c, ram) == [ram |-> ram, rtc |-> IF c.mbc = 3 THEN <<c.rtc>> ELSE <<>>]

IsSav(r, file) ==
  /\ \E n \in 0 .. RamCells(r) : file.ram \in [0 .. n - 1 -> Byte]
  /\ file.rtc = <<>> \/ (Len(file.rtc) = 1 /\ file.rtc[1] \in [0 .. 4 -> Byte])

\* What the file holds when the write of it stops early; the five bytes of the
\* clock count as one.
CutSavs(r, file) ==
  {[ram |-> [i \in 0 .. n - 1 |-> file.ram[i]], rtc |-> <<>>] : n \in 0 .. RamCells(r)}

\* What is read of it; a short file leaves the rest as it was at power-up.
SavedRam(r, file) ==
  [i \in 0 .. RamCells(r) - 1 |-> IF i \in DOMAIN file.ram THEN file.ram[i] ELSE 0]

SavedRtc(c, file) == IF c.mbc = 3 /\ file.rtc # <<>> THEN [c EXCEPT !.rtc = file.rtc[1]] ELSE c
=============================================================================
