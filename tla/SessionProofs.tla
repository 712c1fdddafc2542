--------------------------- MODULE SessionProofs ---------------------------
(***************************************************************************)
(* Proofs about Cart and Session, for every set of cartridges, every       *)
(* program, and any sizes of the ring and of the RAM.                      *)
(***************************************************************************)
EXTENDS Session, TLAPS

Mappers == {0, 1, 2, 3, 5}

(* The sizes a header can promise.                                           *)
LEMMA PromisedIs ==
  ASSUME NEW r \in Roms  PROVE Promised(r) \in {2, 4, 8, 16, 32, 64, 128, 256, 512}
<1> DEFINE k == Header[r].romCode
<1>1. k \in 0 .. 8  BY CartAssumption
<1>2. k = 0 \/ k = 1 \/ k = 2 \/ k = 3 \/ k = 4 \/ k = 5 \/ k = 6 \/ k = 7 \/ k = 8
  BY <1>1
<1> QED  BY <1>2 DEF Promised

(* rom_banks: no more than a file of at least two banks has, and as many as  *)
(* the header says if the file has them.                                     *)
LEMMA RomBanksIs ==
  ASSUME NEW r \in Roms
  PROVE  /\ Header[r].file \in Nat /\ RomBanks(r) \in 2 .. 512
         /\ Header[r].file >= 2 => RomBanks(r) <= Header[r].file
         /\ Header[r].file >= Promised(r) => RomBanks(r) = Promised(r)
<1>1. PICK f \in Nat : Header[r].file = f  BY CartAssumption
<1>2. PICK p \in 2 .. 512 : Promised(r) = p
  <2>1. Promised(r) \in 2 .. 512  BY PromisedIs
  <2> QED  BY <2>1
<1>3. RomBanks(r) = LET n == IF p > f THEN f ELSE p IN IF n < 2 THEN 2 ELSE n
  BY <1>1, <1>2 DEF RomBanks
<1> QED  BY <1>1, <1>2, <1>3

(* What cart_load makes of a header has the types of gb.h. *)
LEMMA LoadedType ==
  ASSUME NEW r \in Roms
  PROVE  /\ Mbc(r) \in Mappers /\ RamBanks(r) \in Nat /\ RomBanks(r) \in 2 .. 512
         /\ RamCells(r) \in Nat
         /\ EmptyRam(r) \in Ram(r) /\ Loaded(r) \in CartState
<1> DEFINE h == Header[r]
<1>h. h.type \in 0 .. 255 /\ h.romCode \in 0 .. 8 /\ h.ramCode \in 0 .. 255
  BY CartAssumption
<1>1. Mbc(r) \in Mappers  BY DEF Mbc, Mappers
<1>2. RamBanks(r) \in Nat
  <2>1. CASE h.ramCode \in 2 .. 5
    <3>1. h.ramCode = 2 \/ h.ramCode = 3 \/ h.ramCode = 4 \/ h.ramCode = 5  BY <2>1
    <3> QED  BY <3>1 DEF RamBanks
  <2>2. CASE h.ramCode \notin 2 .. 5  BY <2>2 DEF RamBanks
  <2> QED  BY <2>1, <2>2
<1>3. RomBanks(r) \in 2 .. 512  BY RomBanksIs
<1>4. RamCells(r) \in Nat  BY <1>2, CartAssumption DEF RamCells
<1>5. EmptyRam(r) \in Ram(r)  BY <1>4 DEF EmptyRam, Ram, Byte
<1>6. HasBattery(r) \in BOOLEAN  BY DEF HasBattery
<1>7. Loaded(r) \in CartState
  <2>1. [i \in 0 .. 4 |-> 0] \in [0 .. 4 -> Byte]  BY DEF Byte
  <2> QED  BY <1>1, <1>2, <1>3, <1>6, <2>1 DEF Loaded, CartState, Mappers, Byte
<1> QED  BY <1>1, <1>2, <1>3, <1>4, <1>5, <1>7

(* A write to the registers leaves the cartridge's own data alone, and the   *)
(* clock of anything but an MBC3.                                            *)
Same(c, d) == /\ d.title = c.title /\ d.mbc = c.mbc /\ d.battery = c.battery
              /\ d.romBanks = c.romBanks /\ d.ramBanks = c.ramBanks
              /\ (c.mbc # 3 => d.rtc = c.rtc)

(* cart_write moves registers only: type, size and title of a cartridge stay.*)
LEMMA WrittenType ==
  ASSUME NEW c \in CartState, NEW w \in Write
  PROVE  Written(c, w) \in CartState /\ Same(c, Written(c, w))
<1>w. /\ w.val \in 0 .. 255 /\ w.block \in (0 .. 7) \cup {10}
      /\ w.val % 32 \in Byte /\ w.val % 16 \in Byte /\ w.val \in Byte
      /\ w.val % 4 \in 0 .. 3 /\ w.val % 2 \in 0 .. 1 /\ w.val % 2 \in 0 .. 3
  BY DEF Write, Byte
<1>e. Enables(w) \in BOOLEAN  BY DEF Enables
<1>1. Mbc1Written(c, w) \in CartState /\ Same(c, Mbc1Written(c, w))
  BY <1>w, <1>e DEF Mbc1Written, CartState, Same
<1>2. Mbc2Written(c, w) \in CartState /\ Same(c, Mbc2Written(c, w))
  BY <1>w, <1>e DEF Mbc2Written, CartState, Same
<1>3. c.mbc = 3 => Mbc3Written(c, w) \in CartState /\ Same(c, Mbc3Written(c, w))
  <2> SUFFICES ASSUME c.mbc = 3
               PROVE  Mbc3Written(c, w) \in CartState /\ Same(c, Mbc3Written(c, w))
    OBVIOUS
  <2>1. RtcSelected(c) => [c.rtc EXCEPT ![c.rb - 8] = w.val] \in [0 .. 4 -> Byte]
    BY <1>w DEF RtcSelected, CartState
  <2> QED  BY <1>w, <1>e, <2>1 DEF Mbc3Written, CartState, Same
<1>5. Mbc5Written(c, w) \in CartState /\ Same(c, Mbc5Written(c, w))
  BY <1>w, <1>e DEF Mbc5Written, CartState, Same
<1> QED  BY <1>1, <1>2, <1>3, <1>5 DEF Written, Same

(* A write to RAM keeps its size and its bytes. *)
LEMMA RamWrittenType ==
  ASSUME NEW c, NEW r \in Roms, NEW m \in Ram(r), NEW w \in Write
  PROVE  RamWritten(c, m, w) \in Ram(r)
<1>1. w.val \in Byte /\ w.val % 16 \in Byte  BY DEF Write, Byte
<1> QED  BY <1>1 DEF RamWritten, Ram

(* A position of the ring.                                                   *)
LEMMA ModInRange == ASSUME NEW b \in Nat, NEW n \in Nat \ {0}  PROVE b % n \in 0 .. n - 1
OBVIOUS

(* The indices of the ring: one turn at most. *)
LEMMA ModIs ==
  ASSUME NEW n \in Nat \ {0}, NEW a \in Int, 0 - n <= a, a < 2 * n
  PROVE  a % n = IF a < 0 THEN a + n ELSE IF a < n THEN a ELSE a - n
OBVIOUS

(* The mask of rom_byte, bit by bit.                                         *)
Bit(x, w) == (x \div w) % 2

Weights == {1, 2, 4, 8, 16, 32, 64, 128, 256}

(* A bit is 0 or 1.                                                          *)
LEMMA BitType == ASSUME NEW x \in Nat, NEW w \in Weights  PROVE Bit(x, w) \in {0, 1}
<1>1. x \div w \in Nat  BY DEF Weights
<1> QED  BY <1>1 DEF Bit

(* A number of nine bits is the sum of them.                                 *)
LEMMA BitsOf ==
  ASSUME NEW m \in 0 .. 511
  PROVE  m = Bit(m, 1) + 2 * Bit(m, 2) + 4 * Bit(m, 4) + 8 * Bit(m, 8) + 16 * Bit(m, 16)
             + 32 * Bit(m, 32) + 64 * Bit(m, 64) + 128 * Bit(m, 128) + 256 * Bit(m, 256)
BY DEF Bit

(* A bit that two numbers share is at most that bit of the second.           *)
LEMMA BitBoth ==
  ASSUME NEW b \in Nat, NEW m \in Nat, NEW w \in Weights
  PROVE  Bit(b, w) * Bit(m, w) * w \in Nat /\ Bit(b, w) * Bit(m, w) * w <= w * Bit(m, w)
<1>1. Bit(b, w) \in {0, 1} /\ Bit(m, w) \in {0, 1}  BY BitType
<1>2. PICK x \in {0, 1}, y \in {0, 1} : Bit(b, w) = x /\ Bit(m, w) = y  BY <1>1
<1>3. x * y * w \in Nat /\ x * y * w <= w * y  BY DEF Weights
<1> QED  BY <1>2, <1>3

(* Masked, a number is at most the mask, whatever bits the mask has.         *)
LEMMA MaskStays == ASSUME NEW b \in Nat, NEW m \in 0 .. 511  PROVE And(b, m) \in 0 .. m
<1> DEFINE t(w) == Bit(b, w) * Bit(m, w) * w
           s(w) == w * Bit(m, w)
<1>1. And(b, m) = t(1) + t(2) + t(4) + t(8) + t(16) + t(32) + t(64) + t(128) + t(256)
  BY DEF And, Bit
<1>2. \A w \in Weights : t(w) \in Nat /\ t(w) <= s(w) /\ s(w) \in Nat
  <2> SUFFICES ASSUME NEW w \in Weights  PROVE t(w) \in Nat /\ t(w) <= s(w) /\ s(w) \in Nat
    OBVIOUS
  <2>1. m \in Nat  OBVIOUS
  <2>2. t(w) \in Nat /\ t(w) <= s(w)  BY <2>1, BitBoth
  <2>3. s(w) \in Nat  BY <2>1, BitType DEF Weights
  <2> QED  BY <2>2, <2>3
<1>3. m = s(1) + s(2) + s(4) + s(8) + s(16) + s(32) + s(64) + s(128) + s(256)
  <2>1. s(1) = Bit(m, 1)  BY BitType DEF Weights
  <2> QED  BY <2>1, BitsOf
<1> HIDE DEF t, s
<1> QED  BY <1>1, <1>2, <1>3 DEF Weights

(* The mask of a power of two keeps the low bits.                            *)
LEMMA MaskIsMod ==
  ASSUME NEW b \in 0 .. 1023, NEW n \in {2, 4, 8, 16, 32, 64, 128, 256, 512}
  PROVE  And(b, n - 1) = b % n
<1>1. CASE n = 2    BY <1>1, SMTT(30) DEF And
<1>2. CASE n = 4    BY <1>2, SMTT(30) DEF And
<1>3. CASE n = 8    BY <1>3, SMTT(30) DEF And
<1>4. CASE n = 16   BY <1>4, SMTT(30) DEF And
<1>5. CASE n = 32   BY <1>5, SMTT(30) DEF And
<1>6. CASE n = 64   BY <1>6, SMTT(60) DEF And
<1>7. CASE n = 128  BY <1>7, SMTT(60) DEF And
<1>8. CASE n = 256  BY <1>8, SMTT(60) DEF And
<1>9. CASE n = 512  BY <1>9, SMTT(60) DEF And
<1> QED  BY <1>1, <1>2, <1>3, <1>4, <1>5, <1>6, <1>7, <1>8, <1>9

(* The banks that the registers can name: ten bits.                          *)
LEMMA NamedBanks ==
  ASSUME NEW c \in CartState
  PROVE  LowRomBank(c) \in 0 .. 1023 /\ HighRomBank(c) \in 0 .. 1023
<1>t. /\ c.hi \in {0, 1, 2, 3} /\ c.lo \in 0 .. 255 /\ c.mode \in 0 .. 1
  BY DEF CartState, Byte
<1>1. LowRomBank(c) \in 0 .. 1023  BY <1>t DEF LowRomBank
<1>2. /\ c.lo % 32 \in 0 .. 31 /\ c.lo % 16 \in 0 .. 15
      /\ c.lo % (IF c.romBanks > 128 THEN 256 ELSE 128) \in 0 .. 255
  <2>1. c.lo % 256 \in 0 .. 255 /\ c.lo % 128 \in 0 .. 127  BY <1>t
  <2> QED  BY <1>t, <2>1
<1>3. /\ \A b \in 0 .. 255 : NotZero(b) \in 1 .. 255
      /\ \A b \in 0 .. 31 : NotZero(b) \in 1 .. 31
  BY DEF NotZero
<1>4. HighRomBank(c) \in 0 .. 1023
  <2> DEFINE x == c.lo % 32
             y == c.lo % 16
             z == c.lo % (IF c.romBanks > 128 THEN 256 ELSE 128)
  <2>1. HighRomBank(c) \in {(c.hi * 32) + NotZero(x), NotZero(y), NotZero(z),
                            c.hi * 256 + c.lo, 1}
    BY DEF HighRomBank
  <2>2. x \in 0 .. 31 /\ y \in 0 .. 255 /\ z \in 0 .. 255  BY <1>2
  <2> HIDE DEF x, y, z
  <2>3. NotZero(x) \in 1 .. 31 /\ NotZero(y) \in 1 .. 255 /\ NotZero(z) \in 1 .. 255
    BY <1>3, <2>2
  <2> QED  BY <1>t, <2>1, <2>3
<1> QED  BY <1>1, <1>4

(* The bank arithmetic of cart.c 67-71 and 132-168, for a cartridge as       *)
(* cart_load made it of any file that has two banks, whatever the program    *)
(* wrote to the registers: neither ROM window reaches outside the file, be   *)
(* it shorter than its header says or of a length that is no power of two; a *)
(* file that is complete shows the bank the registers name; and the window   *)
(* at 0x4000 of an MBC1, MBC2 or MBC3 is never at bank 0 before the mask, on *)
(* an MBC1 not even at bank 0x20, 0x40 or 0x60.                              *)
THEOREM RomWindows ==
  ASSUME NEW r \in Roms, NEW c \in CartState,
         c.romBanks = RomBanks(r), Header[r].file >= 2
  PROVE  /\ \A b \in {LowRomBank(c), HighRomBank(c)} :
              /\ RomBank(c, b) \in 0 .. Header[r].file - 1
              /\ Header[r].file >= Promised(r) => RomBank(c, b) = b % Promised(r)
         /\ c.mbc = 1 => HighRomBank(c) % 32 # 0
         /\ c.mbc \in {2, 3} => HighRomBank(c) # 0
<1>t. /\ c.hi \in 0 .. 3 /\ c.lo \in 0 .. 255 /\ c.mode \in 0 .. 1
  BY DEF CartState, Byte
<1>1. ASSUME NEW b \in {LowRomBank(c), HighRomBank(c)}
      PROVE  /\ RomBank(c, b) \in 0 .. Header[r].file - 1
             /\ Header[r].file >= Promised(r) => RomBank(c, b) = b % Promised(r)
  <2>1. PICK n \in 2 .. 512, f \in Nat :
          /\ c.romBanks = n /\ Header[r].file = f /\ n <= f
          /\ f >= Promised(r) => n = Promised(r)
    BY RomBanksIs
  <2>2. b \in 0 .. 1023
    <3>1. LowRomBank(c) \in 0 .. 1023 /\ HighRomBank(c) \in 0 .. 1023  BY NamedBanks
    <3> QED  BY <3>1
  <2>3. RomBank(c, b) = And(b, n - 1)  BY <2>1 DEF RomBank
  <2>4. And(b, n - 1) \in 0 .. f - 1
    <3>1. n - 1 \in 0 .. 511 /\ b \in Nat  BY <2>2
    <3>2. And(b, n - 1) \in 0 .. n - 1  BY <3>1, MaskStays
    <3> QED  BY <2>1, <3>2
  <2>5. ASSUME f >= Promised(r)  PROVE And(b, n - 1) = b % Promised(r)
    <3>1. n = Promised(r)  BY <2>1, <2>5
    <3> DEFINE Sizes == {2, 4, 8, 16, 32, 64, 128, 256, 512}
               Named == 0 .. 1023
    <3>2. n \in Sizes /\ b \in Named  BY <2>2, <3>1, PromisedIs
    <3>3. \A x \in Named, k \in Sizes : And(x, k - 1) = x % k  BY MaskIsMod
    <3> HIDE DEF Sizes, Named
    <3>4. And(b, n - 1) = b % n  BY <3>2, <3>3
    <3> QED  BY <3>1, <3>4
  <2> QED  BY <2>1, <2>3, <2>4, <2>5
<1>2. c.mbc = 1 => HighRomBank(c) % 32 # 0
  BY <1>t DEF HighRomBank, NotZero
<1>3. c.mbc \in {2, 3} => HighRomBank(c) # 0
  BY <1>t DEF HighRomBank, NotZero
<1> QED  BY <1>1, <1>2, <1>3

(* The RAM of cart.c 199-263: a write changes at most one cell, none while   *)
(* the RAM is disabled (except without a mapper) or the clock is selected,   *)
(* and what it stored is what the same address reads back, on an MBC2 with   *)
(* the upper half set.                                                       *)
THEOREM RamIsProtected ==
  ASSUME NEW c \in CartState, NEW r \in Roms, NEW m \in Ram(r), NEW w \in Write,
         w.block = 10
  PROVE  /\ ~c.en /\ c.mbc # 0 => RamWritten(c, m, w) = m
         /\ RtcSelected(c) => RamWritten(c, m, w) = m
         /\ \A i \in DOMAIN m : i # RamCell(c, w.a) => RamWritten(c, m, w)[i] = m[i]
         /\ c.en /\ ~RtcSelected(c) /\ RamCell(c, w.a) \in DOMAIN m
              => RamRead(c, RamWritten(c, m, w), w.a)
                   = IF c.mbc = 2 THEN 240 + (w.val % 16) ELSE w.val
<1> DEFINE k == RamCell(c, w.a)
           v == IF c.mbc = 2 THEN w.val % 16 ELSE w.val
           n == [m EXCEPT ![k] = v]
<1>v. w.val \in 0 .. 255  BY DEF Write, Byte
<1>d. DOMAIN n = DOMAIN m  OBVIOUS
<1>m. DOMAIN m = 0 .. RamCells(r) - 1  BY DEF Ram
<1>1. (~c.en /\ c.mbc # 0) \/ RtcSelected(c) => RamWritten(c, m, w) = m
  BY DEF RamWritten
<1>2. \A i \in DOMAIN m : i # k => RamWritten(c, m, w)[i] = m[i]
  BY DEF RamWritten
<1>3. ASSUME c.en, ~RtcSelected(c), k \in DOMAIN m
      PROVE  RamRead(c, RamWritten(c, m, w), w.a)
               = IF c.mbc = 2 THEN 240 + (w.val % 16) ELSE w.val
  <2>1. RamWritten(c, m, w) = n  BY <1>3 DEF RamWritten
  <2>2. n[k] = v  BY <1>3
  <2>3. RamRead(c, n, w.a) = IF c.mbc = 2 THEN 240 + (n[k] % 16) ELSE n[k]
    <3> HIDE DEF n
    <3> QED  BY <1>3, <1>d DEF RamRead
  <2>4. (w.val % 16) % 16 = w.val % 16  BY <1>v
  <2> QED  BY <2>1, <2>2, <2>3, <2>4
<1> QED  BY <1>1, <1>2, <1>3
-----------------------------------------------------------------------------
(***************************************************************************)
(* The inductive invariant of Session.  RamBelongs speaks of the machine   *)
(* that runs; it is inductive only together with the same fact about every *)
(* machine that may come back: those in the ring and in the state file.    *)
(* For the battery file it takes what a machine of the session's own       *)
(* cartridge never loses: its header, and a clock that stands still unless *)
(* there is one.  For the ROM windows it takes the number of its banks.    *)
(***************************************************************************)
NoRtc == [i \in 0 .. 4 |-> 0]

\* Machine g with RAM m is one of cartridge r, if it is not mixed.
Own(g, m, r) ==
  ~g.mixed => /\ g.mirror = m /\ g.cart.title = r /\ g.cart.mbc = Mbc(r)
              /\ g.cart.battery = HasBattery(r) /\ g.cart.romBanks = RomBanks(r)
              /\ (Mbc(r) # 3 => g.cart.rtc = NoRtc)

MachineOk == /\ phase \in {"off", "poll", "frame", "closing"}
             /\ rom \in Roms /\ gb \in Machine /\ ram \in Ram(rom) /\ running \in BOOLEAN
             /\ Own(gb, ram, rom)

\* Slot i is one of the n before the head h.
Live(i, h, n) == IF n <= h THEN h - n <= i /\ i < h ELSE i < h \/ h - n + Slots <= i

RingOk ==
  /\ rew \in [ring : [0 .. Slots - 1 -> {Nothing} \cup Snaps(rom)],
              head : 0 .. Slots - 1, count : 0 .. Slots, rendered : 0 .. Every - 1]
  /\ \A i \in 0 .. Slots - 1 :
       /\ rew.ring[i] # Nothing => Own(rew.ring[i].gb, rew.ring[i].ram, rom)
       /\ Live(i, rew.head, rew.count) => rew.ring[i] # Nothing

\* What a complete state file of an unmixed machine holds.
OwnFile(f) ==
  ~f.gb.mixed =>
    LET t == f.gb.cart.title
    IN  /\ Own(f.gb, f.gb.mirror, t) /\ f.gb.mirror \in Ram(t) /\ f.size = RamCells(t)
        /\ \A i \in DOMAIN f.ram : i \in 0 .. RamCells(t) - 1 /\ f.ram[i] = f.gb.mirror[i]

QuickOk == quick \in Files /\ (quick.part = "all" => OwnFile(quick))

\* A promise is what is in the file.
Kept(r, f, d) ==
  d # Nothing => /\ f = [ram |-> d.ram, rtc |-> IF Mbc(r) = 3 THEN <<d.rtc>> ELSE <<>>]
                 /\ d.ram \in Ram(r) /\ (Mbc(r) # 3 => d.rtc = NoRtc)

DiskOk == /\ DOMAIN sav = Roms /\ DOMAIN due = Roms
          /\ \A r \in Roms : /\ sav[r] = Nothing \/ IsSav(r, sav[r])
                             /\ Kept(r, sav[r], due[r])

IInv == MachineOk /\ RingOk /\ QuickOk /\ DiskOk

(* Slots, state files and promises that are there are not Nothing. *)
LEMMA NotNothing ==
  /\ \A r : \A s \in Snaps(r) : s # Nothing
  /\ \A f \in Files : f.part = "all" => f \in Full
  /\ \A f \in Full : f.part = "all" /\ f # Nothing
  /\ \A m, c : [ram |-> m, rtc |-> c] # Nothing
<1>1. \A r : \A s \in Snaps(r) : s # Nothing
  <2> SUFFICES ASSUME NEW r, NEW s \in Snaps(r), s = Nothing  PROVE FALSE  OBVIOUS
  <2>1. DOMAIN s = {"gb", "ram"}  BY DEF Snaps
  <2>2. DOMAIN Nothing = {"part"}  BY DEF Nothing
  <2> QED  BY <2>1, <2>2
<1>2. \A f \in Files : f.part = "all" => f \in Full
  BY DEF Files, Cut, Nothing
<1>3. \A f \in Full : f.part = "all" /\ f # Nothing
  BY DEF Full, Nothing
<1>4. \A m, c : [ram |-> m, rtc |-> c] # Nothing
  <2> SUFFICES ASSUME NEW m, NEW c, [ram |-> m, rtc |-> c] = Nothing  PROVE FALSE  OBVIOUS
  <2>1. DOMAIN [ram |-> m, rtc |-> c] = {"ram", "rtc"}  OBVIOUS
  <2>2. DOMAIN Nothing = {"part"}  BY DEF Nothing
  <2> QED  BY <2>1, <2>2
<1> QED  BY <1>1, <1>2, <1>3, <1>4

(* A machine that starts is its cartridge's own. *)
LEMMA PowerUpOwn ==
  ASSUME NEW r \in Roms, NEW c \in CartState, Same(Loaded(r), c), NEW m \in Ram(r)
  PROVE  PowerUp(r, c, m) \in Machine /\ Own(PowerUp(r, c, m), m, r)
<1>1. m \in Rams  BY DEF Rams
<1>2. PowerUp(r, c, m) \in Machine  BY <1>1 DEF PowerUp, Machine
<1>3. Own(PowerUp(r, c, m), m, r)  BY DEF PowerUp, Own, Same, Loaded, NoRtc
<1> QED  BY <1>2, <1>3

(* A machine put together from two is a machine, and is marked.              *)
LEMMA MixedOk ==
  ASSUME NEW g \in Machine
  PROVE  Mixed(g) \in Machine /\ Mixed(g).mixed
<1>1. g.cart \in CartState /\ g.cart.title \in Roms  BY DEF Machine, CartState
<1>2. EmptyRam(g.cart.title) \in Rams  BY <1>1, LoadedType DEF Rams
<1> QED  BY <1>2 DEF Mixed, Machine

(* What is read of a battery file. *)
LEMMA SavedOk ==
  ASSUME NEW r \in Roms, NEW f, IsSav(r, f), NEW c \in CartState, Same(Loaded(r), c)
  PROVE  /\ SavedRam(r, f) \in Ram(r)
         /\ SavedRtc(c, f) \in CartState /\ Same(Loaded(r), SavedRtc(c, f))
<1>1. PICK n \in 0 .. RamCells(r) : f.ram \in [0 .. n - 1 -> Byte]  BY DEF IsSav
<1>2. SavedRam(r, f) \in Ram(r)
  <2>1. \A i : (IF i \in DOMAIN f.ram THEN f.ram[i] ELSE 0) \in Byte
    <3> DEFINE m == f.ram
               B == Byte
    <3>1. \A i \in DOMAIN m : m[i] \in B  BY <1>1
    <3>2. 0 \in B  BY DEF Byte
    <3> HIDE DEF m, B
    <3> QED  BY <3>1, <3>2 DEF m, B
  <2> QED  BY <2>1 DEF SavedRam, Ram
<1>3. f.rtc # <<>> => f.rtc[1] \in [0 .. 4 -> Byte]  BY DEF IsSav
<1>4. SavedRtc(c, f) \in CartState /\ Same(Loaded(r), SavedRtc(c, f))
  <2>1. CASE c.mbc = 3 /\ f.rtc # <<>>
    <3>1. SavedRtc(c, f) = [c EXCEPT !.rtc = f.rtc[1]]  BY <2>1 DEF SavedRtc
    <3>2. [c EXCEPT !.rtc = f.rtc[1]] \in CartState  BY <1>3, <2>1 DEF CartState
    <3>3. Same(Loaded(r), [c EXCEPT !.rtc = f.rtc[1]])  BY <2>1 DEF CartState, Same
    <3> QED  BY <3>1, <3>2, <3>3
  <2>2. CASE ~(c.mbc = 3 /\ f.rtc # <<>>)
    <3>1. SavedRtc(c, f) = c  BY <2>2 DEF SavedRtc
    <3> QED  BY <3>1
  <2> QED  BY <2>1, <2>2
<1> QED  BY <1>2, <1>4

(* Off, the machine is an empty one of the last cartridge. *)
LEMMA EmptyOwn ==
  ASSUME NEW r \in Roms
  PROVE  /\ Idle[r] \in Machine /\ Idle[r].mirror = EmptyRam(r)
         /\ Own(Idle[r], EmptyRam(r), r)
<1>1. Same(Loaded(r), Loaded(r))  BY DEF Same
<1>2. Idle[r] = PowerUp(r, Loaded(r), EmptyRam(r))  BY DEF Idle
<1>3. Idle[r].mirror = EmptyRam(r)  BY <1>2 DEF PowerUp
<1> QED  BY <1>1, <1>2, <1>3, LoadedType, PowerUpOwn

(* An empty ring has no filled slot and none that counts.                    *)
LEMMA NoRewOk ==
  /\ NoRew \in [ring : [0 .. Slots - 1 -> {Nothing}],
                head : 0 .. Slots - 1, count : 0 .. Slots, rendered : 0 .. Every - 1]
  /\ \A i : NoRew.ring[i] # Nothing => i \notin 0 .. Slots - 1
  /\ \A i \in 0 .. Slots - 1 : ~Live(i, NoRew.head, NoRew.count)
<1>1. Slots \in Nat \ {0} /\ Every \in Nat \ {0}  BY SessionAssumption
<1> QED  BY <1>1 DEF NoRew, Live

(* So it satisfies what is asked of a ring.                                  *)
LEMMA NoRewRing ==
  ASSUME rew' = NoRew  PROVE RingOk'
BY NoRewOk DEF RingOk

(* A process that ends takes its machine and its ring with it.               *)
LEMMA GoneOk ==
  ASSUME IInv, Gone  PROVE MachineOk' /\ RingOk'
<1>1. rom' \in Roms  BY DEF IInv, MachineOk, Gone
<1>2. RingOk'  BY NoRewRing DEF Gone
<1>3. EmptyRam(rom) \in Ram(rom)  BY LoadedType DEF IInv, MachineOk
<1>4. MachineOk'
  BY <1>1, <1>3, EmptyOwn DEF MachineOk, Gone, IInv
<1> QED  BY <1>2, <1>4

(* The first session finds old battery files or none. *)
LEMMA InitOk == Init => IInv
<1> SUFFICES ASSUME Init  PROVE IInv  OBVIOUS
<1>1. MachineOk
  <2>1. EmptyRam(rom) \in Ram(rom)  BY LoadedType DEF Init
  <2> QED  BY <2>1, EmptyOwn DEF Init, MachineOk
<1>2. RingOk  BY NoRewOk DEF Init, RingOk
<1>3. QuickOk
  <2>1. Nothing.part # "all"  BY DEF Nothing
  <2> QED  BY <2>1 DEF Init, QuickOk, Files
<1>4. DiskOk
  <2>1. \A r \in Roms : sav[r] = Nothing \/ IsSav(r, sav[r])
    BY SessionAssumption DEF Init
  <2>2. DOMAIN sav = Roms /\ DOMAIN due = Roms /\ \A r \in Roms : due[r] = Nothing
    BY DEF Init
  <2> QED  BY <2>1, <2>2 DEF DiskOk, Kept
<1> QED  BY <1>1, <1>2, <1>3, <1>4 DEF IInv

(* A cartridge is loaded, with its battery file if there is one.             *)
LEMMA StartOk ==
  ASSUME IInv, NEW r \in Roms, Start(r)  PROVE IInv'
<1> DEFINE found == HasBattery(r) /\ RamCells(r) > 0 /\ sav[r] # Nothing
           m == IF found THEN SavedRam(r, sav[r]) ELSE EmptyRam(r)
           c == IF found THEN SavedRtc(Loaded(r), sav[r]) ELSE Loaded(r)
<1>1. Same(Loaded(r), Loaded(r))  BY DEF Same
<1>2. m \in Ram(r) /\ c \in CartState /\ Same(Loaded(r), c)
  <2>1. CASE found
    <3>1. IsSav(r, sav[r])  BY <2>1 DEF IInv, DiskOk
    <3> QED  BY <2>1, <3>1, <1>1, LoadedType, SavedOk
  <2>2. CASE ~found  BY <2>2, <1>1, LoadedType
  <2> QED  BY <2>1, <2>2
<1>3. /\ phase' = "poll" /\ running' = TRUE
      /\ rom' = r /\ ram' = m /\ gb' = PowerUp(r, c, m) /\ rew' = NoRew
      /\ UNCHANGED <<quick, sav, due>>
  BY DEF Start, disk
<1>4. MachineOk'
  <2> HIDE DEF m, c
  <2> QED  BY <1>2, <1>3, PowerUpOwn DEF MachineOk
<1>5. RingOk'  BY <1>3, NoRewRing
<1>6. QuickOk' /\ DiskOk'  BY <1>3 DEF IInv, QuickOk, OwnFile, DiskOk
<1> QED  BY <1>4, <1>5, <1>6 DEF IInv

(* F5: of a whole file, the machine and its RAM as far as it was written. *)
LEMMA SaveOk ==
  ASSUME IInv, SaveState  PROVE IInv'
<1>1. UNCHANGED <<phase, rom, gb, ram, rew, running, sav, due>> /\ quick' \in Saved
  BY DEF SaveState, session
<1>2. QuickOk'
  <2> USE DEF IInv, MachineOk
  <2>1. CASE quick' \in {Cut("header"), Cut("memory"), Into(gb.cart)}
    BY <2>1 DEF QuickOk, Files, Cut, Into, Machine
  <2>2. ASSUME NEW n \in 0 .. RamCells(rom),
               quick' = [part |-> "all", gb |-> gb, size |-> RamCells(rom),
                         ram |-> [i \in 0 .. n - 1 |-> ram[i]]]
        PROVE  QuickOk'
    <3>1. RamCells(rom) \in Nat /\ RamCells(rom) <= MaxRam /\ MaxRam \in Nat
      BY LoadedType, SessionAssumption
    <3>2. ram \in [0 .. RamCells(rom) - 1 -> Byte]  BY DEF Ram
    <3>3. [i \in 0 .. n - 1 |-> ram[i]] \in [0 .. n - 1 -> Byte]
      BY <3>1, <3>2
    <3>4. quick' \in Full
      BY <2>2, <3>1, <3>3 DEF Full
    <3>5. OwnFile(quick')
      <4> SUFFICES ASSUME ~gb.mixed  PROVE OwnFile(quick')
        BY <2>2 DEF OwnFile
      <4>1. Own(gb, ram, rom) /\ gb.mirror = ram /\ gb.cart.title = rom
        BY DEF Own
      <4> QED  BY <2>2, <3>1, <4>1 DEF OwnFile
    <3> QED  BY <3>4, <3>5 DEF QuickOk, Files
  <2> QED  BY <1>1, <2>1, <2>2 DEF Saved
<1>3. MachineOk'  BY <1>1 DEF IInv, MachineOk
<1>4. RingOk'  BY <1>1 DEF IInv, RingOk
<1>5. DiskOk'  BY <1>1 DEF IInv, DiskOk
<1> QED  BY <1>2, <1>3, <1>4, <1>5 DEF IInv

(* The fields of one cartridge before those of another are a cartridge's.    *)
LEMMA OverlaidType ==
  ASSUME NEW c \in CartState, NEW d \in CartState, NEW n
  PROVE  Overlaid(c, d, n) \in CartState
<1> DEFINE o == Overlaid(c, d, n)
           own == [title |-> o.title, mbc |-> o.mbc, romBanks |-> o.romBanks,
                   ramBanks |-> o.ramBanks, battery |-> o.battery, en |-> o.en,
                   lo |-> o.lo, hi |-> o.hi, rb |-> o.rb, mode |-> o.mode, rtc |-> o.rtc]
<1>1. DOMAIN c = {"title", "mbc", "romBanks", "ramBanks", "battery", "en", "lo", "hi",
                  "rb", "mode", "rtc"}
  BY DEF CartState
<1>2. DOMAIN o = DOMAIN c /\ o = [x \in DOMAIN c |-> o[x]]  BY DEF Overlaid
<1>3. \A x \in DOMAIN c : o[x] = c[x] \/ o[x] = d[x]  BY DEF Overlaid
<1> HIDE DEF o
<1>4. o = own  BY <1>1, <1>2
<1>5. own \in CartState
  <2>1. /\ o.title \in {c.title, d.title} /\ o.mbc \in {c.mbc, d.mbc}
        /\ o.romBanks \in {c.romBanks, d.romBanks} /\ o.ramBanks \in {c.ramBanks, d.ramBanks}
        /\ o.battery \in {c.battery, d.battery} /\ o.en \in {c.en, d.en}
        /\ o.lo \in {c.lo, d.lo} /\ o.hi \in {c.hi, d.hi} /\ o.rb \in {c.rb, d.rb}
        /\ o.mode \in {c.mode, d.mode} /\ o.rtc \in {c.rtc, d.rtc}
    BY <1>1, <1>3
  <2> QED  BY <2>1 DEF CartState
<1> QED  BY <1>4, <1>5 DEF o

(* F9: the file of another cartridge, or one that is cut, mixes; a whole one *)
(* of this cartridge brings back machine and RAM together.                   *)
LEMMA LoadOk ==
  ASSUME IInv, LoadState  PROVE IInv'
<1>1. UNCHANGED <<rom, rew, running, quick, sav, due>> /\ phase = "poll"
  BY DEF LoadState, disk
<1>2. MachineOk'
  <2> USE DEF IInv, MachineOk
  <2>1. CASE LoadMemory
    BY <1>1, <2>1, MixedOk DEF LoadMemory, Own
  <2>2. CASE LoadCart
    <3>1. quick.cart \in CartState
      BY <2>2 DEF LoadCart, QuickOk, Files, Cut, Nothing, Full
    <3>2. PICK n \in Reaches : gb' = Mixed([gb EXCEPT !.cart = Overlaid(@, quick.cart, n)])
      BY <2>2 DEF LoadCart
    <3>3. Overlaid(gb.cart, quick.cart, n) \in CartState
      BY <3>1, OverlaidType DEF Machine
    <3>4. [gb EXCEPT !.cart = Overlaid(@, quick.cart, n)] \in Machine
      BY <3>3 DEF Machine
    <3> QED  BY <1>1, <2>2, <3>2, <3>4, MixedOk DEF LoadCart, Own
  <2>3. CASE LoadAll
    <3> DEFINE f == quick
    <3>1. f \in Full /\ OwnFile(f)
      BY <2>3, NotNothing DEF LoadAll, QuickOk
    <3>2. f.gb \in Machine /\ f.size \in Nat /\ \A i \in DOMAIN f.ram : f.ram[i] \in Byte
      BY <3>1 DEF Full
    <3>3. ram' = RamLoaded(f) /\ phase' = phase
      BY <2>3 DEF LoadAll
    <3>4. ram' \in Ram(rom)
      <4>1. ram \in [0 .. RamCells(rom) - 1 -> Byte]  BY DEF Ram
      <4>2. [i \in DOMAIN ram |-> IF i \in DOMAIN f.ram THEN f.ram[i] ELSE ram[i]]
              \in [0 .. RamCells(rom) - 1 -> Byte]
        BY <4>1, <3>2
      <4> QED  BY <3>3, <4>1, <4>2 DEF RamLoaded, Ram
    <3>5. gb' \in Machine /\ Own(gb', ram', rom)
      <4>1. CASE f.gb.cart.title # rom \/ (Fits(f) /\ ~Whole(f))
        BY <2>3, <4>1, <3>2, MixedOk DEF LoadAll, Own
      <4>2. CASE ~(f.gb.cart.title # rom \/ (Fits(f) /\ ~Whole(f)))
        <5>1. gb' = f.gb  BY <2>3, <4>2 DEF LoadAll
        <5>2. SUFFICES ASSUME ~f.gb.mixed  PROVE Own(f.gb, ram', rom)
          BY <5>1, <3>2 DEF Own
        <5>3. /\ Own(f.gb, f.gb.mirror, rom) /\ f.gb.mirror \in Ram(rom)
              /\ f.size = RamCells(rom)
              /\ \A i \in DOMAIN f.ram : f.ram[i] = f.gb.mirror[i]
          BY <3>1, <4>2, <5>2 DEF OwnFile
        <5>4. Fits(f)
          BY <5>3, LoadedType DEF Fits
        <5>5. DOMAIN f.ram = 0 .. RamCells(rom) - 1
          BY <4>2, <5>3, <5>4 DEF Whole
        <5>6. ram' = f.gb.mirror
          <6>1. ram' = [i \in DOMAIN ram |-> IF i \in DOMAIN f.ram THEN f.ram[i] ELSE ram[i]]
            BY <3>3, <5>4 DEF RamLoaded
          <6>2. DOMAIN ram = 0 .. RamCells(rom) - 1  BY DEF Ram
          <6>3. f.gb.mirror = [i \in 0 .. RamCells(rom) - 1 |-> f.gb.mirror[i]]
            BY <5>3 DEF Ram
          <6> QED  BY <6>1, <6>2, <6>3, <5>5, <5>3
        <5> QED  BY <5>3, <5>6 DEF Own
      <4> QED  BY <4>1, <4>2
    <3> QED  BY <1>1, <3>3, <3>4, <3>5
  <2> QED  BY <2>1, <2>2, <2>3 DEF LoadState
<1>3. RingOk'  BY <1>1 DEF IInv, RingOk
<1>4. QuickOk' /\ DiskOk'  BY <1>1 DEF IInv, QuickOk, OwnFile, DiskOk
<1> QED  BY <1>2, <1>3, <1>4 DEF IInv

(* The ring moves by one slot. *)
LEMMA Neighbours ==
  ASSUME NEW h \in 0 .. Slots - 1
  PROVE  /\ Before(h) = (IF h = 0 THEN Slots - 1 ELSE h - 1)
         /\ (h + 1) % Slots = (IF h + 1 = Slots THEN 0 ELSE h + 1)
         /\ Before(h) \in 0 .. Slots - 1 /\ (h + 1) % Slots \in 0 .. Slots - 1
<1>1. Slots \in Nat \ {0}  BY SessionAssumption
<1>2. h - 1 + Slots \in Int /\ h + 1 \in Int  BY <1>1
<1>3. (h - 1 + Slots) % Slots = IF h = 0 THEN Slots - 1 ELSE h - 1
  <2> DEFINE a == h - 1 + Slots
  <2>1. a \in Int /\ 0 - Slots <= a /\ a < 2 * Slots  BY <1>1
  <2>2. a % Slots = IF a < 0 THEN a + Slots ELSE IF a < Slots THEN a ELSE a - Slots
    <3> HIDE DEF a
    <3> QED  BY <1>1, <2>1, ModIs
  <2> QED  BY <1>1, <2>2
<1>4. (h + 1) % Slots = IF h + 1 = Slots THEN 0 ELSE h + 1
  BY <1>1, <1>2, ModIs
<1> QED  BY <1>1, <1>3, <1>4 DEF Before

(* The counter of the frames since the last snapshot.                        *)
LEMMA RenderedType ==
  ASSUME NEW n \in 0 .. Every - 1  PROVE (n + 1) % Every \in 0 .. Every - 1
BY SessionAssumption, ModInRange

(* Backspace: the last slot is filled, and is not read again. *)
LEMMA RewindOk ==
  ASSUME IInv, Rewind  PROVE IInv'
<1> DEFINE h == rew.head
           n == rew.count
           b == Before(h)
           s == rew.ring[b]
<1>1. /\ UNCHANGED <<rom, running, quick, sav, due>> /\ phase = "poll" /\ n > 0
      /\ gb' = s.gb /\ ram' = s.ram
      /\ rew' = [rew EXCEPT !.ring = [@ EXCEPT ![b] = Nothing],
                            !.head = b, !.count = n - 1,
                            !.rendered = (@ + 1) % Every]
      /\ phase' \in {"poll", "closing"}
  BY DEF Rewind, disk, Loops
<1>2. /\ Slots \in Nat \ {0} /\ h \in 0 .. Slots - 1 /\ n \in 1 .. Slots
      /\ b = (IF h = 0 THEN Slots - 1 ELSE h - 1) /\ b \in 0 .. Slots - 1
  BY <1>1, SessionAssumption, Neighbours DEF IInv, RingOk
<1>3. s # Nothing
  <2>1. Live(b, h, n)
    <3> HIDE DEF b, h, n
    <3> QED  BY <1>2 DEF Live
  <2> QED  BY <1>2, <2>1 DEF IInv, RingOk
<1>4. s \in Snaps(rom) /\ Own(s.gb, s.ram, rom)
  BY <1>2, <1>3 DEF IInv, RingOk
<1>5. MachineOk'
  BY <1>1, <1>4 DEF IInv, MachineOk, Snaps
<1>6. RingOk'
  <2>1. /\ rew' \in [ring : [0 .. Slots - 1 -> {Nothing} \cup Snaps(rom)],
                     head : 0 .. Slots - 1, count : 0 .. Slots, rendered : 0 .. Every - 1]
        /\ rew'.head = b /\ rew'.count = n - 1
        /\ rew'.ring[b] = Nothing
        /\ \A i \in 0 .. Slots - 1 : i # b => rew'.ring[i] = rew.ring[i]
    <3> HIDE DEF b
    <3>1. (rew.rendered + 1) % Every \in 0 .. Every - 1
      BY RenderedType DEF IInv, RingOk
    <3> DEFINE ring == [rew.ring EXCEPT ![b] = Nothing]
               rest == (rew.rendered + 1) % Every
    <3>2. rew.ring \in [0 .. Slots - 1 -> {Nothing} \cup Snaps(rom)]
      BY DEF IInv, RingOk
    <3>3. /\ ring \in [0 .. Slots - 1 -> {Nothing} \cup Snaps(rom)]
          /\ ring[b] = Nothing /\ \A i \in 0 .. Slots - 1 : i # b => ring[i] = rew.ring[i]
      BY <1>2, <3>2
    <3>4. rew' = [ring |-> ring, head |-> b, count |-> n - 1, rendered |-> rest]
      BY <1>1 DEF IInv, RingOk
    <3>5. n - 1 \in 0 .. Slots  BY <1>2
    <3> HIDE DEF ring, rest, n
    <3> QED  BY <1>2, <3>1, <3>3, <3>4, <3>5 DEF rest
  <2>2. \A i \in 0 .. Slots - 1 : Live(i, b, n - 1) => i # b /\ Live(i, h, n)
    <3> HIDE DEF b, h, n
    <3> QED  BY <1>2 DEF Live
  <2>3. \A i \in 0 .. Slots - 1 : rew'.ring[i] # Nothing => i # b
    BY <2>1
  <2> HIDE DEF b, h, n
  <2> QED  BY <1>1, <2>1, <2>2, <2>3 DEF IInv, RingOk, h, n
<1>7. QuickOk' /\ DiskOk'  BY <1>1 DEF IInv, QuickOk, OwnFile, DiskOk
<1> QED  BY <1>5, <1>6, <1>7 DEF IInv

(* The program's writes reach the RAM and its idea of the RAM alike. *)
LEMMA WriteOk ==
  ASSUME IInv, NEW w \in Program[rom], ProgramWrites(w)  PROVE IInv'
<1>1. /\ UNCHANGED <<phase, rom, rew, running, quick, sav, due>>
      /\ ram' = RamWritten(gb.cart, ram, w)
      /\ gb' = [gb EXCEPT !.cart = Written(@, w),
                          !.mirror = IF gb.mixed THEN @ ELSE RamWritten(gb.cart, @, w)]
  BY DEF ProgramWrites, disk
<1>2. MachineOk'
  <2> USE DEF IInv, MachineOk
  <2> DEFINE c == Written(gb.cart, w)
             m == IF gb.mixed THEN gb.mirror ELSE RamWritten(gb.cart, gb.mirror, w)
  <2>1. w \in Write  BY SessionAssumption
  <2>2. gb.cart \in CartState  BY DEF Machine
  <2>3. c \in CartState /\ Same(gb.cart, c)  BY <2>1, <2>2, WrittenType
  <2>4. ram' \in Ram(rom)  BY <1>1, <2>1, RamWrittenType
  <2>5. m \in Rams
    <3>1. PICK r \in Roms : gb.mirror \in Ram(r)  BY DEF Machine, Rams
    <3>2. RamWritten(gb.cart, gb.mirror, w) \in Ram(r)  BY <2>1, <3>1, RamWrittenType
    <3> QED  BY <3>1, <3>2 DEF Rams
  <2>6. gb' = [cart |-> c, mirror |-> m, mixed |-> gb.mixed]
    BY <1>1 DEF Machine
  <2>7. gb' \in Machine
    <3>1. gb.mixed \in BOOLEAN  BY DEF Machine
    <3> HIDE DEF c, m
    <3> QED  BY <2>3, <2>5, <2>6, <3>1 DEF Machine
  <2>8. Own(gb', ram', rom)
    <3> SUFFICES ASSUME ~gb.mixed  PROVE Own(gb', ram', rom)
      BY <2>6 DEF Own
    <3>1. m = ram'  BY <1>1 DEF Own
    <3> HIDE DEF c, m
    <3> QED  BY <2>3, <2>6, <3>1 DEF Own, Same
  <2> QED  BY <1>1, <2>4, <2>7, <2>8
<1>3. RingOk'  BY <1>1 DEF IInv, RingOk
<1>4. QuickOk' /\ DiskOk'  BY <1>1 DEF IInv, QuickOk, OwnFile, DiskOk
<1> QED  BY <1>2, <1>3, <1>4 DEF IInv

(* A snapshot is of the machine and its RAM at the same moment. *)
LEMMA EndFrameOk ==
  ASSUME IInv, EndFrame  PROVE IInv'
<1> DEFINE rest == (rew.rendered + 1) % Every
           rw == [rew EXCEPT !.rendered = rest]
           snap == [gb |-> gb, ram |-> ram]
           h == rew.head
           n == rew.count
<1>1. /\ UNCHANGED <<rom, gb, ram, running, quick, sav, due>> /\ phase' \in {"poll", "closing"}
      /\ rew' = IF rw.rendered = 0 THEN Captured(rw, snap) ELSE rw
  BY DEF EndFrame, disk, Loops
<1>2. /\ rew.ring \in [0 .. Slots - 1 -> {Nothing} \cup Snaps(rom)]
      /\ h \in 0 .. Slots - 1 /\ n \in 0 .. Slots /\ rest \in 0 .. Every - 1
      /\ rw = [ring |-> rew.ring, head |-> h, count |-> n, rendered |-> rest]
  <2>1. rew.rendered \in 0 .. Every - 1  BY DEF IInv, RingOk
  <2> QED  BY <2>1, RenderedType DEF IInv, RingOk
<1>3. MachineOk'  BY <1>1 DEF IInv, MachineOk
<1>4. RingOk'
  <2>1. CASE rw.rendered # 0
    <3>1. rew' = rw  BY <1>1, <2>1
    <3> HIDE DEF rest, rw
    <3> QED  BY <1>1, <1>2, <3>1 DEF IInv, RingOk
  <2>2. CASE rw.rendered = 0
    <3> DEFINE ring == [rew.ring EXCEPT ![h] = snap]
               k == (h + 1) % Slots
               cnt == Counted(n)
    <3>1. snap \in Snaps(rom) /\ Own(snap.gb, snap.ram, rom)
      BY DEF IInv, MachineOk, Snaps
    <3>2. /\ ring \in [0 .. Slots - 1 -> {Nothing} \cup Snaps(rom)]
          /\ ring[h] = snap /\ \A i \in 0 .. Slots - 1 : i # h => ring[i] = rew.ring[i]
      <4> HIDE DEF snap, h
      <4> QED  BY <1>2, <3>1
    <3>3. rew' = [ring |-> ring, head |-> k, count |-> cnt, rendered |-> rest]
      <4> HIDE DEF rest, snap
      <4> QED  BY <1>1, <1>2, <2>2 DEF Captured
    <3>4. /\ Slots \in Nat \ {0} /\ k = (IF h + 1 = Slots THEN 0 ELSE h + 1)
          /\ k \in 0 .. Slots - 1
          /\ cnt = (IF n < Slots THEN n + 1 ELSE n) /\ cnt \in 0 .. Slots
      BY <1>2, SessionAssumption, Neighbours DEF Counted
    <3>5. \A i \in 0 .. Slots - 1 : Live(i, k, cnt) => i = h \/ Live(i, h, n)
      <4>1. h \in 0 .. Slots - 1 /\ n \in 0 .. Slots  BY <1>2
      <4> HIDE DEF k, cnt, h, n
      <4>2. CASE h + 1 = Slots
        <5>1. CASE n < Slots  BY <3>4, <4>1, <4>2, <5>1 DEF Live
        <5>2. CASE n = Slots  BY <3>4, <4>1, <4>2, <5>2 DEF Live
        <5> QED  BY <4>1, <5>1, <5>2, <3>4
      <4>3. CASE h + 1 # Slots
        <5>1. CASE n < Slots  BY <3>4, <4>1, <4>3, <5>1 DEF Live
        <5>2. CASE n = Slots  BY <3>4, <4>1, <4>3, <5>2 DEF Live
        <5> QED  BY <4>1, <5>1, <5>2, <3>4
      <4> QED  BY <4>2, <4>3
    <3>6. snap # Nothing  BY <3>1, NotNothing
    <3>7. \A i \in 0 .. Slots - 1 :
            /\ ring[i] # Nothing => Own(ring[i].gb, ring[i].ram, rom)
            /\ Live(i, k, cnt) => ring[i] # Nothing
      <4> HIDE DEF ring, k, cnt, snap
      <4> QED  BY <3>1, <3>2, <3>5, <3>6 DEF IInv, RingOk
    <3> HIDE DEF ring, k, cnt, rest
    <3> QED  BY <1>1, <1>2, <3>2, <3>3, <3>4, <3>7 DEF RingOk
  <2> QED  BY <2>1, <2>2
<1>5. QuickOk' /\ DiskOk'  BY <1>1 DEF IInv, QuickOk, OwnFile, DiskOk
<1> QED  BY <1>3, <1>4, <1>5 DEF IInv

(* A battery file, whole or cut, is one; the promise is made for a whole one. *)
LEMMA FileOk ==
  ASSUME NEW r \in Roms, NEW c \in CartState, NEW m \in Ram(r),
         NEW f \in {SavFile(c, m)} \cup CutSavs(r, SavFile(c, m))
  PROVE  IsSav(r, f)
<1>1. RamCells(r) \in Nat /\ m \in [0 .. RamCells(r) - 1 -> Byte] /\ c.rtc \in [0 .. 4 -> Byte]
  BY LoadedType DEF Ram, CartState
<1>2. SavFile(c, m).ram = m  BY DEF SavFile
<1>3. IsSav(r, SavFile(c, m))  BY <1>1 DEF SavFile, IsSav
<1>4. ASSUME NEW n \in 0 .. RamCells(r), f = [ram |-> [i \in 0 .. n - 1 |-> m[i]], rtc |-> <<>>]
      PROVE  IsSav(r, f)
  <2>1. [i \in 0 .. n - 1 |-> m[i]] \in [0 .. n - 1 -> Byte]  BY <1>1
  <2> QED  BY <1>4, <2>1 DEF IsSav
<1> QED  BY <1>2, <1>3, <1>4 DEF CutSavs

(* The window is closed: the battery file is what the program will find.     *)
LEMMA CloseOk ==
  ASSUME IInv, Close  PROVE IInv'
<1> DEFINE file == SavFile(gb.cart, ram)
           promise == [ram |-> ram, rtc |-> gb.cart.rtc]
<1>1. Gone /\ UNCHANGED quick /\ rom \in Roms /\ ram \in Ram(rom) /\ gb.cart \in CartState
  BY DEF Close, IInv, MachineOk, Machine
<1>2. MachineOk' /\ RingOk'  BY <1>1, GoneOk
<1>3. QuickOk'  BY <1>1 DEF IInv, QuickOk, OwnFile
<1>4. DiskOk'
  <2>1. CASE UNCHANGED <<sav, due>>  BY <2>1 DEF IInv, DiskOk
  <2>2. ASSUME NEW f \in {file} \cup CutSavs(rom, file),
               sav' = [sav EXCEPT ![rom] = f],
               due' = [due EXCEPT ![rom] = IF f = file /\ ~gb.mixed THEN promise ELSE Nothing]
        PROVE  DiskOk'
    <3>1. IsSav(rom, f)  BY <1>1, FileOk
    <3>2. Kept(rom, f, IF f = file /\ ~gb.mixed THEN promise ELSE Nothing)
      <4> SUFFICES ASSUME f = file, ~gb.mixed  PROVE Kept(rom, f, promise)
        BY DEF Kept
      <4>1. Own(gb, ram, rom)  BY DEF IInv, MachineOk
      <4> QED  BY <1>1, <4>1 DEF Own, Kept, SavFile
    <3> HIDE DEF file, promise
    <3> QED  BY <1>1, <2>2, <3>1, <3>2 DEF IInv, DiskOk
  <2> QED  BY <2>1, <2>2 DEF Close
<1> QED  BY <1>2, <1>3, <1>4 DEF IInv

(* Every step keeps the invariant, and so it always holds. *)
THEOREM Inductive == IInv /\ [Next]_vars => IInv'
<1> SUFFICES ASSUME IInv, [Next]_vars  PROVE IInv'  OBVIOUS
<1>1. ASSUME NEW r \in Roms, Start(r)  PROVE IInv'  BY <1>1, StartOk
<1>2. CASE Quit
  BY <1>2 DEF Quit, disk, IInv, MachineOk, RingOk, QuickOk, OwnFile, DiskOk
<1>3. CASE SaveState  BY <1>3, SaveOk
<1>4. CASE LoadState  BY <1>4, LoadOk
<1>5. CASE Rewind  BY <1>5, RewindOk
<1>6. CASE BeginFrame
  BY <1>6 DEF BeginFrame, disk, IInv, MachineOk, RingOk, QuickOk, OwnFile, DiskOk
<1>7. CASE EndFrame  BY <1>7, EndFrameOk
<1>8. CASE Close  BY <1>8, CloseOk
<1>9. CASE Crash
  <2>1. Gone /\ UNCHANGED <<quick, sav, due>>  BY <1>9 DEF Crash, disk
  <2>2. MachineOk' /\ RingOk'  BY <2>1, GoneOk
  <2> QED  BY <2>1, <2>2 DEF IInv, QuickOk, OwnFile, DiskOk
<1>10. ASSUME NEW w \in Program[rom], ProgramWrites(w)  PROVE IInv'  BY <1>10, WriteOk
<1>11. CASE UNCHANGED vars
  BY <1>11 DEF vars, session, disk, IInv, MachineOk, RingOk, QuickOk, OwnFile, DiskOk
<1> QED
  BY <1>1, <1>2, <1>3, <1>4, <1>5, <1>6, <1>7, <1>8, <1>9, <1>10, <1>11 DEF Next

(* The inductive invariant holds in every session.                           *)
THEOREM Invariance == Spec => []IInv
<1>1. Init => IInv  BY InitOk
<1>2. IInv /\ [Next]_vars => IInv'  BY Inductive
<1> QED  BY <1>1, <1>2, PTL DEF Spec

(* The slots of the ring that count, oldest first. *)
LEMMA StackSlots ==
  ASSUME RingOk
  PROVE  \A i \in 1 .. rew.count :
           LET a == rew.head - rew.count + i - 1
           IN  /\ a % Slots = (IF a < 0 THEN a + Slots ELSE a)
               /\ a % Slots \in 0 .. Slots - 1
               /\ Live(a % Slots, rew.head, rew.count)
<1> SUFFICES ASSUME NEW i \in 1 .. rew.count
             PROVE  LET a == rew.head - rew.count + i - 1
                    IN  /\ a % Slots = (IF a < 0 THEN a + Slots ELSE a)
                        /\ a % Slots \in 0 .. Slots - 1
                        /\ Live(a % Slots, rew.head, rew.count)
  OBVIOUS
<1> DEFINE a == rew.head - rew.count + i - 1
           h == rew.head
           n == rew.count
<1>1. Slots \in Nat \ {0} /\ h \in 0 .. Slots - 1 /\ n \in 0 .. Slots /\ i \in 1 .. n
  BY SessionAssumption DEF RingOk
<1>2. a \in Int /\ 0 - Slots <= a /\ a < Slots /\ a = h - n + i - 1
  <2> HIDE DEF h, n
  <2> QED  BY <1>1 DEF h, n
<1>3. a % Slots = IF a < 0 THEN a + Slots ELSE a
  <2>1. a < 2 * Slots  BY <1>1, <1>2
  <2> HIDE DEF a
  <2> QED  BY <1>1, <1>2, <2>1, ModIs
<1>4. a % Slots \in 0 .. Slots - 1  BY <1>1, <1>2, <1>3
<1>5. Live(a % Slots, h, n)
  <2> DEFINE k == a % Slots
  <2>1. k = IF a < 0 THEN a + Slots ELSE a  BY <1>3
  <2> HIDE DEF k, h, n, a
  <2> QED  BY <1>1, <1>2, <2>1 DEF Live, k
<1> QED  BY <1>3, <1>4, <1>5

(* The types of play.c's variables and of the files, and a ring whose slots  *)
(* that count are all filled: gb_restore never reads one that was not.       *)
THEOREM SessionInvHolds == Spec => []SessionInv
<1>1. IInv => SessionInv
  <2> SUFFICES ASSUME IInv  PROVE SessionInv  OBVIOUS
  <2>1. TypeOK  BY DEF IInv, MachineOk, RingOk, QuickOk, DiskOk, TypeOK
  <2>2. SlotsFilled
    <3> SUFFICES ASSUME NEW i \in 1 .. rew.count  PROVE Stack[i] # Nothing
      BY DEF SlotsFilled
    <3> DEFINE k == (rew.head - rew.count + i - 1) % Slots
    <3>1. k \in 0 .. Slots - 1 /\ Live(k, rew.head, rew.count)
      BY StackSlots DEF IInv
    <3>2. Stack[i] = rew.ring[k]  BY DEF Stack
    <3> HIDE DEF k
    <3> QED  BY <3>1, <3>2 DEF IInv, RingOk
  <2> QED  BY <2>1, <2>2 DEF SessionInv
<1> QED  BY <1>1, Invariance, PTL

(* Through F5, F9, Backspace and sessions, with files cut anywhere: the RAM  *)
(* is the one the program of an unmixed machine knows (play.c with state.c). *)
THEOREM RamBelongsHolds == Spec => []RamBelongs
<1>1. IInv => RamBelongs  BY DEF IInv, MachineOk, Own, RamBelongs
<1> QED  BY <1>1, Invariance, PTL

(* With any file of two banks or more, both ROM windows show banks of it,    *)
(* through sessions, F5, F9 and rewinds, but for another cartridge's state   *)
(* (cart.c 67-71 and 132-136, state.c 61-64).                                *)
THEOREM ReadsStayInRomHolds == Spec => []ReadsStayInRom
<1>1. IInv => ReadsStayInRom
  <2> SUFFICES ASSUME IInv, ~gb.mixed, Header[rom].file >= 2,
                      NEW b \in {LowRomBank(gb.cart), HighRomBank(gb.cart)}
               PROVE  RomBank(gb.cart, b) < Header[rom].file
    BY DEF ReadsStayInRom
  <2>1. rom \in Roms /\ gb.cart \in CartState /\ gb.cart.romBanks = RomBanks(rom)
    BY DEF IInv, MachineOk, Machine, Own
  <2>2. RomBank(gb.cart, b) \in 0 .. Header[rom].file - 1  BY <2>1, RomWindows
  <2>3. Header[rom].file \in Nat  BY <2>1, CartAssumption
  <2> QED  BY <2>2, <2>3
<1> QED  BY <1>1, Invariance, PTL

(* A battery file that was written to its end is where the next session of   *)
(* its cartridge goes on, RAM and clock (cart.c 108-130).                    *)
THEOREM SavesContinueHolds == Spec => SavesContinue
<1> DEFINE Continues ==
      \A r \in Roms :
        Start(r) /\ HasBattery(r) /\ RamCells(r) > 0 /\ due[r] # Nothing
          => ram' = due[r].ram /\ gb'.cart.rtc = due[r].rtc
<1>1. IInv => Continues
  <2> SUFFICES ASSUME IInv, NEW r \in Roms, Start(r), HasBattery(r), RamCells(r) > 0,
                      due[r] # Nothing
               PROVE  ram' = due[r].ram /\ gb'.cart.rtc = due[r].rtc
    OBVIOUS
  <2> DEFINE d == due[r]
  <2>1. /\ sav[r] = [ram |-> d.ram, rtc |-> IF Mbc(r) = 3 THEN <<d.rtc>> ELSE <<>>]
        /\ d.ram \in Ram(r) /\ (Mbc(r) # 3 => d.rtc = NoRtc)
    BY DEF IInv, DiskOk, Kept
  <2>2. sav[r] # Nothing  BY <2>1, NotNothing
  <2>3. ram' = SavedRam(r, sav[r]) /\ gb' = PowerUp(r, SavedRtc(Loaded(r), sav[r]), SavedRam(r, sav[r]))
    BY <2>2 DEF Start
  <2>4. SavedRam(r, sav[r]) = d.ram
    <3>1. d.ram \in [0 .. RamCells(r) - 1 -> Byte] /\ sav[r].ram = d.ram  BY <2>1 DEF Ram
    <3> HIDE DEF d
    <3> QED  BY <3>1 DEF SavedRam
  <2>5. SavedRtc(Loaded(r), sav[r]).rtc = d.rtc
    <3>1. Loaded(r).mbc = Mbc(r) /\ Loaded(r).rtc = NoRtc  BY DEF Loaded, NoRtc
    <3>2. CASE Mbc(r) = 3
      <4>1. sav[r].rtc = <<d.rtc>> /\ sav[r].rtc # <<>> /\ sav[r].rtc[1] = d.rtc
        BY <2>1, <3>2
      <4>2. SavedRtc(Loaded(r), sav[r]) = [Loaded(r) EXCEPT !.rtc = d.rtc]
        BY <3>1, <3>2, <4>1 DEF SavedRtc
      <4> QED  BY <4>2, LoadedType DEF CartState
    <3>3. CASE Mbc(r) # 3
      BY <2>1, <3>1, <3>3 DEF SavedRtc
    <3> QED  BY <3>2, <3>3
  <2> QED  BY <2>3, <2>4, <2>5 DEF PowerUp
<1> QED  BY <1>1, Invariance, PTL DEF SavesContinue
-----------------------------------------------------------------------------
(* The stack of RewindAbs, read off the ring. *)
LEMMA StackIs ==
  ASSUME RingOk
  PROVE  /\ Stack \in Seq({Nothing} \cup Snaps(rom)) /\ Len(Stack) = rew.count
         /\ \A i \in 1 .. rew.count :
              LET a == rew.head - rew.count + i - 1
              IN  Stack[i] = rew.ring[IF a < 0 THEN a + Slots ELSE a]
<1>1. rew.count \in Nat
  BY SessionAssumption DEF RingOk
<1>2. \A i \in 1 .. rew.count :
        LET a == rew.head - rew.count + i - 1
        IN  /\ Stack[i] = rew.ring[IF a < 0 THEN a + Slots ELSE a]
            /\ Stack[i] \in {Nothing} \cup Snaps(rom)
  <2> SUFFICES ASSUME NEW i \in 1 .. rew.count
               PROVE  LET a == rew.head - rew.count + i - 1
                      IN  /\ Stack[i] = rew.ring[IF a < 0 THEN a + Slots ELSE a]
                          /\ Stack[i] \in {Nothing} \cup Snaps(rom)
    OBVIOUS
  <2> DEFINE a == rew.head - rew.count + i - 1
             k == a % Slots
  <2>1. k = (IF a < 0 THEN a + Slots ELSE a) /\ k \in 0 .. Slots - 1
    BY StackSlots
  <2>2. Stack[i] = rew.ring[k]  BY DEF Stack
  <2> HIDE DEF k
  <2> QED  BY <2>1, <2>2 DEF RingOk
<1>3. Stack = [i \in 1 .. rew.count |-> Stack[i]]  BY DEF Stack
<1> DEFINE S == {Nothing} \cup Snaps(rom)
<1>4. Stack \in [1 .. rew.count -> S]
  <2> HIDE DEF S
  <2>1. \A i \in 1 .. rew.count : Stack[i] \in S  BY <1>2 DEF S
  <2> QED  BY <1>3, <2>1
<1>5. Stack \in Seq(S) /\ Len(Stack) = rew.count
  <2> HIDE DEF S
  <2> QED  BY <1>1, <1>4
<1> QED  BY <1>2, <1>5

Slot(i, h, n) == IF h - n + i - 1 < 0 THEN h - n + i - 1 + Slots ELSE h - n + i - 1

StackShape ==
  /\ Stack \in Seq({Nothing} \cup Snaps(rom)) /\ Len(Stack) = rew.count
  /\ \A i \in 1 .. rew.count : Stack[i] = rew.ring[Slot(i, rew.head, rew.count)]

(* The ring, read backwards from its head, is a sequence of its count.       *)
LEMMA StackHasShape == IInv => StackShape
BY StackIs DEF IInv, StackShape, Slot

(* Sequences are equal that have one length and the same entries.            *)
LEMMA SameSeq ==
  ASSUME NEW S, NEW s \in Seq(S), NEW t \in Seq(S), Len(s) = Len(t),
         \A i \in 1 .. Len(s) : s[i] = t[i]
  PROVE  s = t
OBVIOUS

(* A capture moves no slot but the one it fills.                             *)
LEMMA SlotKept ==
  ASSUME NEW h \in 0 .. Slots - 1, NEW n \in 0 .. Slots, NEW k, NEW cnt,
         k = (IF h + 1 = Slots THEN 0 ELSE h + 1), cnt = (IF n < Slots THEN n + 1 ELSE n),
         NEW i \in 1 .. cnt, i # cnt, NEW j, j = (IF n = Slots THEN i + 1 ELSE i)
  PROVE  /\ j \in 1 .. n /\ Slot(i, k, cnt) = Slot(j, h, n)
         /\ Slot(j, h, n) \in 0 .. Slots - 1 /\ Slot(j, h, n) # h
<1>1. Slots \in Nat \ {0}  BY SessionAssumption
<1>2. CASE n < Slots
  <2>1. cnt = n + 1 /\ i \in 1 .. n  BY <1>1, <1>2
  <2>2. CASE h + 1 = Slots  BY <1>1, <1>2, <2>1, <2>2 DEF Slot
  <2>3. CASE h + 1 # Slots  BY <1>1, <1>2, <2>1, <2>3 DEF Slot
  <2> QED  BY <2>2, <2>3
<1>3. CASE n = Slots
  <2>1. cnt = n /\ i + 1 \in 1 .. n  BY <1>1, <1>3
  <2>2. CASE h + 1 = Slots  BY <1>1, <1>3, <2>1, <2>2 DEF Slot
  <2>3. CASE h + 1 # Slots  BY <1>1, <1>3, <2>1, <2>3 DEF Slot
  <2> QED  BY <2>2, <2>3
<1> QED  BY <1>1, <1>2, <1>3

(* The snapshot of EndFrame comes on top; a full ring forgets the oldest. *)
LEMMA CaptureKeeps ==
  ASSUME IInv, StackShape, StackShape', NEW snap \in Snaps(rom), NEW rest,
         rom' = rom,
         rew' = Captured([rew EXCEPT !.rendered = rest], snap)
  PROVE  Stack' = Append(IF Len(Stack) = Slots THEN Tail(Stack) ELSE Stack, snap)
<1> DEFINE S == {Nothing} \cup Snaps(rom)
           h == rew.head
           n == rew.count
           old == IF Len(Stack) = Slots THEN Tail(Stack) ELSE Stack
           new == Append(old, snap)
           k == (h + 1) % Slots
           cnt == Counted(n)
<1>1. /\ Slots \in Nat \ {0} /\ h \in 0 .. Slots - 1 /\ n \in 0 .. Slots
      /\ rew.ring \in [0 .. Slots - 1 -> S]
  BY SessionAssumption DEF IInv, RingOk
<1>2. k = (IF h + 1 = Slots THEN 0 ELSE h + 1) /\ k \in 0 .. Slots - 1
  BY <1>1, Neighbours
<1>3. cnt = (IF n < Slots THEN n + 1 ELSE n) /\ cnt \in 0 .. Slots
  BY <1>1 DEF Counted
<1>4. /\ rew'.head = k /\ rew'.count = cnt
      /\ rew'.ring = [rew.ring EXCEPT ![h] = snap]
  BY DEF Captured, IInv, RingOk
<1>5. Stack \in Seq(S) /\ Len(Stack) = n /\ snap \in S
  BY DEF StackShape
<1>6. Stack' \in Seq(S) /\ Len(Stack') = cnt
      /\ \A i \in 1 .. cnt : Stack'[i] = rew'.ring[Slot(i, k, cnt)]
  BY <1>4 DEF StackShape
<1>7. /\ new \in Seq(S) /\ Len(new) = cnt /\ new[cnt] = snap
      /\ \A i \in 1 .. cnt : i < cnt => new[i] = Stack[IF n = Slots THEN i + 1 ELSE i]
  <2> HIDE DEF S, n, h, cnt
  <2>1. CASE n = Slots
    <3>1. Tail(Stack) \in Seq(S) /\ Len(Tail(Stack)) = n - 1
          /\ \A i \in 1 .. n - 1 : Tail(Stack)[i] = Stack[i + 1]
      BY <1>1, <1>5, <2>1
    <3> QED  BY <1>1, <1>3, <1>5, <2>1, <3>1
  <2>2. CASE n # Slots
    BY <1>1, <1>3, <1>5, <2>2
  <2> QED  BY <2>1, <2>2
<1>8. \A i \in 1 .. cnt : Stack'[i] = new[i]
  <2> SUFFICES ASSUME NEW i \in 1 .. cnt  PROVE Stack'[i] = new[i]
    OBVIOUS
  <2> DEFINE j == IF n = Slots THEN i + 1 ELSE i
  <2>1. Stack'[i] = rew'.ring[Slot(i, k, cnt)]  BY <1>6
  <2>2. CASE i = cnt
    <3>1. Slot(i, k, cnt) = h
      <4> HIDE DEF h, n, k, cnt
      <4> QED  BY <1>1, <1>2, <1>3, <2>2 DEF Slot
    <3>2. rew'.ring[h] = snap
      <4> HIDE DEF h, S
      <4> QED  BY <1>1, <1>4
    <3> HIDE DEF h, k, cnt, new
    <3> QED  BY <1>7, <2>1, <2>2, <3>1, <3>2
  <2>3. CASE i # cnt
    <3>1. /\ j \in 1 .. n /\ Slot(i, k, cnt) = Slot(j, h, n)
          /\ Slot(j, h, n) \in 0 .. Slots - 1 /\ Slot(j, h, n) # h
      <4>1. j = IF n = Slots THEN i + 1 ELSE i  OBVIOUS
      <4> HIDE DEF h, n, k, cnt, j
      <4> QED  BY <1>1, <1>2, <1>3, <2>3, <4>1, SlotKept
    <3>2. Stack[j] = rew.ring[Slot(j, h, n)]
      BY <3>1 DEF StackShape
    <3>3. new[i] = Stack[j]
      <4> HIDE DEF new, cnt, n
      <4> QED  BY <1>3, <1>7, <2>3
    <3> HIDE DEF h, n, k, cnt, new, j
    <3> QED  BY <1>1, <1>4, <2>1, <3>1, <3>2, <3>3
  <2> QED  BY <2>2, <2>3
<1> HIDE DEF S, new, cnt
<1>9. Stack' = new  BY <1>6, <1>7, <1>8, SameSeq
<1> QED  BY <1>9 DEF new

(* Backspace takes the snapshot on top. *)
LEMMA RewindBacks ==
  ASSUME IInv, StackShape, StackShape', Rewind
  PROVE  /\ Stack # <<>>
         /\ [gb |-> gb', ram |-> ram'] = Rewinds!Last(Stack)
         /\ Stack' = Rewinds!Front(Stack)
<1> DEFINE S == {Nothing} \cup Snaps(rom)
           h == rew.head
           n == rew.count
           b == Before(h)
<1>1. /\ Slots \in Nat \ {0} /\ h \in 0 .. Slots - 1 /\ n \in 1 .. Slots
      /\ b = (IF h = 0 THEN Slots - 1 ELSE h - 1) /\ b \in 0 .. Slots - 1
      /\ rew.ring \in [0 .. Slots - 1 -> S]
  BY SessionAssumption, Neighbours DEF IInv, RingOk, Rewind
<1>2. /\ rew'.head = b /\ rew'.count = n - 1 /\ rom' = rom
      /\ rew'.ring = [rew.ring EXCEPT ![b] = Nothing]
      /\ gb' = rew.ring[b].gb /\ ram' = rew.ring[b].ram
  BY DEF Rewind, IInv, RingOk
<1>3. /\ Stack \in Seq(S) /\ Len(Stack) = n
      /\ \A i \in 1 .. n : Stack[i] = rew.ring[Slot(i, h, n)]
  BY DEF StackShape
<1>4. /\ Stack' \in Seq(S) /\ Len(Stack') = n - 1
      /\ \A i \in 1 .. n - 1 : Stack'[i] = rew'.ring[Slot(i, b, n - 1)]
  BY <1>2 DEF StackShape
<1>5. Stack[n] = rew.ring[b] /\ Slot(n, h, n) = b
  <2>1. Slot(n, h, n) = b
    <3> HIDE DEF h, n, b
    <3> QED  BY <1>1 DEF Slot
  <2> QED  BY <1>1, <1>3, <2>1
<1>6. Stack # <<>>  BY <1>1, <1>3
<1>7. [gb |-> gb', ram |-> ram'] = Rewinds!Last(Stack)
  <2>1. Live(b, h, n)
    <3> HIDE DEF h, n, b
    <3> QED  BY <1>1 DEF Live
  <2>2. rew.ring[b] \in Snaps(rom)  BY <1>1, <2>1 DEF IInv, RingOk
  <2>3. rew.ring[b] = [gb |-> rew.ring[b].gb, ram |-> rew.ring[b].ram]
    BY <2>2 DEF Snaps
  <2>4. Rewinds!Last(Stack) = rew.ring[b]  BY <1>3, <1>5 DEF Rewinds!Last
  <2> HIDE DEF b
  <2> QED  BY <1>2, <2>3, <2>4
<1>8. Stack' = Rewinds!Front(Stack)
  <2> DEFINE t == Rewinds!Front(Stack)
  <2>1. t \in Seq(S) /\ Len(t) = n - 1 /\ \A i \in 1 .. n - 1 : t[i] = Stack[i]
    <3> HIDE DEF S, n
    <3> QED  BY <1>1, <1>3 DEF Rewinds!Front
  <2>2. \A i \in 1 .. n - 1 : Stack'[i] = t[i]
    <3> SUFFICES ASSUME NEW i \in 1 .. n - 1  PROVE Stack'[i] = t[i]
      OBVIOUS
    <3>1. /\ i \in 1 .. n /\ Slot(i, b, n - 1) = Slot(i, h, n)
          /\ Slot(i, h, n) \in 0 .. Slots - 1 /\ Slot(i, h, n) # b
      <4> HIDE DEF h, n, b
      <4> QED  BY <1>1 DEF Slot
    <3>2. rew'.ring[Slot(i, h, n)] = rew.ring[Slot(i, h, n)]
      <4> HIDE DEF h, n, b, S
      <4> QED  BY <1>1, <1>2, <3>1
    <3> HIDE DEF h, n, b, t
    <3> QED  BY <1>3, <1>4, <2>1, <3>1, <3>2
  <2> HIDE DEF S, t, n
  <2>3. Stack' = t  BY <1>4, <2>1, <2>2, SameSeq
  <2> QED  BY <2>3 DEF t
<1> QED  BY <1>6, <1>7, <1>8

(* An empty ring is an empty stack.                                          *)
LEMMA NoStack == ASSUME StackShape, rew = NoRew  PROVE Stack = <<>>
BY DEF StackShape, NoRew

(* The stack depends on the ring, its head and its count only.               *)
LEMMA SameStack ==
  ASSUME rew'.ring = rew.ring, rew'.head = rew.head, rew'.count = rew.count
  PROVE  Stack' = Stack
BY DEF Stack

(* Each step of a session is one of RewindAbs, or no step of it. *)
LEMMA StepRefines ==
  ASSUME IInv, StackShape, StackShape', [Next]_vars
  PROVE  [Rewinds!Next]_<<[gb |-> gb, ram |-> ram], Stack>>
<1> USE DEF Rewinds!Next, Rewinds!New, Rewinds!Play
<1>n. rew' = NoRew => Stack' = <<>>  BY DEF StackShape, NoRew
<1>1. ASSUME NEW r \in Roms, Start(r)  PROVE Rewinds!Next  BY <1>1, <1>n DEF Start
<1>2. UNCHANGED rew => Stack' = Stack  BY SameStack
<1>3. CASE Gone  BY <1>3, <1>n DEF Gone
<1>4. CASE Rewind
  <2>1. Rewinds!Back  BY <1>4, RewindBacks DEF Rewinds!Back
  <2> QED  BY <2>1
<1>5. CASE EndFrame
  <2> DEFINE rest == (rew.rendered + 1) % Every
             rw == [rew EXCEPT !.rendered = rest]
             snap == [gb |-> gb, ram |-> ram]
  <2>1. UNCHANGED <<rom, gb, ram>> /\ rew' = IF rw.rendered = 0 THEN Captured(rw, snap) ELSE rw
    BY <1>5 DEF EndFrame
  <2>2. CASE rw.rendered # 0
    <3>1. rew'.ring = rew.ring /\ rew'.head = rew.head /\ rew'.count = rew.count
      BY <2>1, <2>2 DEF IInv, RingOk
    <3> QED  BY <3>1, SameStack
  <2>3. CASE rw.rendered = 0
    <3>1. snap \in Snaps(rom)  BY DEF IInv, MachineOk, Snaps
    <3>2. rew' = Captured([rew EXCEPT !.rendered = rest], snap)  BY <2>1, <2>3
    <3> HIDE DEF snap, rest
    <3>3. Stack' = Append(IF Len(Stack) = Slots THEN Tail(Stack) ELSE Stack, snap)
      BY <2>1, <3>1, <3>2, CaptureKeeps
    <3>4. snap = [gb |-> gb', ram |-> ram']  BY <2>1 DEF snap
    <3>5. Rewinds!Keep  BY <3>3, <3>4 DEF Rewinds!Keep
    <3> QED  BY <3>5
  <2> QED  BY <2>2, <2>3
<1>6. CASE UNCHANGED rew  BY <1>2, <1>6
<1>7. \/ \E r \in Roms : Start(r)
      \/ Gone \/ Rewind \/ EndFrame \/ UNCHANGED rew
  BY DEF Next, vars, session, Quit, SaveState, LoadState, BeginFrame, Close, Crash,
         ProgramWrites
<1> QED  BY <1>1, <1>3, <1>4, <1>5, <1>6, <1>7

(* The ring of play.c, with its head that wraps around, its count that stops *)
(* at the number of slots and its rendered frames, is the stack of whole     *)
(* machines that rewinding is meant to be.                                   *)
THEOREM ImplementsRewindAbsHolds == Spec => ImplementsRewindAbs
<1>1. Init => Rewinds!Init
  <2> SUFFICES ASSUME Init  PROVE Stack = <<>>  BY DEF Rewinds!Init
  <2>1. StackShape  BY InitOk, StackHasShape
  <2> QED  BY <2>1, NoStack DEF Init
<1>2. IInv /\ IInv' /\ [Next]_vars => [Rewinds!Next]_<<[gb |-> gb, ram |-> ram], Stack>>
  <2>1. IInv => StackShape  BY StackHasShape
  <2>2. (IInv => StackShape)'  BY StackHasShape, PTL
  <2> QED  BY <2>1, <2>2, StepRefines
<1> QED  BY <1>1, <1>2, Invariance, PTL DEF Spec, ImplementsRewindAbs, Rewinds!Spec
=============================================================================
