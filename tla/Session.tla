------------------------------ MODULE Session ------------------------------
(***************************************************************************)
(* src/play.c with src/state.c: sessions of the player's front end, one    *)
(* after the other, with any of the cartridges of Cart, each ended by the  *)
(* player or by a crash.  What outlives a session is on disk: the battery  *)
(* file of each cartridge and one state file for all of them.              *)
(*                                                                         *)
(* An action is an event of the poll loop, a rewind, the beginning or the  *)
(* end of a frame, a write of the program to the cartridge in between, or  *)
(* the saving at the end.  A file that cannot be written to its end keeps  *)
(* what was written.  The option --frames is left out, and frames end.     *)
(***************************************************************************)
EXTENDS Cart

CONSTANTS Program,    \* the writes the program on each cartridge may make
          Slots,      \* REW_SLOTS (120)
          Every,      \* REW_EVERY (6)
          MaxRam,     \* the cells of the largest cartridge RAM
          Reaches,    \* of the fields of Cart, how many a cut state file may have
          OldSavs     \* battery files there may be before the first session

ASSUME SessionAssumption ==
  /\ Program \in [Roms -> SUBSET Write]
  /\ Slots \in Nat \ {0} /\ Every \in Nat \ {0}
  /\ Reaches \subseteq 0 .. 11
  /\ MaxRam \in Nat /\ \A r \in Roms : RamCells(r) <= MaxRam
  /\ \A r \in Roms : \A f \in OldSavs[r] : IsSav(r, f)

VARIABLES phase,      \* where the front end is; "off" between sessions
          rom,        \* the cartridge of the session
          gb, ram,    \* the machine and the cartridge RAM
          rew,        \* rewind_ring, rw_head, rw_count, rendered
          running,
          quick,      \* quick.gss
          sav,        \* <rom>.sav
          due         \* history: what each cartridge must start with
session == <<phase, rom, gb, ram, rew, running>>
disk == <<quick, sav>>
vars == <<session, disk, due>>

Nothing == [part |-> "none"]      \* no file, an unused slot, no promise

Rams == UNION {Ram(r) : r \in Roms}

\* Of the machine: the cartridge, and for the properties only,
\* mirror, what the program has read and written of its RAM, and mixed, whether
\* the machine was put together from two (or from another cartridge): then the
\* mirror means nothing.
Machine == [cart : CartState, mirror : Rams, mixed : BOOLEAN]

Snaps(r) == [gb : Machine, ram : Ram(r)]

\* A state file, by how far it reaches: not past its header, into the machine
\* but not to Cart, into Cart or further, or to the RAM or part of it.
Cut(p) == [part |-> p]
Into(c) == [part |-> "cart", cart |-> c]
Full == [part : {"all"}, gb : Machine, size : Nat,
         ram : UNION {[0 .. n - 1 -> Byte] : n \in 0 .. MaxRam}]
Files == {Nothing} \cup {Cut(p) : p \in {"header", "memory"}} \cup Full
           \cup [part : {"cart"}, cart : CartState]

PowerUp(r, c, m) == [cart |-> c, mirror |-> m, mixed |-> FALSE]
Mixed(g) == [g EXCEPT !.mixed = TRUE, !.mirror = EmptyRam(g.cart.title)]

NoRew == [ring |-> [i \in 0 .. Slots - 1 |-> Nothing], head |-> 0, count |-> 0,
          rendered |-> 0]

\* Between two sessions: no process, and so nothing but the last cartridge.
Idle == [r \in Roms |-> PowerUp(r, Loaded(r), EmptyRam(r))]

Gone == /\ phase' = "off" /\ running' = FALSE
        /\ gb' = Idle[rom] /\ ram' = Idle[rom].mirror
        /\ rew' = NoRew /\ UNCHANGED rom

Init == /\ phase = "off" /\ running = FALSE
        /\ rom \in Roms
        /\ gb = Idle[rom] /\ ram = Idle[rom].mirror
        /\ rew = NoRew /\ quick = Nothing
        /\ sav \in {f \in [Roms -> {Nothing} \cup UNION {OldSavs[r] : r \in Roms}] :
                   \A r \in Roms : f[r] = Nothing \/ f[r] \in OldSavs[r]}
        /\ due = [r \in Roms |-> Nothing]
-----------------------------------------------------------------------------
\* From cart_load to the loop.
Start(r) ==
  LET found == HasBattery(r) /\ RamCells(r) > 0 /\ sav[r] # Nothing
      m == IF found THEN SavedRam(r, sav[r]) ELSE EmptyRam(r)
      c == IF found THEN SavedRtc(Loaded(r), sav[r]) ELSE Loaded(r)
  IN  /\ phase = "off" /\ phase' = "poll" /\ running' = TRUE
      /\ rom' = r /\ ram' = m /\ gb' = PowerUp(r, c, m) /\ rew' = NoRew
      /\ UNCHANGED <<disk, due>>

\* Escape, or the window is closed: the turn of the loop goes on.
Quit == /\ phase = "poll" /\ running' = FALSE
        /\ UNCHANGED <<phase, rom, gb, ram, rew, disk, due>>

\* F5, gb_save_state: all of it, or as much as there was room for.
Saved == {Cut("header"), Cut("memory"), Into(gb.cart)} \cup
         {[part |-> "all", gb |-> gb, size |-> RamCells(rom),
           ram |-> [i \in 0 .. n - 1 |-> ram[i]]] : n \in 0 .. RamCells(rom)}

SaveState == /\ phase = "poll"
             /\ quick' \in Saved
             /\ UNCHANGED <<session, sav, due>>

\* F9, gb_load_state.  Without a file or a whole header it does nothing.
\* A file that ends before the Cart fields: part of the machine is another's.
LoadMemory == /\ quick.part = "memory"
              /\ gb' = Mixed(gb)
              /\ UNCHANGED <<phase, ram>>

\* One that ends later in the machine: the pointers to ROM and RAM are those of
\* the process that saved it.  If it is this one it goes on, the mapper's fields
\* being the file's as far as the file reaches, in the order of gb.h; if not, the
\* cartridge is out of its reach and Crash comes next.  Which it is, is not kept.
Fields == <<"mbc", "romBanks", "ramBanks", "en", "lo", "hi", "rb", "mode", "rtc",
            "title", "battery">>

Overlaid(c, new, n) ==
  [x \in DOMAIN c |-> IF \E i \in 1 .. n : Fields[i] = x THEN new[x] ELSE c[x]]

LoadCart == /\ quick.part = "cart"
            /\ \E n \in Reaches :
                 gb' = Mixed([gb EXCEPT !.cart = Overlaid(@, quick.cart, n)])
            /\ UNCHANGED <<phase, ram>>

\* The whole machine; then the RAM, if this cartridge has as much.
Whole(f) == DOMAIN f.ram = 0 .. f.size - 1
Fits(f)  == f.size <= RamCells(rom)

BugRamLoaded(f) == ram                              \* the RAM is left as it is

RamLoaded(f) == IF ~Fits(f) THEN ram
                ELSE [i \in DOMAIN ram |-> IF i \in DOMAIN f.ram THEN f.ram[i] ELSE ram[i]]

LoadAll == /\ quick.part = "all"
           /\ ram' = RamLoaded(quick)
           /\ gb' = IF quick.gb.cart.title # rom \/ (Fits(quick) /\ ~Whole(quick))
                    THEN Mixed(quick.gb) ELSE quick.gb
           /\ UNCHANGED phase

LoadState == /\ phase = "poll"
             /\ LoadMemory \/ LoadCart \/ LoadAll
             /\ UNCHANGED <<rom, rew, running, disk, due>>
-----------------------------------------------------------------------------
\* The end of a turn of the loop.
Loops == phase' = IF running THEN "poll" ELSE "closing"

Before(h) == (h - 1 + Slots) % Slots

\* Backspace.  The snapshot stays in its slot, where nothing may read it again.
Rewind ==
  /\ phase = "poll" /\ rew.count > 0
  /\ LET s == rew.ring[Before(rew.head)]
     IN  gb' = s.gb /\ ram' = s.ram
  /\ rew' = [rew EXCEPT !.ring = [@ EXCEPT ![Before(rew.head)] = Nothing],
                        !.head = Before(@), !.count = @ - 1,
                        !.rendered = (@ + 1) % Every]
  /\ Loops
  /\ UNCHANGED <<rom, running, disk, due>>

BeginFrame == /\ phase = "poll" /\ phase' = "frame"
              /\ UNCHANGED <<rom, gb, ram, rew, running, disk, due>>

\* The program writes to its cartridge.
ProgramWrites(w) ==
  /\ phase = "frame"
  /\ ram' = RamWritten(gb.cart, ram, w)
  /\ gb' = [gb EXCEPT !.cart = Written(@, w),
                      !.mirror = IF gb.mixed THEN @ ELSE RamWritten(gb.cart, @, w)]
  /\ UNCHANGED <<phase, rom, rew, running, disk, due>>

BugCounted(n) == n + 1                              \* more than there are slots

Counted(n) == IF n < Slots THEN n + 1 ELSE n

BugCaptured(rw, snap) ==                            \* the head moves first
  [rw EXCEPT !.ring = [@ EXCEPT ![(rw.head + 1) % Slots] = snap],
             !.head = (@ + 1) % Slots, !.count = Counted(@)]

Captured(rw, snap) == [rw EXCEPT !.ring = [@ EXCEPT ![rw.head] = snap],
                                 !.head = (@ + 1) % Slots, !.count = Counted(@)]

\* The frame is complete; every so many a snapshot is taken.
EndFrame ==
  LET rw == [rew EXCEPT !.rendered = (@ + 1) % Every]
  IN  /\ phase = "frame"
      /\ rew' = IF rw.rendered = 0 THEN Captured(rw, [gb |-> gb, ram |-> ram]) ELSE rw
      /\ Loops
      /\ UNCHANGED <<rom, gb, ram, running, disk, due>>

\* The battery file is written, to its end or not.
Close ==
  LET file == SavFile(gb.cart, ram)
      promise == [ram |-> ram, rtc |-> gb.cart.rtc]
  IN  /\ phase = "closing" /\ Gone /\ UNCHANGED quick
      /\ IF gb.cart.battery /\ RamCells(rom) > 0
         THEN \E f \in {file} \cup CutSavs(rom, file) :
                /\ sav' = [sav EXCEPT ![rom] = f]
                /\ due' = [due EXCEPT ![rom] = IF f = file /\ ~gb.mixed THEN promise ELSE Nothing]
         ELSE UNCHANGED <<sav, due>>

Crash == phase # "off" /\ Gone /\ UNCHANGED <<disk, due>>

Next == \/ \E r \in Roms : Start(r)
        \/ Quit \/ SaveState \/ LoadState
        \/ Rewind \/ BeginFrame \/ EndFrame \/ Close \/ Crash
        \/ \E w \in Program[rom] : ProgramWrites(w)

Spec == Init /\ [][Next]_vars
-----------------------------------------------------------------------------
\* Type invariant, with what the code relies on without looking: every slot of
\* the ring that counts was filled.
TypeOK ==
  /\ phase \in {"off", "poll", "frame", "closing"}
  /\ rom \in Roms /\ gb \in Machine /\ ram \in Ram(rom) /\ running \in BOOLEAN
  /\ rew \in [ring : [0 .. Slots - 1 -> {Nothing} \cup Snaps(rom)],
              head : 0 .. Slots - 1, count : 0 .. Slots, rendered : 0 .. Every - 1]
  /\ quick \in Files
  /\ \A r \in Roms : sav[r] = Nothing \/ IsSav(r, sav[r])

Stack == [i \in 1 .. rew.count |-> rew.ring[(rew.head - rew.count + i - 1) % Slots]]

SlotsFilled == \A i \in 1 .. rew.count : Stack[i] # Nothing

SessionInv == TypeOK /\ SlotsFilled

\* What the program knows of its cartridge RAM is what is in it: through F5,
\* F9, rewinds, crashes and later sessions, machine and RAM move together.
\* Only a load that reports an error, or the state of another cartridge (for
\* which no error is reported), can separate them.
RamBelongs == ~gb.mixed => gb.mirror = ram

\* Whatever was written to the registers, saved, loaded or rewound, the banks the
\* program sees through both windows are banks of the file that cart_load read,
\* also of one that is shorter than its header says - if it has two, and the
\* registers did not come with another cartridge's state.
ReadsStayInRom ==
  ~gb.mixed /\ Header[rom].file >= 2 =>
    \A b \in {LowRomBank(gb.cart), HighRomBank(gb.cart)} :
      RomBank(gb.cart, b) < Header[rom].file

\* The ring of play.c is a stack of whole machines.
Rewinds == INSTANCE RewindAbs WITH Depth <- Slots, stack <- Stack,
                                   cur <- [gb |-> gb, ram |-> ram]
ImplementsRewindAbs == Rewinds!Spec

\* A session goes on with the RAM and the clock of the last one that was closed
\* and whose file was written to its end (cart.c 108: "persist cartridge RAM
\* (+ the MBC3 RTC)"), whatever was loaded, rewound or lost since.
SavesContinue ==
  [][\A r \in Roms :
       Start(r) /\ HasBattery(r) /\ RamCells(r) > 0 /\ due[r] # Nothing
         => ram' = due[r].ram /\ gb'.cart.rtc = due[r].rtc]_vars
=============================================================================
