---------------------------- MODULE OamDmaProofs ----------------------------
(***************************************************************************)
(* Proofs about OamDma for every length, startup delay, set of pages and   *)
(* set of values that OamDmaAssumption allows.                             *)
(***************************************************************************)
EXTENDS OamDma, TLAPS

\* The byte an M-cycle may read from the source is a value.
LEMMA MemoryIsValue ==
  ASSUME TypeOK, NEW p \in Page, NEW i \in Index, NEW v \in BOOLEAN
  PROVE  Memory(p, i, v) \in Value
  BY OamDmaAssumption DEF TypeOK, Memory, Page

\* The end of the startup delay: either the new source takes over at byte 0 or the
\* running transfer is as it was.
LEMMA StartedEffect ==
  ASSUME DmaInv
  PROVE  /\ Started \in DmaState
         /\ Started.running => Started.pos \in Index
         /\ IF dma.start = 1
            THEN Started.running /\ Started.pos = 0
            ELSE /\ Started.running = dma.running /\ Started.pos = dma.pos
                 /\ Started.src = dma.src
  <1>1. dma \in DmaState /\ Len \in Nat /\ Len > 1 /\ Delay \in Nat /\ Delay > 0
    BY OamDmaAssumption DEF DmaInv, TypeOK
  <1>2. dma.running => dma.pos \in 1 .. Len - 1
    BY DEF DmaInv, BusShowsLastByte
  <1>3. CASE dma.start = 1
    <2>1. Started = [dma EXCEPT !.start = 0, !.src = dma.pending, !.pos = 0,
                                !.running = TRUE]
      BY <1>3 DEF Started
    <2>2. 0 \in 0 .. Delay /\ 0 \in 0 .. Len /\ 0 \in Index
      BY <1>1 DEF Index
    <2> QED BY <1>1, <1>3, <2>1, <2>2 DEF DmaState
  <1>4. CASE dma.start # 1
    <2> DEFINE n == IF dma.start = 0 THEN 0 ELSE dma.start - 1
    <2>1. n \in 0 .. Delay
      BY <1>1 DEF DmaState
    <2>2. Started = [dma EXCEPT !.start = n]
      BY <1>1, <1>4 DEF Started, DmaState
    <2> HIDE DEF n
    <2>3. /\ Started \in DmaState
          /\ Started.running = dma.running /\ Started.pos = dma.pos
          /\ Started.src = dma.src
      BY <1>1, <2>1, <2>2 DEF DmaState
    <2>4. dma.running => dma.pos \in Index
      BY <1>1, <1>2 DEF Index
    <2> QED BY <1>4, <2>3, <2>4
  <1> QED BY <1>3, <1>4

\* dma_tick as a whole: at most one byte is stored, it is the one the bus shows, and
\* a transfer that goes on has stored it just below its position.
LEMMA TickEffect ==
  ASSUME DmaInv, NEW v \in BOOLEAN
  PROVE  /\ TickedDma(v) \in DmaState
         /\ TickedOam(v) \in [Index -> Value]
         /\ TickedDma(v).running =>
              /\ Started.running /\ Started.pos \in Index
              /\ TickedDma(v).src = Started.src
              /\ TickedDma(v).pos = Started.pos + 1
              /\ TickedDma(v).pos \in 1 .. Len - 1
              /\ TickedDma(v).busVal = Memory(Started.src, Started.pos, v)
              /\ TickedOam(v) = [oam EXCEPT ![Started.pos] = TickedDma(v).busVal]
  <1> DEFINE d == Started
             b == Memory(d.src, d.pos, v)
  <1>1. d \in DmaState /\ (d.running => d.pos \in Index)
    BY StartedEffect
  <1>2. TypeOK /\ Len \in Nat /\ Len > 1
    BY OamDmaAssumption DEF DmaInv
  <1>3. CASE Copies(d)
    <2>1. d.running /\ d.pos \in Index /\ d.src \in Page
      BY <1>1, <1>3 DEF Copies, DmaState
    <2>2. b \in Value
      BY <1>2, <2>1, MemoryIsValue
    <2>3. TickedOam(v) = [oam EXCEPT ![d.pos] = b]
      BY <1>3 DEF TickedOam
    <2> DEFINE r == d.pos + 1 < Len
               q == d.pos + 1
    <2>4. TickedDma(v) = [d EXCEPT !.busVal = b, !.pos = q, !.running = r]
      BY <1>1, <1>3 DEF TickedDma, DmaState
    <2>5. r \in BOOLEAN /\ q \in 0 .. Len /\ (r => q \in 1 .. Len - 1)
      BY <1>2, <2>1 DEF Index
    <2>6. q = d.pos + 1
      OBVIOUS
    <2> HIDE DEF b, r, q, d
    <2>7. /\ TickedDma(v) \in DmaState
          /\ TickedDma(v).busVal = b /\ TickedDma(v).pos = q
          /\ TickedDma(v).running = r /\ TickedDma(v).src = d.src
      BY <1>1, <2>2, <2>4, <2>5 DEF DmaState
    <2>8. TickedOam(v) \in [Index -> Value]
      BY <1>2, <2>2, <2>3 DEF TypeOK
    <2>9. b = Memory(d.src, d.pos, v)
      BY DEF b
    <2> QED BY <2>1, <2>3, <2>5, <2>6, <2>7, <2>8, <2>9 DEF d
  <1>4. CASE ~Copies(d)
    <2>1. TickedDma(v) = d /\ TickedOam(v) = oam
      BY <1>4 DEF TickedDma, TickedOam
    <2>2. ~d.running
      BY <1>1, <1>2, <1>4 DEF Copies, Index
    <2> QED BY <1>1, <1>2, <2>1, <2>2 DEF TypeOK
  <1> QED BY <1>3, <1>4

\* Power-up.
LEMMA InitOk == Init => DmaInv /\ PrefixIsCopied
  <1> SUFFICES ASSUME Init PROVE DmaInv /\ PrefixIsCopied
    OBVIOUS
  <1>1. 0 \in 0 .. Delay /\ Len \in 0 .. Len /\ Zero \in Value
    BY OamDmaAssumption
  <1>2. dma \in DmaState
    BY <1>1 DEF Init, DmaState, Page
  <1>3. ~dma.running
    BY DEF Init
  <1>4. TypeOK
    BY <1>1, <1>2 DEF Init, TypeOK
  <1> QED BY <1>3, <1>4 DEF DmaInv, BusShowsLastByte, PrefixIsCopied

\* What the cpu does in an M-cycle, as far as the transfer can tell.
LEMMA CycleEffect ==
  ASSUME DmaInv, NEW v \in BOOLEAN, NEW o \in BOOLEAN, MCycle(v, o)
  PROVE  /\ dma' \in DmaState /\ mem' \in [Ext \cup Vram -> [Index -> Value]]
         /\ oam' \in [Index -> Value] /\ dirty' \in BOOLEAN
         /\ dma'.running = TickedDma(v).running
         /\ dma'.running => /\ dma'.src = TickedDma(v).src
                            /\ dma'.pos = TickedDma(v).pos
                            /\ dma'.busVal = TickedDma(v).busVal
                            /\ oam' = TickedOam(v)
         /\ ~dirty' => /\ mem' = mem
                       /\ v \/ Started.src \notin Vram
                       /\ ~dirty \/ dma.start = 1
  <1>1. /\ TickedDma(v) \in DmaState /\ TickedOam(v) \in [Index -> Value]
        /\ mem \in [Ext \cup Vram -> [Index -> Value]] /\ dirty \in BOOLEAN
    BY TickEffect DEF DmaInv, TypeOK
  <1>2. CASE Idle(v)
    BY <1>1, <1>2 DEF Idle, Track
  <1>3. CASE WriteFF46(v)
    <2>1. PICK p \in Page : dma' = [TickedDma(v) EXCEPT !.pending = p, !.start = Delay]
      BY <1>3 DEF WriteFF46
    <2>2. Delay \in 0 .. Delay
      BY OamDmaAssumption
    <2>3. /\ dma' \in DmaState /\ dma'.running = TickedDma(v).running
          /\ dma'.src = TickedDma(v).src /\ dma'.pos = TickedDma(v).pos
          /\ dma'.busVal = TickedDma(v).busVal
      BY <1>1, <2>1, <2>2 DEF DmaState
    <2>4. oam' = TickedOam(v) /\ mem' = mem /\ Track(v, FALSE)
      BY <1>3 DEF WriteFF46
    <2> QED BY <1>1, <2>3, <2>4 DEF Track
  <1>4. CASE WriteMem(v)
    <2>1. PICK p \in Ext \cup Vram, i \in Index, b \in Value :
            mem' = [mem EXCEPT ![p][i] = b]
      BY <1>4 DEF WriteMem
    <2>2. mem' \in [Ext \cup Vram -> [Index -> Value]]
      BY <1>1, <2>1
    <2>3. dma' = TickedDma(v) /\ oam' = TickedOam(v) /\ dirty' = TRUE
      BY <1>4 DEF WriteMem, Track
    <2> QED BY <1>1, <2>2, <2>3
  <1>5. CASE WriteOam(v, o)
    <2>1. PICK i \in Index, b \in Value : oam' = [TickedOam(v) EXCEPT ![i] = b]
      BY <1>5 DEF WriteOam
    <2>2. /\ ~TickedDma(v).running /\ dma' = TickedDma(v) /\ mem' = mem
          /\ dirty' = TRUE
      BY <1>5 DEF WriteOam, Track
    <2> QED BY <1>1, <2>1, <2>2
  <1> QED BY <1>2, <1>3, <1>4, <1>5 DEF MCycle

\* An M-cycle keeps the invariant.
LEMMA CycleKeeps ==
  ASSUME DmaInv, Next
  PROVE  DmaInv'
  <1>1. PICK v \in BOOLEAN, o \in BOOLEAN : MCycle(v, o)
    BY DEF Next
  <1>2. TypeOK'
    BY <1>1, CycleEffect DEF TypeOK
  <1>3. BusShowsLastByte'
    <2> SUFFICES ASSUME dma'.running
                 PROVE  dma'.pos \in 1 .. Len - 1 /\ oam'[dma'.pos - 1] = dma'.busVal
      BY DEF BusShowsLastByte
    <2>1. /\ TickedDma(v).running /\ oam' = TickedOam(v)
          /\ dma'.pos = TickedDma(v).pos /\ dma'.busVal = TickedDma(v).busVal
      BY <1>1, CycleEffect
    <2>2. /\ Started.pos \in Index /\ dma'.pos = Started.pos + 1
          /\ dma'.pos \in 1 .. Len - 1
          /\ oam' = [oam EXCEPT ![Started.pos] = dma'.busVal]
      BY <2>1, TickEffect
    <2>3. dma'.pos - 1 = Started.pos
      BY <2>2, OamDmaAssumption DEF Index
    <2>4. oam \in [Index -> Value]
      BY DEF DmaInv, TypeOK
    <2> QED BY <2>2, <2>3, <2>4
  <1> QED BY <1>2, <1>3 DEF DmaInv

\* Nor does it leave a gap behind the position.
LEMMA CycleCopies ==
  ASSUME DmaInv, PrefixIsCopied, Next
  PROVE  PrefixIsCopied'
  <1>1. PICK v \in BOOLEAN, o \in BOOLEAN : MCycle(v, o)
    BY DEF Next
  <1> SUFFICES ASSUME dma'.running, ~dirty', NEW i \in 0 .. dma'.pos - 1
               PROVE  oam'[i] = Memory(dma.src, i, TRUE)'
    BY DEF PrefixIsCopied
  <1>2. /\ TickedDma(v).running /\ oam' = TickedOam(v)
        /\ dma'.pos = TickedDma(v).pos /\ dma'.src = TickedDma(v).src
        /\ dma'.busVal = TickedDma(v).busVal
        /\ mem' = mem /\ (v \/ Started.src \notin Vram) /\ (~dirty \/ dma.start = 1)
    BY <1>1, CycleEffect
  <1>3. /\ Started.running /\ Started.pos \in Index
        /\ dma'.src = Started.src /\ dma'.pos = Started.pos + 1
        /\ oam' = [oam EXCEPT ![Started.pos] = Memory(Started.src, Started.pos, v)]
    BY <1>2, TickEffect
  <1>4. Memory(dma.src, i, TRUE)' = Memory(Started.src, i, TRUE)
    BY <1>2, <1>3 DEF Memory
  <1>5. /\ oam \in [Index -> Value] /\ Len \in Nat /\ Len > 1
        /\ i \in 0 .. Started.pos /\ Started.pos \in 0 .. Len - 1
    BY <1>3, OamDmaAssumption DEF DmaInv, TypeOK, Index
  <1>6. CASE i = Started.pos
    <2>1. Memory(Started.src, i, v) = Memory(Started.src, i, TRUE)
      BY <1>2 DEF Memory
    <2> QED BY <1>3, <1>4, <1>5, <1>6, <2>1
  <1>7. CASE i # Started.pos
    <2>1. i \in 0 .. Started.pos - 1 /\ i \in Index
      BY <1>5, <1>7 DEF Index
    <2>2. dma.start # 1
      BY <2>1, StartedEffect
    <2>3. ~dirty /\ dma.running /\ Started.src = dma.src /\ Started.pos = dma.pos
      BY <1>2, <1>3, <2>2, StartedEffect
    <2>4. oam[i] = Memory(Started.src, i, TRUE)
      BY <2>1, <2>3 DEF PrefixIsCopied
    <2> QED BY <1>3, <1>4, <1>5, <1>7, <2>1, <2>4
  <1> QED BY <1>6, <1>7
-----------------------------------------------------------------------------
\* bus.c: the DMA unit stays in OAM and the bus shows the byte just stored.
THEOREM InvariantHolds == Spec => []DmaInv
  <1>1. Init => DmaInv
    BY InitOk
  <1>2. DmaInv /\ [Next]_vars => DmaInv'
    <2>1. CASE Next
      BY <2>1, CycleKeeps
    <2>2. CASE UNCHANGED vars
      BY <2>2 DEF vars, DmaInv, TypeOK, BusShowsLastByte
    <2> QED BY <2>1, <2>2
  <1> QED BY <1>1, <1>2, PTL DEF Spec

\* bus_read during a transfer: its bus answers with the byte of this M-cycle, and
\* OAM is blank.
THEOREM ReadsHold == Spec => []ReadsSeeTheTransfer
  <1>1. DmaInv => ReadsSeeTheTransfer
    BY DEF DmaInv, BusShowsLastByte, ReadsSeeTheTransfer, Read, OnDmaBus
  <1> QED BY <1>1, InvariantHolds, PTL

\* dma_tick with restarts at any moment: every byte behind the position is the one
\* of the current source.
THEOREM PrefixHolds == Spec => []PrefixIsCopied
  <1>1. Init => PrefixIsCopied
    BY InitOk
  <1>2. DmaInv /\ PrefixIsCopied /\ [Next]_vars => PrefixIsCopied'
    <2>1. CASE Next
      BY <2>1, CycleCopies
    <2>2. CASE UNCHANGED vars
      BY <2>2 DEF vars, PrefixIsCopied, Memory
    <2> QED BY <2>1, <2>2
  <1> QED BY <1>1, <1>2, InvariantHolds, PTL DEF Spec

\* The OAM lock of bus_write: while a transfer goes on only dma_tick writes OAM.
THEOREM LockHolds == Spec => OamIsLocked
  <1> DEFINE Locked == dma'.running => \A i \in Index :
                         oam'[i] # oam[i] => i = dma'.pos - 1
  <1>1. DmaInv /\ Next => Locked
    <2> SUFFICES ASSUME DmaInv, Next, dma'.running, NEW i \in Index,
                        oam'[i] # oam[i]
                 PROVE  i = dma'.pos - 1
      OBVIOUS
    <2>1. PICK v \in BOOLEAN, o \in BOOLEAN : MCycle(v, o)
      BY DEF Next
    <2>2. /\ TickedDma(v).running /\ oam' = TickedOam(v)
          /\ dma'.pos = TickedDma(v).pos
      BY <2>1, CycleEffect
    <2>3. /\ Started.pos \in Index /\ dma'.pos = Started.pos + 1
          /\ oam' = [oam EXCEPT ![Started.pos] = TickedDma(v).busVal]
      BY <2>2, TickEffect
    <2>4. oam \in [Index -> Value] /\ Len \in Nat
      BY OamDmaAssumption DEF DmaInv, TypeOK
    <2> QED BY <2>3, <2>4 DEF Index
  <1>2. DmaInv /\ [Next]_vars => [Locked]_vars
    BY <1>1
  <1>3. OamIsLocked <=> [][Locked]_vars
    BY DEF OamIsLocked
  <1> QED BY <1>2, <1>3, InvariantHolds, PTL DEF Spec
=============================================================================
