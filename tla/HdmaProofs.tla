----------------------------- MODULE HdmaProofs -----------------------------
(***************************************************************************)
(* Proofs about Hdma, for any address space, any VRAM bank and any request *)
(* FF55 can make of it, the one for all its blocks included.               *)
(***************************************************************************)
EXTENDS Hdma, TLAPS

(* Arithmetic of destinations and sources that wrap. *)
LEMMA ModInRange == ASSUME NEW a \in Int, NEW n \in Nat \ {0}  PROVE a % n \in 0 .. n - 1
OBVIOUS

(* A position that is in range is left as it is.                             *)
LEMMA ModSmall == ASSUME NEW n \in Nat \ {0}, NEW a \in 0 .. n - 1  PROVE a % n = a
OBVIOUS

(* One whole turn, forward or back, changes no position.                     *)
LEMMA ModOnce ==
  ASSUME NEW n \in Nat \ {0}, NEW a \in 0 .. n - 1
  PROVE  (a + n) % n = a /\ (a - n) % n = a
OBVIOUS

(* Nor do any number of whole turns.                                         *)
LEMMA ModUnique ==
  ASSUME NEW n \in Nat \ {0}, NEW q \in Int, NEW r \in 0 .. n - 1
  PROVE  ((q * n) + r) % n = r
OBVIOUS

(* A position is a number of whole turns and a remainder.                    *)
LEMMA DivMod ==
  ASSUME NEW n \in Nat \ {0}, NEW a \in Nat
  PROVE  a \div n \in Nat /\ a = ((a \div n) * n) + (a % n)
OBVIOUS

(* Stepping a wrapped position is wrapping the next one. *)
LEMMA ModNext ==
  ASSUME NEW n \in Nat \ {0}, NEW a \in Nat
  PROVE  ((a % n) + 1) % n = (a + 1) % n
<1> DEFINE q == a \div n
           r == a % n
<1>1. q \in Nat /\ a = (q * n) + r /\ r \in 0 .. n - 1
  <2>1. q \in Nat /\ a = (q * n) + r  BY DivMod
  <2>2. r \in 0 .. n - 1  OBVIOUS
  <2> QED  BY <2>1, <2>2
<1> HIDE DEF q, r
<1>2. CASE r + 1 < n
  <2>1. r + 1 \in 0 .. n - 1 /\ a + 1 = (q * n) + (r + 1)  BY <1>1, <1>2
  <2>2. (a + 1) % n = r + 1  BY <2>1, <1>1, ModUnique
  <2>3. (r + 1) % n = r + 1  BY <2>1, ModSmall
  <2> QED  BY <2>2, <2>3 DEF r
<1>3. CASE r + 1 = n
  <2>1. a + 1 = ((q + 1) * n) + 0 /\ q + 1 \in Int  BY <1>1, <1>3
  <2>2. 0 \in 0 .. n - 1  OBVIOUS
  <2>3. (a + 1) % n = 0  BY <2>1, <2>2, ModUnique
  <2>4. n % n = 0  OBVIOUS
  <2> QED  BY <1>3, <2>3, <2>4 DEF r
<1> QED  BY <1>1, <1>2, <1>3

(* Taking a wrapped value modulo again changes nothing. *)
LEMMA ModMod == ASSUME NEW n \in Nat \ {0}, NEW a \in Nat  PROVE (a % n) % n = a % n
<1> DEFINE r == a % n
<1>1. r \in 0 .. n - 1  OBVIOUS
<1> HIDE DEF r
<1>2. r % n = r  BY <1>1, ModSmall
<1> QED  BY <1>2 DEF r

(* The distance of the k-th slot from the first one is k. *)
LEMMA SlotDistance ==
  ASSUME NEW n \in Nat \ {0}, NEW d \in 0 .. n - 1, NEW k \in 0 .. n - 1
  PROVE  (((d + k) % n) - d) % n = k
<1>1. CASE d + k < n
  <2>1. d + k \in 0 .. n - 1  BY <1>1
  <2>2. (d + k) % n = d + k  BY <2>1, ModSmall
  <2>3. k % n = k  BY ModSmall
  <2>4. (d + k) - d = k  OBVIOUS
  <2> QED  BY <2>2, <2>3, <2>4
<1>2. CASE d + k >= n
  <2> DEFINE e == (d + k) - n
  <2>1. e \in 0 .. n - 1 /\ d + k = e + n  BY <1>2
  <2>2. (d + k) % n = e  BY <2>1, ModOnce
  <2>3. e - d = k - n  BY <2>1
  <2> QED  BY <2>2, <2>3, ModOnce
<1> QED  BY <1>1, <1>2

(* Only the first slot is at distance 0. *)
LEMMA FirstSlot ==
  ASSUME NEW n \in Nat \ {0}, NEW d \in 0 .. n - 1, NEW s \in 0 .. n - 1
  PROVE  (s - d) % n < 1 <=> s = d
<1>1. CASE s >= d
  <2> DEFINE e == s - d
  <2>1. e \in 0 .. n - 1  BY <1>1
  <2>2. e % n = e  BY <2>1, ModSmall
  <2> QED  BY <2>1, <2>2
<1>2. CASE s < d
  <2> DEFINE e == (s - d) + n
  <2>1. e \in 1 .. n - 1 /\ s - d = e - n  BY <1>2
  <2>2. (s - d) % n = e  BY <2>1, ModOnce
  <2> QED  BY <1>2, <2>1, <2>2
<1> QED  BY <1>1, <1>2
-----------------------------------------------------------------------------
(* Hdma's inductive invariant.  HdmaInv says where a transfer is, running or *)
(* not; that its blocks are where they belong is kept with it, and needs     *)
(* that the VRAM bank is the one of the transfer for as long as the program  *)
(* has not touched it.                                                       *)
BankKept == ~touched => latch.bank = job.bank

HInv == HdmaInv /\ BankKept /\ BlocksAreInPlace

(* The constants, as the proofs use them.                                    *)
LEMMA Sizes ==
  /\ Blocks \in Nat \ {0} /\ Slots \in Nat \ {0} /\ Flag \in Nat \ {0} /\ Flag <= Slots
  /\ Idling \in Nat /\ Idling = (2 * Flag) - 1
BY HdmaAssumption DEF Idling

(* A unit nobody has asked for anything: nothing is counted as copied.       *)
THEOREM InitHolds == Init => HInv
<1> SUFFICES ASSUME Init PROVE HInv  OBVIOUS
<1>1. TypeOK
  <2>1. 0 \in Source /\ 0 \in Slot /\ 0 \in Bank /\ 0 \in 0 .. Idling /\ 0 \in 0 .. Flag
    BY Sizes DEF Source, Slot, Bank
  <2>2. hdma \in HdmaState  BY <2>1 DEF Init, HdmaState
  <2>3. latch \in Latches /\ job \in Job  BY <2>1 DEF Init, Latches, Job
  <2> QED  BY <2>2, <2>3 DEF Init, TypeOK
<1>2. ProgressFits /\ BankKept  BY DEF Init, ProgressFits, Rests, BankKept
<1>3. BlocksAreInPlace  BY DEF Init, BlocksAreInPlace
<1> QED  BY <1>1, <1>2, <1>3 DEF HInv, HdmaInv

(* What a copy leaves behind: the banks keep their shape, and a slot of the  *)
(* mapped bank holds a block read from the bus exactly when it is one of the *)
(* n slots from dst on.                                                      *)
LEMMA CopyEffect ==
  ASSUME TypeOK, NEW src \in Source, NEW dst \in Slot, NEW n \in Nat, NEW taken \in BOOLEAN
  PROVE  LET v == Copied(src, dst, n, taken) IN
         /\ v \in [Bank -> [Slot -> Value]]
         /\ \A b \in Bank : b # latch.bank => v[b] = vram[b]
         /\ \A s \in Slot :
              v[latch.bank][s] = IF (s - dst) % Slots < n
                                 THEN BusRead(src + ((s - dst) % Slots), taken)
                                 ELSE vram[latch.bank][s]
<1> DEFINE row == [s \in Slot |->
             LET k == (s - dst) % Slots
             IN  IF k < n THEN BusRead(src + k, taken) ELSE vram[latch.bank][s]]
<1>t. /\ latch.bank \in Bank /\ vram \in [Bank -> [Slot -> Value]]
      /\ mem \in [Source -> Value] /\ BusVal \in Value
  BY HdmaAssumption DEF TypeOK, Latches
<1>1. Copied(src, dst, n, taken) = [vram EXCEPT ![latch.bank] = row]
  BY <1>t DEF Copied
<1>2. row \in [Slot -> Value]
  <2> SUFFICES ASSUME NEW s \in Slot
               PROVE  row[s] \in Value
    OBVIOUS
  <2> DEFINE k == (s - dst) % Slots
  <2>1. Slots \in Nat \ {0} /\ Blocks \in Nat \ {0}  BY HdmaAssumption
  <2>2. s \in Int /\ dst \in Int /\ src \in Nat  BY <2>1 DEF Slot, Source
  <2>3. k \in Nat  BY <2>1, <2>2, ModInRange
  <2> HIDE DEF k
  <2>4. (src + k) % Blocks \in Source  BY <2>1, <2>2, <2>3, ModInRange DEF Source
  <2>5. BusRead(src + k, taken) \in Value  BY <1>t, <2>4 DEF BusRead
  <2> QED  BY <1>t, <2>5 DEF k
<1> QED  BY <1>1, <1>2, <1>t

(* Stopping a transfer, and starting the next one: src/bus.c 86-102.         *)
LEMMA StopKeepsHInv == HInv /\ Stop => HInv'
<1> SUFFICES ASSUME HInv, Stop PROVE HInv'  OBVIOUS
<1>a. Runs /\ TypeOK  BY DEF HInv, HdmaInv, ProgressFits, Stop
<1>1. PICK c \in 0 .. Flag, p \in 0 .. Flag : job.count = c /\ job.done = p
  BY <1>a DEF TypeOK, Job
<1>2. p < c /\ hdma.len = c - p - 1  BY <1>a, <1>1 DEF Runs
<1>3. Flag + (c - p - 1) \in 0 .. Idling  BY <1>2, Sizes
<1>4. hdma' = [hdma EXCEPT !.active = FALSE, !.len = Flag + (c - p - 1)]
  BY <1>2 DEF Stop
<1>5. hdma \in HdmaState  BY <1>a DEF TypeOK
<1>6. hdma' \in HdmaState  BY <1>3, <1>4, <1>5 DEF HdmaState
<1>7. hdma'.len = Flag + (c - p - 1) /\ ~hdma'.active  BY <1>4, <1>5 DEF HdmaState
<1>8. TypeOK'  BY <1>a, <1>6 DEF TypeOK, Stop
<1>9. ProgressFits'  BY <1>1, <1>2, <1>7 DEF ProgressFits, Rests, Stop
<1>10. BankKept' /\ BlocksAreInPlace'
  BY DEF HInv, BankKept, BlocksAreInPlace, Stop
<1> QED  BY <1>8, <1>9, <1>10 DEF HInv, HdmaInv

(* FF55 with bit 7: an HBlank transfer begins with nothing copied.           *)
LEMMA BeginKeepsHInv == ASSUME HInv, NEW n \in Count, Begin(n)  PROVE HInv'
<1>t. /\ hdma \in HdmaState /\ latch.src \in Source /\ latch.dst \in Slot
      /\ latch.bank \in Bank
  BY DEF HInv, HdmaInv, TypeOK, Latches
<1>n. n \in 1 .. Flag /\ n \in 0 .. Flag /\ 0 \in 0 .. Flag /\ n - 1 \in 0 .. Idling
  BY Sizes DEF Count
<1>1. hdma' = [[hdma EXCEPT !.src = latch.src, !.dst = latch.dst]
                    EXCEPT !.len = n - 1, !.active = TRUE]
  BY DEF Begin, Loaded
<1>2. /\ hdma' \in HdmaState /\ hdma'.active /\ hdma'.len = n - 1
      /\ hdma'.src = latch.src /\ hdma'.dst = latch.dst
  BY <1>1, <1>t, <1>n DEF HdmaState
<1>3. /\ job' = [src |-> latch.src, dst |-> latch.dst, bank |-> latch.bank,
                 count |-> n, done |-> 0]
      /\ job' \in Job
  BY <1>t, <1>n DEF Begin, Requested, Job
<1>4. TypeOK'  BY <1>2, <1>3 DEF HInv, HdmaInv, TypeOK, Begin
<1>5. ProgressFits'
  <2>1. PICK s \in 0 .. Blocks - 1 : latch.src = s  BY <1>t DEF Source
  <2>2. PICK d \in 0 .. Slots - 1 : latch.dst = d  BY <1>t DEF Slot
  <2>3. s + 0 = s /\ d + 0 = d /\ n - 0 - 1 = n - 1 /\ 0 < n  BY <1>n
  <2>4. s % Blocks = s /\ d % Slots = d  BY Sizes, ModSmall
  <2> QED  BY <1>2, <1>3, <2>1, <2>2, <2>3, <2>4 DEF ProgressFits, Runs
<1>6. BankKept'  BY <1>3 DEF BankKept, Begin
<1>7. BlocksAreInPlace'  BY <1>3 DEF BlocksAreInPlace
<1> QED  BY <1>4, <1>5, <1>6, <1>7 DEF HInv, HdmaInv

(* FF55 without bit 7: every block at once, in place if no OAM DMA answered. *)
LEMMA GeneralKeepsHInv ==
  ASSUME HInv, NEW n \in Count, NEW taken \in BOOLEAN, General(n, taken)
  PROVE  HInv'
<1>t. /\ TypeOK /\ hdma \in HdmaState /\ latch.src \in Source /\ latch.dst \in Slot
      /\ latch.bank \in Bank
  BY DEF HInv, HdmaInv, TypeOK, Latches
<1>n. n \in 1 .. Flag /\ n \in Nat /\ n <= Slots /\ n \in 0 .. Flag
  BY Sizes DEF Count
<1>s. latch.src + n \in Int /\ latch.dst + n \in Int
  BY Sizes, <1>t, <1>n DEF Source, Slot
<1>1. (latch.src + n) % Blocks \in Source /\ (latch.dst + n) % Slots \in Slot
  BY Sizes, <1>s, ModInRange DEF Source, Slot
<1>2. hdma' \in HdmaState /\ hdma'.len = Idling /\ ~hdma'.active
  <2>1. hdma' = [[[hdma EXCEPT !.src = latch.src, !.dst = latch.dst]
                       EXCEPT !.src = (latch.src + n) % Blocks,
                              !.dst = (latch.dst + n) % Slots]
                       EXCEPT !.len = Idling]
    BY <1>t DEF General, Moved, Loaded, HdmaState
  <2>2. ~hdma.active  BY DEF General
  <2>3. Idling \in 0 .. Idling  BY Sizes
  <2> DEFINE x == (latch.src + n) % Blocks
             y == (latch.dst + n) % Slots
  <2> HIDE DEF x, y
  <2>4. x \in Source /\ y \in Slot  BY <1>1 DEF x, y
  <2>5. hdma' = [[[hdma EXCEPT !.src = latch.src, !.dst = latch.dst]
                       EXCEPT !.src = x, !.dst = y] EXCEPT !.len = Idling]
    BY <2>1 DEF x, y
  <2> QED  BY <1>t, <2>2, <2>3, <2>4, <2>5 DEF HdmaState
<1>3. /\ job' = [src |-> latch.src, dst |-> latch.dst, bank |-> latch.bank,
                 count |-> n, done |-> n]
      /\ job' \in Job
  BY <1>t, <1>n DEF General, Requested, Job
<1>4. TypeOK'
  BY <1>t, <1>n, <1>2, <1>3, CopyEffect DEF TypeOK, General
<1>5. ProgressFits' /\ BankKept'
  BY <1>2, <1>3 DEF ProgressFits, Rests, BankKept, General
<1>6. BlocksAreInPlace'
  <2>1. job'.done = n  BY <1>3
  <2> SUFFICES ASSUME ~touched', NEW k \in 0 .. n - 1
               PROVE  vram'[job'.bank][(job'.dst + k) % Slots]
                        = mem'[(job'.src + k) % Blocks]
    BY <2>1 DEF BlocksAreInPlace
  <2>2. PICK d \in 0 .. Slots - 1 : latch.dst = d  BY <1>t DEF Slot
  <2> DEFINE s == (d + k) % Slots
  <2>3. k \in 0 .. Slots - 1 /\ k < n /\ d + k \in Int  BY Sizes, <1>n
  <2>4. (s - d) % Slots = k  BY Sizes, <2>3, SlotDistance
  <2>5. s \in Slot  BY Sizes, <2>3, ModInRange DEF Slot
  <2> HIDE DEF s
  <2>6. vram'[latch.bank][s] = BusRead(latch.src + k, taken)
    BY <1>t, <1>n, <2>2, <2>3, <2>4, <2>5, CopyEffect DEF General
  <2>7. taken = FALSE /\ mem' = mem  BY DEF General
  <2> QED  BY <1>3, <2>2, <2>6, <2>7 DEF BusRead, s
<1> QED  BY <1>4, <1>5, <1>6 DEF HInv, HdmaInv

(* One HBlank: src/bus.c 77-84, 105-111. *)
LEMMA HBlankEffect ==
  ASSUME HInv, NEW taken \in BOOLEAN, HBlank(taken)
  PROVE  /\ hdma' \in HdmaState
         /\ hdma'.src = (hdma.src + 1) % Blocks /\ hdma'.dst = (hdma.dst + 1) % Slots
         /\ hdma.len = 0 => ~hdma'.active /\ hdma'.len = Idling
         /\ hdma.len # 0 => hdma'.active /\ hdma'.len = hdma.len - 1
<1>t. hdma \in HdmaState /\ hdma.src \in Source /\ hdma.dst \in Slot /\ hdma.active
  BY DEF HInv, HdmaInv, TypeOK, HdmaState, HBlank
<1>s. hdma.src + 1 \in Int /\ hdma.dst + 1 \in Int  BY Sizes, <1>t DEF Source, Slot
<1> DEFINE x == (hdma.src + 1) % Blocks
           y == (hdma.dst + 1) % Slots
           h == [hdma EXCEPT !.src = x, !.dst = y]
<1>1. x \in Source /\ y \in Slot  BY Sizes, <1>s, ModInRange DEF Source, Slot
<1>2. hdma' = IF hdma.len = 0 THEN [h EXCEPT !.active = FALSE, !.len = Idling]
                              ELSE [h EXCEPT !.len = hdma.len - 1]
  BY <1>t DEF HBlank, Moved, HdmaState
<1>3. PICK l \in 0 .. Idling : hdma.len = l  BY <1>t DEF HdmaState
<1>4. l # 0 => l - 1 \in 0 .. Idling  BY Sizes
<1>5. Idling \in 0 .. Idling  BY Sizes
<1> SUFFICES /\ hdma' \in HdmaState /\ hdma'.src = x /\ hdma'.dst = y
             /\ hdma.len = 0 => ~hdma'.active /\ hdma'.len = Idling
             /\ hdma.len # 0 => hdma'.active /\ hdma'.len = hdma.len - 1
  OBVIOUS
<1> HIDE DEF x, y
<1>6. h \in HdmaState /\ h.src = x /\ h.dst = y /\ h.active /\ h.len = l
  BY <1>t, <1>1, <1>3 DEF HdmaState
<1> HIDE DEF h
<1>7. CASE l = 0
  <2>1. hdma' = [h EXCEPT !.active = FALSE, !.len = Idling]  BY <1>2, <1>3, <1>7
  <2> QED  BY <1>3, <1>5, <1>6, <1>7, <2>1 DEF HdmaState
<1>8. CASE l # 0
  <2>1. hdma' = [h EXCEPT !.len = l - 1]  BY <1>2, <1>3, <1>8
  <2> QED  BY <1>3, <1>4, <1>6, <1>8, <2>1 DEF HdmaState
<1> QED  BY <1>3, <1>7, <1>8

(* An HBlank: one block more, the last one ending the transfer.              *)
LEMMA HBlankKeepsHInv ==
  ASSUME HInv, NEW taken \in BOOLEAN, HBlank(taken)
  PROVE  HInv'
<1>a. TypeOK /\ hdma.active /\ Runs  BY DEF HInv, HdmaInv, ProgressFits, HBlank
<1>t. /\ hdma \in HdmaState /\ hdma.src \in Source /\ hdma.dst \in Slot
      /\ latch.bank \in Bank /\ job \in Job
  BY <1>a DEF TypeOK, HdmaState, Latches
<1>1. PICK c \in 0 .. Flag, p \in 0 .. Flag : job.count = c /\ job.done = p
  BY <1>t DEF Job
<1>2. PICK js \in 0 .. Blocks - 1 : job.src = js  BY <1>t DEF Job, Source
<1>3. PICK jd \in 0 .. Slots - 1 : job.dst = jd  BY <1>t DEF Job, Slot
<1>4. /\ hdma.src = (js + p) % Blocks /\ hdma.dst = (jd + p) % Slots
      /\ hdma.len = c - p - 1 /\ p < c
  BY <1>a, <1>1, <1>2, <1>3 DEF Runs
<1>5. /\ p \in Nat /\ c \in Nat /\ js + p \in Nat /\ jd + p \in Nat /\ p \in 0 .. Slots - 1
      /\ js + p + 1 = js + (p + 1) /\ jd + p + 1 = jd + (p + 1)
      /\ p + 1 \in 0 .. Flag
  BY <1>4, Sizes
<1>6. /\ hdma' \in HdmaState
      /\ hdma'.src = (js + (p + 1)) % Blocks /\ hdma'.dst = (jd + (p + 1)) % Slots
      /\ hdma.len = 0 => ~hdma'.active /\ hdma'.len = Idling
      /\ hdma.len # 0 => hdma'.active /\ hdma'.len = hdma.len - 1
  <2>1. (((js + p) % Blocks) + 1) % Blocks = (js + p + 1) % Blocks  BY Sizes, <1>5, ModNext
  <2>2. (((jd + p) % Slots) + 1) % Slots = (jd + p + 1) % Slots  BY Sizes, <1>5, ModNext
  <2> QED  BY <1>4, <1>5, <2>1, <2>2, HBlankEffect
<1>7. /\ job' \in Job /\ job'.done = p + 1 /\ job'.count = c
      /\ job'.src = js /\ job'.dst = jd /\ job'.bank = job.bank
  <2>1. job' = [job EXCEPT !.done = p + 1]  BY <1>1, <1>t DEF HBlank, Job
  <2> QED  BY <1>1, <1>2, <1>3, <1>5, <1>t, <2>1 DEF Job
<1>8. TypeOK'
  <2>1. 1 \in Nat  OBVIOUS
  <2>2. vram' \in [Bank -> [Slot -> Value]]
    BY <1>a, <1>t, <2>1, CopyEffect DEF HBlank
  <2> QED  BY <1>a, <1>6, <1>7, <2>2 DEF TypeOK, HBlank
<1>9. ProgressFits'
  <2>1. CASE hdma.len = 0
    <3>1. p + 1 = c  BY <1>4, <1>5, <2>1
    <3> QED  BY <1>6, <1>7, <2>1, <3>1 DEF ProgressFits, Rests
  <2>2. CASE hdma.len # 0
    <3>1. hdma.len - 1 = c - (p + 1) - 1 /\ p + 1 < c  BY <1>4, <1>5, <2>2
    <3> QED  BY <1>6, <1>7, <2>2, <3>1 DEF ProgressFits, Runs
  <2> QED  BY <2>1, <2>2
<1>10. BankKept'  BY <1>7 DEF HInv, BankKept, HBlank
<1>11. BlocksAreInPlace'
  <2> SUFFICES ASSUME ~touched', NEW k \in 0 .. p
               PROVE  vram'[job'.bank][(job'.dst + k) % Slots]
                        = mem'[(job'.src + k) % Blocks]
    BY <1>5, <1>7 DEF BlocksAreInPlace
  <2>1. ~touched /\ taken = FALSE /\ mem' = mem  BY DEF HBlank
  <2>2. latch.bank = job.bank  BY <2>1 DEF HInv, BankKept
  <2> DEFINE s == (jd + k) % Slots
  <2>3. /\ k \in 0 .. Slots - 1 /\ k \in Nat /\ jd + k \in Nat /\ js + k \in Nat
    <3>1. k \in Nat /\ k <= p /\ p <= Slots - 1 /\ js \in Nat /\ jd \in Nat  BY Sizes, <1>5
    <3> QED  BY Sizes, <3>1
  <2>4. s \in Slot  BY Sizes, <2>3, ModInRange DEF Slot
  <2>5. (s - jd) % Slots = k  BY Sizes, <2>3, SlotDistance
  <2>6. (hdma.dst - jd) % Slots = p  BY Sizes, <1>4, <1>5, SlotDistance
  <2> HIDE DEF s
  <2>7. (s - hdma.dst) % Slots < 1 <=> s = hdma.dst
    BY Sizes, <1>t, <2>4, FirstSlot DEF Slot
  <2>v. vram'[latch.bank][s] = IF (s - hdma.dst) % Slots < 1
                               THEN BusRead(hdma.src + ((s - hdma.dst) % Slots), taken)
                               ELSE vram[latch.bank][s]
    <3>1. vram' = Copied(hdma.src, hdma.dst, 1, taken) /\ 1 \in Nat  BY DEF HBlank
    <3> DEFINE v == Copied(hdma.src, hdma.dst, 1, taken)
    <3>2. v[latch.bank][s] = IF (s - hdma.dst) % Slots < 1
                             THEN BusRead(hdma.src + ((s - hdma.dst) % Slots), taken)
                             ELSE vram[latch.bank][s]
      BY <1>a, <1>t, <2>4, <3>1, CopyEffect
    <3> QED  BY <3>1, <3>2
  <2>8. CASE k = p
    <3>1. s = hdma.dst  BY <1>4, <2>8 DEF s
    <3>2. (s - hdma.dst) % Slots = 0
      <4>1. s - hdma.dst = 0  BY Sizes, <2>4, <3>1 DEF Slot
      <4>2. 0 % Slots = 0  BY Sizes, ModSmall
      <4> QED  BY <4>1, <4>2
    <3>3. vram'[latch.bank][s] = BusRead(hdma.src + 0, taken)
      BY <2>v, <3>2
    <3>4. (hdma.src + 0) % Blocks = hdma.src
      <4>1. PICK h \in 0 .. Blocks - 1 : hdma.src = h  BY <1>t DEF Source
      <4>2. h + 0 = h /\ h % Blocks = h  BY Sizes, ModSmall
      <4> QED  BY <4>1, <4>2
    <3> QED  BY <1>4, <1>7, <2>1, <2>2, <2>8, <3>3, <3>4 DEF BusRead, s
  <2>9. CASE k # p
    <3>1. k \in 0 .. p - 1  BY <1>5, <2>9
    <3>2. s # hdma.dst  BY <2>5, <2>6, <2>9
    <3>3. vram'[latch.bank][s] = vram[latch.bank][s]
      BY <2>v, <2>7, <3>2
    <3>4. vram[job.bank][(job.dst + k) % Slots] = mem[(job.src + k) % Blocks]
      BY <1>1, <2>1, <3>1 DEF HInv, BlocksAreInPlace
    <3> QED  BY <1>2, <1>3, <1>7, <2>1, <2>2, <3>3, <3>4 DEF s
  <2> QED  BY <2>8, <2>9
<1> QED  BY <1>8, <1>9, <1>10, <1>11 DEF HInv, HdmaInv

(* What the program does between the steps of a transfer. *)
LEMMA WritesKeepHInv ==
  HInv /\ (WriteLatches \/ WriteBank \/ WriteMem \/ WriteVram) => HInv'
<1> SUFFICES ASSUME HInv PROVE (WriteLatches \/ WriteBank \/ WriteMem \/ WriteVram) => HInv'
  OBVIOUS
<1>t. /\ latch \in Latches /\ mem \in [Source -> Value] /\ vram \in [Bank -> [Slot -> Value]]
      /\ latch.bank \in {0, 1}
  BY DEF HInv, HdmaInv, TypeOK, Latches, Bank
<1>1. ASSUME WriteLatches PROVE HInv'
  <2>1. PICK s \in Source, d \in Slot : latch' = [latch EXCEPT !.src = s, !.dst = d]
    BY <1>1 DEF WriteLatches
  <2>2. latch' \in Latches /\ latch'.bank = latch.bank  BY <1>t, <2>1 DEF Latches
  <2>3. UNCHANGED <<hdma, mem, vram, job, touched>>  BY <1>1 DEF WriteLatches
  <2>4. HdmaInv'  BY <2>2, <2>3 DEF HInv, HdmaInv, TypeOK, ProgressFits, Runs, Rests
  <2>5. BankKept' /\ BlocksAreInPlace'
    BY <2>2, <2>3 DEF HInv, BankKept, BlocksAreInPlace
  <2> QED  BY <2>4, <2>5 DEF HInv
<1>2. ASSUME WriteBank PROVE HInv'
  <2>1. latch' \in Latches
    <3>1. 1 - latch.bank \in Bank  BY <1>t DEF Bank
    <3> QED  BY <1>2, <1>t, <3>1 DEF WriteBank, Latches
  <2>2. touched' /\ UNCHANGED <<hdma, mem, vram, job>>  BY <1>2 DEF WriteBank
  <2>3. HdmaInv'  BY <2>1, <2>2, <1>2 DEF HInv, HdmaInv, TypeOK, ProgressFits, Runs, Rests, WriteBank
  <2> QED
    BY <2>2, <2>3 DEF HInv, BankKept, BlocksAreInPlace
<1>3. ASSUME WriteMem PROVE HInv'
  <2>1. PICK b \in Source, x \in Value : mem' = [mem EXCEPT ![b] = x]  BY <1>3 DEF WriteMem
  <2>2. mem' \in [Source -> Value]  BY <1>t, <2>1
  <2>3. touched' /\ touched' \in BOOLEAN /\ UNCHANGED <<hdma, latch, vram, job>>
    BY <1>3 DEF WriteMem
  <2>4. HdmaInv'  BY <2>2, <2>3 DEF HInv, HdmaInv, TypeOK, ProgressFits, Runs, Rests
  <2> QED
    BY <2>3, <2>4 DEF HInv, BankKept, BlocksAreInPlace
<1>4. ASSUME WriteVram PROVE HInv'
  <2>1. PICK s \in Slot, x \in Value : vram' = [vram EXCEPT ![latch.bank][s] = x]
    BY <1>4 DEF WriteVram
  <2>2. vram' \in [Bank -> [Slot -> Value]]
    <3>1. latch.bank \in Bank  BY <1>t DEF Bank
    <3>2. [vram[latch.bank] EXCEPT ![s] = x] \in [Slot -> Value]  BY <1>t, <3>1
    <3> QED  BY <1>t, <2>1, <3>1, <3>2
  <2>3. touched' /\ touched' \in BOOLEAN /\ UNCHANGED <<hdma, latch, mem, job>>
    BY <1>4 DEF WriteVram
  <2>4. HdmaInv'  BY <2>2, <2>3 DEF HInv, HdmaInv, TypeOK, ProgressFits, Runs, Rests
  <2> QED
    BY <2>3, <2>4 DEF HInv, BankKept, BlocksAreInPlace
<1> QED  BY <1>1, <1>2, <1>3, <1>4

(* Every step keeps the invariant: a write of FF55, an HBlank, other writes. *)
THEOREM StepKeepsHInv == HInv /\ [Next]_vars => HInv'
<1> SUFFICES ASSUME HInv, [Next]_vars PROVE HInv'  OBVIOUS
<1>1. CASE Stop  BY <1>1, StopKeepsHInv
<1>2. CASE \E n \in Count, taken \in BOOLEAN : General(n, taken)  BY <1>2, GeneralKeepsHInv
<1>3. CASE \E n \in Count : Begin(n)  BY <1>3, BeginKeepsHInv
<1>4. CASE \E taken \in BOOLEAN : HBlank(taken)  BY <1>4, HBlankKeepsHInv
<1>5. CASE WriteLatches \/ WriteBank \/ WriteMem \/ WriteVram  BY <1>5, WritesKeepHInv
<1>6. CASE UNCHANGED vars
  BY <1>6 DEF vars, HInv, HdmaInv, TypeOK, ProgressFits, Runs, Rests, BankKept,
              BlocksAreInPlace
<1> QED  BY <1>1, <1>2, <1>3, <1>4, <1>5, <1>6 DEF Next, Ff55
-----------------------------------------------------------------------------
(* The progress of an HBlank transfer fits the write of FF55 that started    *)
(* it, through stops, restarts and new latch values, for requests of up to   *)
(* all the blocks that bits 0-6 of FF55 can count.                           *)
THEOREM TransfersFitTheirRequests == Spec => []HdmaInv
<1>1. HInv => HdmaInv  BY DEF HInv
<1> QED  BY <1>1, InitHolds, StepKeepsHInv, PTL DEF Spec

(* Running, stopped or finished, the blocks counted as copied are in VRAM,   *)
(* also where source and destination wrap.                                   *)
THEOREM TransfersCopy == Spec => []BlocksAreInPlace
<1>1. HInv => BlocksAreInPlace  BY DEF HInv
<1> QED  BY <1>1, InitHolds, StepKeepsHInv, PTL DEF Spec

(* A transfer writes the slots it was asked to fill and no other, and        *)
(* nothing else that moves the unit writes VRAM at all.                      *)
THEOREM TransfersStayInTheirSlots == Spec => OnlyRequestedSlots
<1> DEFINE Kept == \A b \in Bank, s \in Slot : vram'[b][s] # vram[b][s] =>
                      b = latch.bank /\ (s - job'.dst) % Slots < job'.count
<1>1. HInv /\ [Next]_vars => UNCHANGED hdma \/ Kept
  <2> SUFFICES ASSUME HInv, [Next]_vars PROVE UNCHANGED hdma \/ Kept  OBVIOUS
  <2>t. TypeOK /\ latch.src \in Source /\ latch.dst \in Slot
    BY DEF HInv, HdmaInv, TypeOK, Latches
  <2>1. CASE Stop \/ \E n \in Count : Begin(n)
    <3>1. vram' = vram  BY <2>1 DEF Stop, Begin
    <3> QED  BY <3>1
  <2>2. ASSUME NEW n \in Count, NEW taken \in BOOLEAN, General(n, taken) PROVE Kept
    <3>1. n \in Nat  BY Sizes DEF Count
    <3>2. job'.dst = latch.dst /\ job'.count = n  BY <2>2 DEF General, Requested
    <3>3. vram' = Copied(latch.src, latch.dst, n, taken)  BY <2>2 DEF General
    <3> QED  BY <2>t, <3>1, <3>2, <3>3, CopyEffect
  <2>3. ASSUME NEW taken \in BOOLEAN, HBlank(taken) PROVE Kept
    <3> SUFFICES ASSUME NEW b \in Bank, NEW s \in Slot, vram'[b][s] # vram[b][s]
                 PROVE  b = latch.bank /\ (s - job'.dst) % Slots < job'.count
      OBVIOUS
    <3>1. Runs  BY <2>3 DEF HInv, HdmaInv, ProgressFits, HBlank
    <3>2. hdma.src \in Source /\ hdma.dst \in Slot  BY <2>t DEF TypeOK, HdmaState
    <3>3. vram' = Copied(hdma.src, hdma.dst, 1, taken) /\ 1 \in Nat
      BY <2>3 DEF HBlank
    <3>j. job'.dst = job.dst /\ job'.count = job.count
      BY <2>3, <2>t DEF HBlank, TypeOK, Job
    <3> DEFINE v == Copied(hdma.src, hdma.dst, 1, taken)
    <3>4. /\ b # latch.bank => v[b] = vram[b]
          /\ v[latch.bank][s] = IF (s - hdma.dst) % Slots < 1
                                THEN BusRead(hdma.src + ((s - hdma.dst) % Slots), taken)
                                ELSE vram[latch.bank][s]
      BY <2>t, <3>2, <3>3, CopyEffect
    <3>5. b = latch.bank /\ (s - hdma.dst) % Slots < 1  BY <3>3, <3>4
    <3>6. s = hdma.dst  BY Sizes, <3>2, <3>5, FirstSlot DEF Slot
    <3>7. PICK c \in 0 .. Flag, p \in 0 .. Flag : job.count = c /\ job.done = p
      BY <2>t DEF TypeOK, Job
    <3>8. p < c  BY <3>1, <3>7 DEF Runs
    <3>9. PICK d \in 0 .. Slots - 1 : job.dst = d  BY <2>t DEF TypeOK, Job, Slot
    <3>10. p \in 0 .. Slots - 1 /\ p < c  BY <3>7, <3>8, Sizes
    <3>11. (s - d) % Slots = p
      <4>1. s = (d + p) % Slots  BY <3>1, <3>6, <3>7, <3>9 DEF Runs
      <4>2. (((d + p) % Slots) - d) % Slots = p  BY Sizes, <3>10, SlotDistance
      <4> QED  BY <4>1, <4>2
    <3> QED  BY <3>j, <3>5, <3>7, <3>9, <3>10, <3>11
  <2>4. CASE WriteLatches \/ WriteBank \/ WriteMem \/ WriteVram \/ UNCHANGED vars
    BY <2>4 DEF WriteLatches, WriteBank, WriteMem, WriteVram, vars
  <2> QED  BY <2>1, <2>2, <2>3, <2>4 DEF Next, Ff55
<1>2. HInv /\ [Next]_vars => [UNCHANGED hdma \/ Kept]_vars  BY <1>1
<1> QED  BY <1>2, InitHolds, StepKeepsHInv, PTL DEF Spec, OnlyRequestedSlots
=============================================================================
