----------------------------- MODULE CpuProofs -----------------------------
(***************************************************************************)
(* Proofs about the two modules of src/cpu.c: Cpu, for any number of       *)
(* interrupts, any hardware and any vectors that CpuAssumption allows; and *)
(* what the arithmetic of Alu computes, for every operand and every flag.  *)
(***************************************************************************)
EXTENDS Cpu, Alu, WellFoundedInduction, TLAPS

\* Every nonempty set of interrupts has one of highest priority.
LEMMA Smallest ==
  ASSUME NEW S \in SUBSET Bits, S # {}
  PROVE  \E b \in S : \A c \in S : b <= c
  <1> DEFINE R == OpToRel(<, Nat)
  <1>1. IsWellFoundedOn(R, Nat)
    BY NatLessThanWellFounded
  <1>2. S \subseteq Nat
    BY CpuAssumption DEF Bits
  <1>3. PICK b \in S : \A c \in S : ~(<<c, b>> \in R)
    <2> HIDE DEF R
    <2> QED BY <1>1, <1>2, WFMin
  <1>4. \A c \in S : <<c, b>> \in R <=> c < b
    BY <1>2 DEF OpToRel
  <1>5. \A c \in S : ~(c < b)
    <2> HIDE DEF R
    <2> QED BY <1>3, <1>4
  <1> QED BY <1>2, <1>5

\* service_interrupt's scan finds the pending interrupt of highest priority.
LEMMA LowestBitFound ==
  ASSUME NEW S \in SUBSET Bits, S # {}
  PROVE  /\ LowestBit(S) \in S
         /\ \A c \in S : LowestBit(S) <= c
  <1>1. \E b \in S \cup {NBits} : \A c \in S : b <= c
    BY Smallest
  <1>2. /\ LowestBit(S) \in S \cup {NBits}
        /\ \A c \in S : LowestBit(S) <= c
    <2> DEFINE P(b) == \A c \in S : b <= c
    <2>1. LowestBit(S) = CHOOSE b \in S \cup {NBits} : P(b)
      BY DEF LowestBit
    <2> QED BY <1>1, <2>1
  <1>3. PICK s \in S : TRUE
    OBVIOUS
  <1>4. s < NBits /\ s \in Nat /\ NBits \in Nat
    BY <1>3, CpuAssumption DEF Bits
  <1> QED BY <1>2, <1>3, <1>4

\* Every handler has an address.
LEMMA VectorInRange ==
  ASSUME NEW b \in Bits
  PROVE  VectorBase + VectorStep * b \in Addr
  <1>1. /\ NBits \in Nat /\ VectorBase \in Nat /\ VectorStep \in Nat
        /\ PcSize \in Nat /\ b \in Nat /\ b <= NBits
        /\ VectorBase + VectorStep * NBits < PcSize
    BY CpuAssumption DEF Bits
  <1>2. /\ VectorStep * b \in Nat /\ VectorStep * NBits \in Nat
        /\ VectorStep * b <= VectorStep * NBits
    BY <1>1
  <1> QED BY <1>1, <1>2 DEF Addr

\* The reset state.
LEMMA InitOk == Init => CpuInv
  <1> SUFFICES ASSUME Init PROVE CpuInv
    OBVIOUS
  <1>1. 0 \in Addr /\ 0 \in Bits /\ 0 \in 0 .. MaxExtra /\ 0 \in 0 .. NBits
    BY CpuAssumption DEF Addr, Bits
  <1>2. TypeOK
    BY <1>1 DEF Init, TypeOK, CpuState, Phases, Ops
  <1>3. ServiceHasCause /\ PickedIsReal /\ DispatchIsExclusive
        /\ QuirksExclude /\ NothingLeftOver
    BY DEF Init, ServiceHasCause, PickedIsReal, DispatchIsExclusive,
           QuirksExclude, NothingLeftOver
  <1> QED BY <1>2, <1>3 DEF CpuInv

\* The invariant of the control state of a cpu that is not in a dispatch.
Between(c) ==
  /\ c \in CpuState /\ c.phase = "step" /\ c.left = 0 /\ ~c.eiWas
  /\ ~(c.halted /\ c.haltBug) /\ ~(c.locked /\ c.halted)

\* A step that leaves the cpu between two instructions keeps the invariant.
LEMMA BetweenInv ==
  ASSUME Between(cpu'), ie' \subseteq Bits, ifr' \subseteq Bits,
         raised' \subseteq Hardware, acked' \subseteq Bits
  PROVE  CpuInv'
  BY DEF Between, CpuInv, TypeOK, ServiceHasCause, PickedIsReal, DispatchIsExclusive,
         QuirksExclude, NothingLeftOver

\* The fetch leaves a well-formed cpu that is neither asleep nor in the HALT bug.
LEMMA FetchedOk ==
  ASSUME CpuInv, cpu.phase = "step", ~cpu.locked, NEW op \in Ops
  PROVE  /\ Fetched(op) \in CpuState
         /\ Fetched(op).phase = "step" /\ Fetched(op).left = 0
         /\ ~Fetched(op).halted /\ ~Fetched(op).haltBug /\ ~Fetched(op).locked
         /\ Fetched(op).op = op
  <1>1. cpu \in CpuState /\ cpu.left = 0
    BY DEF CpuInv, TypeOK, NothingLeftOver
  <1>2. cpu.pc \in Addr /\ (cpu.pc + 1) % PcSize \in Addr
    <2>1. cpu.pc \in Nat /\ PcSize \in Nat /\ PcSize > 0 /\ cpu.pc \in Addr
      BY <1>1, CpuAssumption DEF CpuState, Addr
    <2> QED BY <2>1 DEF Addr
  <1> DEFINE p == IF cpu.haltBug THEN cpu.pc ELSE (cpu.pc + 1) % PcSize
  <1>3. p \in Addr
    BY <1>2
  <1>4. Fetched(op) = [cpu EXCEPT !.op = op, !.halted = FALSE, !.haltBug = FALSE,
                                  !.pc = p, !.eiWas = cpu.imePending]
    BY <1>1 DEF Fetched, CpuState
  <1> HIDE DEF p
  <1>5. cpu.imePending \in BOOLEAN
    BY <1>1 DEF CpuState
  <1>6. Fetched(op) \in CpuState
    BY <1>1, <1>3, <1>4, <1>5 DEF CpuState
  <1>7. /\ Fetched(op).phase = "step" /\ Fetched(op).left = 0
        /\ ~Fetched(op).halted /\ ~Fetched(op).haltBug
    BY <1>1, <1>4 DEF CpuState
  <1>8. ~Fetched(op).locked /\ Fetched(op).op = op
    BY <1>1, <1>4 DEF CpuState
  <1> QED BY <1>6, <1>7, <1>8

\* What cpu_step makes of the cpu an instruction leaves.
LEMMA RetiredOk ==
  ASSUME NEW c \in CpuState, c.left = 0,
         ~(c.halted /\ c.haltBug), ~(c.locked /\ c.halted)
  PROVE  Between(Retired(c))
  BY DEF Retired, Between, CpuState, Phases

\* The M-cycle of the hardware raises interrupts r.
LEMMA Raises ==
  ASSUME CpuInv, NEW r \in SUBSET Hardware
  PROVE  /\ ie \subseteq Bits /\ ifr \subseteq Bits /\ ifr \cup r \subseteq Bits
         /\ BusWrite(r) => ie' \subseteq Bits /\ ifr' \subseteq Bits
  BY CpuAssumption DEF CpuInv, TypeOK, Bits, BusWrite

\* Instructions of one M-cycle.
LEMMA InstructionKeeps ==
  ASSUME CpuInv, NEW r \in SUBSET Hardware, raised' = r, acked' \subseteq Bits, NEW c \in CpuState,
         c.left = 0, ~(c.halted /\ c.haltBug), ~(c.locked /\ c.halted),
         Instruction(r, c)
  PROVE  CpuInv'
  <1>1. cpu' = Retired(c) /\ ifr' = ifr \cup r /\ ie' = ie
    BY DEF Instruction
  <1>2. Between(cpu')
    BY <1>1, RetiredOk
  <1>3. ie' \subseteq Bits /\ ifr' \subseteq Bits
    BY <1>1, Raises
  <1> QED BY <1>2, <1>3, BetweenInv

(* An instruction of one M-cycle, whatever the hardware raises in it.        *)
LEMMA OneCycleKeeps ==
  ASSUME CpuInv, NEW r \in SUBSET Hardware, raised' = r, acked' \subseteq Bits,
         Short(r) \/ JpHl(r) \/ EI(r) \/ DI(r) \/ HALT(r) \/ Undefined(r)
  PROVE  CpuInv'
  <1>1. cpu.phase = "step" /\ ~cpu.locked
    BY DEF Short, JpHl, EI, DI, HALT, Undefined, Instruction, Executes, Awake
  <1>2. CASE Short(r)
    <2>1. "Short" \in Ops
      BY DEF Ops
    <2> QED BY <1>1, <1>2, <2>1, FetchedOk, InstructionKeeps DEF Short
  <1>7. CASE JpHl(r)
    <2> DEFINE f == Fetched("JpHl")
    <2>1. "JpHl" \in Ops
      BY DEF Ops
    <2>2. f \in CpuState /\ f.left = 0 /\ ~f.halted /\ ~f.haltBug
      BY <1>1, <2>1, FetchedOk
    <2>3. PICK a \in Addr : Instruction(r, [f EXCEPT !.pc = a])
      BY <1>7 DEF JpHl
    <2> DEFINE c == [f EXCEPT !.pc = a]
    <2> HIDE DEF f
    <2>4. c \in CpuState /\ c.left = 0 /\ ~c.halted
      BY <2>2 DEF CpuState
    <2>5. Instruction(r, c)
      BY <2>3
    <2> HIDE DEF c
    <2> QED BY <2>4, <2>5, InstructionKeeps
  <1>3. CASE EI(r)
    <2> DEFINE f == Fetched("EI")
               c == [f EXCEPT !.imePending = TRUE]
    <2>1. "EI" \in Ops
      BY DEF Ops
    <2>2. f \in CpuState /\ f.left = 0 /\ ~f.halted /\ ~f.haltBug
      BY <1>1, <2>1, FetchedOk
    <2>3. Instruction(r, c)
      BY <1>3 DEF EI
    <2> HIDE DEF f
    <2>4. c \in CpuState /\ c.left = 0 /\ ~c.halted
      BY <2>2 DEF CpuState
    <2> HIDE DEF c
    <2> QED BY <2>3, <2>4, InstructionKeeps
  <1>4. CASE DI(r)
    <2> DEFINE f == Fetched("DI")
               c == [f EXCEPT !.ime = FALSE, !.imePending = FALSE]
    <2>1. "DI" \in Ops
      BY DEF Ops
    <2>2. f \in CpuState /\ f.left = 0 /\ ~f.halted /\ ~f.haltBug
      BY <1>1, <2>1, FetchedOk
    <2>3. Instruction(r, c)
      BY <1>4 DEF DI
    <2> HIDE DEF f
    <2>4. c \in CpuState /\ c.left = 0 /\ ~c.halted
      BY <2>2 DEF CpuState
    <2> HIDE DEF c
    <2> QED BY <2>3, <2>4, InstructionKeeps
  <1>5. CASE HALT(r)
    <2> DEFINE f == Fetched("HALT")
               awake == [f EXCEPT !.haltBug = TRUE]
               asleep == [f EXCEPT !.halted = TRUE]
    <2>1. "HALT" \in Ops
      BY DEF Ops
    <2>2. f \in CpuState /\ f.left = 0 /\ ~f.halted /\ ~f.haltBug /\ ~f.locked
      BY <1>1, <2>1, FetchedOk
    <2>3. Instruction(r, awake) \/ Instruction(r, asleep)
      BY <1>5 DEF HALT
    <2> HIDE DEF f
    <2>4. awake \in CpuState /\ awake.left = 0 /\ ~awake.halted
      BY <2>2 DEF CpuState
    <2>5. /\ asleep \in CpuState /\ asleep.left = 0
          /\ ~asleep.haltBug /\ ~asleep.locked
      BY <2>2 DEF CpuState
    <2> HIDE DEF awake, asleep
    <2> QED BY <2>3, <2>4, <2>5, InstructionKeeps
  <1>6. CASE Undefined(r)
    <2> DEFINE f == Fetched("Undefined")
               c == [f EXCEPT !.locked = TRUE]
    <2>1. "Undefined" \in Ops
      BY DEF Ops
    <2>2. f \in CpuState /\ f.left = 0 /\ ~f.halted /\ ~f.haltBug
      BY <1>1, <2>1, FetchedOk
    <2>3. Instruction(r, c)
      BY <1>6 DEF Undefined
    <2> HIDE DEF f
    <2>4. c \in CpuState /\ c.left = 0 /\ ~c.halted
      BY <2>2 DEF CpuState
    <2> HIDE DEF c
    <2> QED BY <2>3, <2>4, InstructionKeeps
  <1> QED BY <1>2, <1>3, <1>4, <1>5, <1>6, <1>7

\* A step that leaves the cpu inside an instruction keeps the invariant.
LEMMA InsideInv ==
  ASSUME cpu' \in CpuState, cpu'.phase = "exec", ~cpu'.halted, ~cpu'.locked,
         ie' \subseteq Bits, ifr' \subseteq Bits, raised' \subseteq Hardware, acked' \subseteq Bits
  PROVE  CpuInv'
  BY DEF CpuInv, TypeOK, ServiceHasCause, PickedIsReal, DispatchIsExclusive,
         QuirksExclude, NothingLeftOver

\* The fetch of an instruction of several M-cycles.
LEMMA LongKeeps ==
  ASSUME CpuInv, NEW r \in SUBSET Hardware, raised' = r, acked' \subseteq Bits, Long(r) \/ RETI(r)
  PROVE  CpuInv'
  <1>1. cpu.phase = "step" /\ ~cpu.locked
    BY DEF Long, RETI, Executes, Awake
  <1>2. PICK op \in {"Long", "RETI"}, n \in 1 .. MaxExtra :
          cpu' = [Fetched(op) EXCEPT !.phase = "exec", !.left = n]
    <2>1. CASE Long(r)
      <3>1. PICK n \in 1 .. MaxExtra :
              cpu' = [Fetched("Long") EXCEPT !.phase = "exec", !.left = n]
        BY <2>1 DEF Long
      <3> QED BY <3>1
    <2>2. CASE RETI(r)
      <3>1. cpu' = [Fetched("RETI") EXCEPT !.phase = "exec", !.left = 3]
        BY <2>2 DEF RETI
      <3>2. 3 \in 1 .. MaxExtra
        BY CpuAssumption
      <3> QED BY <3>1, <3>2
    <2> QED BY <2>1, <2>2
  <1>3. ie' \subseteq Bits /\ ifr' \subseteq Bits
    BY Raises DEF Long, RETI
  <1> DEFINE f == Fetched(op)
  <1>4. f \in CpuState /\ ~f.halted /\ ~f.locked
    BY <1>1, FetchedOk DEF Ops
  <1>5. n \in 0 .. MaxExtra /\ "exec" \in Phases
    BY CpuAssumption DEF Phases
  <1>6. cpu' = [f EXCEPT !.phase = "exec", !.left = n]
    BY <1>2
  <1> HIDE DEF f
  <1>7. cpu' \in CpuState /\ cpu'.phase = "exec" /\ ~cpu'.halted /\ ~cpu'.locked
    BY <1>4, <1>5, <1>6 DEF CpuState
  <1> QED BY <1>3, <1>7, InsideInv

\* The further M-cycles of an instruction.
LEMMA ExecKeeps ==
  ASSUME CpuInv, NEW r \in SUBSET Hardware, raised' = r, acked' \subseteq Bits, Exec(r)
  PROVE  CpuInv'
  <1>1. cpu.phase = "exec" /\ ~cpu.halted /\ ~cpu.locked /\ cpu \in CpuState
    BY DEF Exec, CpuInv, TypeOK, QuirksExclude
  <1>2. ie' \subseteq Bits /\ ifr' \subseteq Bits
    BY Raises DEF Exec
  <1>3. CASE cpu.left > 1
    <2>1. cpu.left - 1 \in 0 .. MaxExtra
      BY <1>1, <1>3, CpuAssumption DEF CpuState
    <2>2. cpu' = [cpu EXCEPT !.left = cpu.left - 1]
      BY <1>3 DEF Exec
    <2>3. cpu' \in CpuState /\ cpu'.phase = "exec" /\ ~cpu'.halted /\ ~cpu'.locked
      BY <1>1, <2>1, <2>2 DEF CpuState
    <2> QED BY <1>2, <2>3, InsideInv
  <1>4. CASE ~(cpu.left > 1)
    <2>1. PICK a \in Addr :
            cpu' = Retired([cpu EXCEPT !.left = 0, !.pc = a,
                                       !.ime = @ \/ cpu.op = "RETI"])
      BY <1>4 DEF Exec
    <2> DEFINE i == cpu.ime \/ cpu.op = "RETI"
               c == [cpu EXCEPT !.left = 0, !.pc = a, !.ime = i]
    <2>2. i \in BOOLEAN
      BY Zenon DEF CpuState
    <2>3. cpu' = Retired(c)
      BY <1>1, <2>1 DEF CpuState
    <2> HIDE DEF i
    <2>4. 0 \in 0 .. MaxExtra
      BY CpuAssumption
    <2>5. c \in CpuState /\ c.left = 0 /\ ~c.halted
      BY <1>1, <2>1, <2>2, <2>4 DEF CpuState
    <2> HIDE DEF c
    <2>6. Between(cpu')
      BY <2>3, <2>5, RetiredOk
    <2> QED BY <1>2, <2>6, BetweenInv
  <1> QED BY <1>3, <1>4

\* The two kinds of M-cycle in which the cpu stands still.
LEMMA IdleKeeps ==
  ASSUME CpuInv, NEW r \in SUBSET Hardware, raised' = r, acked' \subseteq Bits, Hung(r) \/ Asleep(r)
  PROVE  CpuInv'
  <1>1. cpu' = cpu /\ cpu.phase = "step" /\ ie' = ie /\ ifr' = ifr \cup r
    BY DEF Hung, Asleep, Tick
  <1>2. Between(cpu)
    BY <1>1 DEF Between, CpuInv, TypeOK, QuirksExclude, NothingLeftOver
  <1>3. ie' \subseteq Bits /\ ifr' \subseteq Bits
    BY <1>1, Raises
  <1> QED BY <1>1, <1>2, <1>3, BetweenInv

\* The dispatch: what it picked is pending when it picks it, is what it takes out of
\* IF and stays an interrupt; IME goes off before anything else happens.
LEMMA DispatchKeeps ==
  ASSUME CpuInv, NEW r \in SUBSET Hardware, raised' = r, acked' \subseteq Bits, Dispatch(r),
         Acknowledges
  PROVE  CpuInv'
  <1>1. cpu \in CpuState /\ ie \subseteq Bits /\ ifr \subseteq Bits
    BY DEF CpuInv, TypeOK
  <1>3. CASE StartService(r)
    <2>1. /\ cpu.phase = "step" /\ ~cpu.locked /\ Pending(ifr) # {}
          /\ cpu' = [cpu EXCEPT !.halted = FALSE, !.op = "none", !.phase = "service"]
          /\ ifr' = ifr \cup r /\ ie' = ie
      BY <1>3 DEF StartService, Awake, Dispatches
    <2>2. /\ cpu' \in CpuState /\ cpu'.phase = "service"
          /\ ~cpu'.halted /\ ~cpu'.locked
          /\ cpu'.left = cpu.left /\ cpu'.eiWas = cpu.eiWas
      BY <1>1, <2>1 DEF CpuState, Phases, Ops
    <2>3. ie' \subseteq Bits /\ ifr' \subseteq Bits
      BY <2>1, Raises
    <2>4. Pending(ifr)' # {}
      BY <2>1 DEF Pending
    <2> QED BY <2>1, <2>2, <2>3, <2>4
         DEF CpuInv, TypeOK, ServiceHasCause, PickedIsReal, DispatchIsExclusive,
             QuirksExclude, NothingLeftOver
  <1>4. CASE Service(r)
    <2> DEFINE b == LowestBit(Pending(ifr \cup r))
    <2>1. /\ cpu.phase = "service"
          /\ cpu' = [cpu EXCEPT !.ime = FALSE, !.bit = b, !.phase = "push1"]
          /\ ifr' = (ifr \cup r) \ {b} /\ ie' = ie
      BY <1>4 DEF Service
    <2>2. b \in Bits
      <3>1. Pending(ifr \cup r) # {} /\ Pending(ifr \cup r) \subseteq Bits
        BY <1>1, <2>1 DEF CpuInv, ServiceHasCause, Pending
      <3> QED BY <3>1, LowestBitFound
    <2>6. b \in Pending(ifr \cup r)
      <3>1. Pending(ifr \cup r) # {} /\ Pending(ifr \cup r) \subseteq Bits
        BY <1>1, <2>1 DEF CpuInv, ServiceHasCause, Pending
      <3> QED BY <3>1, LowestBitFound
    <2> HIDE DEF b
    <2>7. acked' = {b}
      BY <2>1, <2>6 DEF Acknowledges, Pending
    <2>3. b \in 0 .. NBits
      BY <2>2, CpuAssumption DEF Bits
    <2>4. ie' \subseteq Bits /\ ifr' \subseteq Bits
      BY <2>1, Raises
    <2>5. /\ cpu' \in CpuState /\ cpu'.phase = "push1" /\ ~cpu'.ime /\ cpu'.bit = b
          /\ cpu'.halted = cpu.halted /\ cpu'.locked = cpu.locked
          /\ cpu'.left = cpu.left /\ cpu'.eiWas = cpu.eiWas
      BY <1>1, <2>1, <2>3 DEF CpuState, Phases
    <2> QED BY <2>1, <2>2, <2>4, <2>5, <2>7
         DEF CpuInv, TypeOK, ServiceHasCause, PickedIsReal, DispatchIsExclusive,
             QuirksExclude, NothingLeftOver
  <1>5. CASE Push1(r)
    <2>1. cpu.phase = "push1" /\ cpu' = [cpu EXCEPT !.phase = "push2"]
      BY <1>5 DEF Push1
    <2>2. ie' \subseteq Bits /\ ifr' \subseteq Bits
      BY <1>5, Raises DEF Push1
    <2>3. /\ cpu' \in CpuState /\ cpu'.phase = "push2"
          /\ cpu'.ime = cpu.ime /\ cpu'.bit = cpu.bit
          /\ cpu'.halted = cpu.halted /\ cpu'.locked = cpu.locked
          /\ cpu'.left = cpu.left /\ cpu'.eiWas = cpu.eiWas
      BY <1>1, <2>1 DEF CpuState, Phases
    <2>4. acked' = acked
      BY <2>1 DEF Acknowledges
    <2> QED BY <2>1, <2>2, <2>3, <2>4
         DEF CpuInv, TypeOK, ServiceHasCause, PickedIsReal, DispatchIsExclusive,
             QuirksExclude, NothingLeftOver
  <1>6. CASE Push2(r)
    <2> DEFINE a == VectorBase + VectorStep * cpu.bit
    <2>1. cpu.phase = "push2" /\ cpu' = [cpu EXCEPT !.phase = "vector", !.pc = a]
      BY <1>6 DEF Push2
    <2>2. ie' \subseteq Bits /\ ifr' \subseteq Bits
      BY <1>6, Raises DEF Push2
    <2>3. cpu.bit \in Bits
      BY <2>1 DEF CpuInv, PickedIsReal
    <2>4. a \in Addr
      BY <2>3, VectorInRange
    <2>5. a = VectorBase + VectorStep * cpu.bit
      OBVIOUS
    <2> HIDE DEF a
    <2>6. /\ cpu' \in CpuState /\ cpu'.phase = "vector" /\ cpu'.pc = a
          /\ cpu'.ime = cpu.ime /\ cpu'.bit = cpu.bit
          /\ cpu'.halted = cpu.halted /\ cpu'.locked = cpu.locked
          /\ cpu'.left = cpu.left /\ cpu'.eiWas = cpu.eiWas
      BY <1>1, <2>1, <2>4 DEF CpuState, Phases
    <2>8. acked' = acked /\ acked = {cpu.bit}
      BY <2>1 DEF Acknowledges, CpuInv, PickedIsReal
    <2>7. PickedIsReal'
      BY <2>3, <2>5, <2>6, <2>8 DEF PickedIsReal
    <2> QED BY <2>1, <2>2, <2>6, <2>7
         DEF CpuInv, TypeOK, ServiceHasCause, DispatchIsExclusive,
             QuirksExclude, NothingLeftOver
  <1>7. CASE Vector(r)
    <2>1. /\ cpu.phase = "vector" /\ cpu' = [cpu EXCEPT !.phase = "step"]
          /\ ifr' = ifr \cup r /\ ie' = ie
      BY <1>7 DEF Vector
    <2>2. Between(cpu')
      BY <1>1, <2>1 DEF Between, CpuState, Phases, CpuInv, DispatchIsExclusive
    <2>3. ie' \subseteq Bits /\ ifr' \subseteq Bits
      BY <2>1, Raises
    <2> QED BY <2>2, <2>3, BetweenInv
  <1> QED BY <1>3, <1>4, <1>5, <1>6, <1>7 DEF Dispatch
-----------------------------------------------------------------------------
\* Every M-cycle keeps the invariant, and so does a step that changes nothing.
LEMMA StepKeeps == CpuInv /\ [Next]_vars => CpuInv'
  <1> SUFFICES ASSUME CpuInv, [Next]_vars PROVE CpuInv'
    OBVIOUS
  <1>1. CASE Next
    <2>1. PICK r \in SUBSET Hardware : MCycle(r) /\ raised' = r /\ Acknowledges
      BY <1>1 DEF Next
    <2>5. acked' \subseteq Bits
      BY <2>1, Raises DEF Acknowledges, CpuInv, TypeOK
    <2>2. CASE Hung(r) \/ Asleep(r)
      BY <2>1, <2>2, <2>5, IdleKeeps
    <2>3. CASE Dispatch(r)
      BY <2>1, <2>3, <2>5, DispatchKeeps
    <2>4. CASE Program(r)
      <3>1. CASE Exec(r)
        BY <2>1, <2>5, <3>1, ExecKeeps
      <3>2. CASE Long(r) \/ RETI(r)
        BY <2>1, <2>5, <3>2, LongKeeps
      <3>3. CASE Short(r) \/ JpHl(r) \/ EI(r) \/ DI(r) \/ HALT(r) \/ Undefined(r)
        BY <2>1, <2>5, <3>3, OneCycleKeeps
      <3> QED BY <2>4, <3>1, <3>2, <3>3 DEF Program
    <2> QED BY <2>1, <2>2, <2>3, <2>4 DEF MCycle
  <1>2. CASE UNCHANGED vars
    BY <1>2 DEF vars, CpuInv, TypeOK, ServiceHasCause, PickedIsReal, Pending,
            DispatchIsExclusive, QuirksExclude, NothingLeftOver
  <1> QED BY <1>1, <1>2

\* src/cpu.c between any two M-cycles: the control state is well formed, a
\* dispatch runs alone and no quirk outlives its instruction.
THEOREM InvariantHolds == Spec => []CpuInv
  BY InitOk, StepKeeps, PTL DEF Spec

\* service_interrupt always finds the request it was called for.
THEOREM CauseHolds == Spec => []ServiceHasCause
  <1>1. CpuInv => ServiceHasCause
    BY DEF CpuInv
  <1> QED BY <1>1, InvariantHolds, PTL

\* Two handlers never have the same address.
LEMMA VectorsDiffer ==
  ASSUME NEW b \in Bits, NEW c \in Bits,
         VectorBase + VectorStep * b = VectorBase + VectorStep * c
  PROVE  b = c
  <1>1. /\ VectorBase \in Nat /\ VectorStep \in Nat /\ VectorStep > 0
        /\ b \in Nat /\ c \in Nat
    BY CpuAssumption DEF Bits
  <1>2. \A v \in Nat, x \in Nat, y \in Nat : v > 0 /\ x < y => v * x < v * y
    OBVIOUS
  <1>3. VectorStep * b \in Nat /\ VectorStep * c \in Nat
    BY <1>1
  <1>4. VectorStep * b = VectorStep * c
    BY <1>1, <1>3
  <1>5. ~(b < c) /\ ~(c < b)
    BY <1>1, <1>2, <1>3, <1>4
  <1> QED BY <1>1, <1>5

\* The handler service_interrupt jumps to is that of the request it has taken out
\* of IF, and of no other, for any number of interrupts and any vectors.
THEOREM HandlerHolds == Spec => []HandlerIsAcknowledged
  <1>1. CpuInv => HandlerIsAcknowledged
    <2> SUFFICES ASSUME CpuInv, cpu.phase = "vector", NEW b \in Bits
                 PROVE  cpu.pc = VectorBase + VectorStep * b <=> b \in acked
      BY DEF HandlerIsAcknowledged
    <2>1. /\ cpu.bit \in Bits /\ acked = {cpu.bit}
          /\ cpu.pc = VectorBase + VectorStep * cpu.bit
      BY DEF CpuInv, PickedIsReal
    <2>2. VectorBase + VectorStep * cpu.bit = VectorBase + VectorStep * b => cpu.bit = b
      BY <2>1, VectorsDiffer
    <2>3. b = cpu.bit => VectorBase + VectorStep * cpu.bit = VectorBase + VectorStep * b
      OBVIOUS
    <2> QED BY <2>1, <2>2, <2>3
  <1> QED BY <1>1, InvariantHolds, PTL

\* One M-cycle changes IF only by what the hardware raises, by the dispatch's
\* choice and by a bus write.
LEMMA StepLosesNothing ==
  ASSUME CpuInv, NEW r \in SUBSET Hardware, raised' = r, MCycle(r)
  PROVE  LET all == ifr \cup raised'
         IN  \/ ifr' = all
             \/ MayWriteIf
             \/ /\ cpu.phase = "service" /\ ifr' = all \ {cpu'.bit}
                /\ cpu'.bit \in ie \cap all
                /\ \A b \in ie \cap all : cpu'.bit <= b
  <1> DEFINE all == ifr \cup raised'
  <1>1. CASE Service(r)
    <2> DEFINE b == LowestBit(Pending(ifr \cup r))
    <2>1. /\ cpu.phase = "service" /\ ifr' = (ifr \cup r) \ {b}
          /\ cpu' = [cpu EXCEPT !.ime = FALSE, !.bit = b, !.phase = "push1"]
      BY <1>1 DEF Service
    <2>2. Pending(ifr \cup r) # {} /\ Pending(ifr \cup r) \subseteq Bits
      BY <2>1 DEF CpuInv, TypeOK, ServiceHasCause, Pending
    <2>3. b \in Pending(ifr \cup r) /\ \A c \in Pending(ifr \cup r) : b <= c
      BY <2>2, LowestBitFound
    <2> HIDE DEF b
    <2>4. cpu'.bit = b
      BY <2>1 DEF CpuInv, TypeOK, CpuState
    <2> QED BY <2>1, <2>3, <2>4 DEF Pending
  <1>2. CASE Push1(r) \/ Push2(r)
    BY <1>2 DEF Push1, Push2, MayWriteIf
  <1>3. CASE Exec(r)
    BY <1>3 DEF Exec, MayWriteIf
  <1>4. CASE Hung(r) \/ Asleep(r) \/ StartService(r) \/ Vector(r)
    BY <1>4 DEF Hung, Asleep, Tick, StartService, Vector
  <1>5. CASE Short(r) \/ JpHl(r) \/ EI(r) \/ DI(r) \/ HALT(r) \/ Undefined(r)
    BY <1>5 DEF Short, JpHl, EI, DI, HALT, Undefined, Instruction
  <1>6. CASE Long(r) \/ RETI(r)
    BY <1>6 DEF Long, RETI
  <1> QED BY <1>1, <1>2, <1>3, <1>4, <1>5, <1>6 DEF MCycle, Dispatch, Program

\* The acknowledge of service_interrupt and the ticks around it lose no request
\* and make none up.
THEOREM NothingLost == Spec => NoRequestLost
  <1> DEFINE all == ifr \cup raised'
             Kept == \/ ifr' = all
                     \/ MayWriteIf
                     \/ /\ cpu.phase = "service" /\ ifr' = all \ {cpu'.bit}
                        /\ cpu'.bit \in ie \cap all
                        /\ \A b \in ie \cap all : cpu'.bit <= b
  <1>1. CpuInv /\ Next => Kept
    BY StepLosesNothing DEF Next
  <1>2. CpuInv /\ [Next]_vars => [Kept]_vars
    BY <1>1
  <1>3. NoRequestLost <=> [][Kept]_vars
    BY DEF NoRequestLost
  <1> QED BY <1>2, <1>3, InvariantHolds, PTL DEF Spec
-----------------------------------------------------------------------------
(* The arithmetic of Alu. *)

Digit == 0 .. 9

\* Two decimal digits in a byte.
Bcd(t, u) == 16 * t + u

(* The lower digit of a packed decimal byte.                                 *)
LEMMA LowDigit ==
  ASSUME NEW t \in Digit, NEW u \in Digit
  PROVE  Bcd(t, u) \in Byte /\ Bcd(t, u) % 16 = u
BY DEF Digit, Byte, Bcd

(* Bit is 0 or 1.                                                            *)
LEMMA BitIs ==
  ASSUME NEW b \in BOOLEAN
  PROVE  Bit(b) \in 0 .. 1 /\ (b <=> Bit(b) = 1)
BY DEF Bit

(* A byte and its digits, base 16.                                           *)
LEMMA Nibbles ==
  ASSUME NEW b \in Byte
  PROVE  \E i, j \in 0 .. 15 : b = 16 * i + j /\ b % 16 = j /\ b \div 16 = i
<1>1. b = 16 * (b \div 16) + (b % 16) /\ b \div 16 \in 0 .. 15 /\ b % 16 \in 0 .. 15  BY DEF Byte
<1> QED  BY <1>1

(* What is above a digit does not change it.                                 *)
LEMMA ModAbove ==
  ASSUME NEW i \in Int, NEW j \in Int
  PROVE  /\ (16 * i + j) % 16 = j % 16
         /\ (256 * i + j) % 256 = j % 256
         /\ (4096 * i + j) % 4096 = j % 4096
OBVIOUS

(* Decimal addition, byte by byte: ADC of two packed decimal numbers and DAA *)
(* (cpu.c 95-102, 153-168) leave the two lower digits of their sum, and the  *)
(* carry for the next byte exactly if the sum has a third.                   *)
THEOREM AdcDaaAddsDecimals ==
  ASSUME NEW s \in AluState, NEW t \in Digit, NEW u \in Digit, NEW p \in Digit, NEW q \in Digit,
         s.a = Bcd(t, u)
  PROVE  LET r == Daa(Adc(s, Bcd(p, q)))
             sum == (10 * t + u) + (10 * p + q) + Bit(s.c)
         IN  \E x, y \in Digit : r.a = Bcd(x, y) /\ sum = 10 * x + y + 100 * Bit(r.c)
<1> DEFINE k == Bit(s.c)
           low == u + q + k
           high == t + p
           m == Adc(s, Bcd(p, q))
           r == Daa(m)
           carry == IF low > 9 THEN 1 ELSE 0
           over  == IF high + carry > 9 THEN 1 ELSE 0
           y == low - 10 * carry
           x == high + carry - 10 * over
<1>0. k \in 0 .. 1  BY BitIs DEF AluState
<1>1. /\ low \in 0 .. 19 /\ high \in 0 .. 18 /\ carry \in 0 .. 1 /\ over \in 0 .. 1
      /\ y \in Digit /\ x \in Digit
  BY <1>0 DEF Digit
<1>2. /\ m.a = (16 * high + low) % 256 /\ ~m.n
      /\ m.h <=> low > 15
      /\ m.c <=> 16 * high + low > 255
  <2>1. /\ m.a = (s.a + Bcd(p, q) + k) % 256 /\ ~m.n
        /\ m.h <=> (s.a % 16) + (Bcd(p, q) % 16) + k > 15
        /\ m.c <=> s.a + Bcd(p, q) + k > 255
    BY DEF Adc, Sum, Result
  <2>2. s.a + Bcd(p, q) + k = 16 * high + low /\ (s.a % 16) + (Bcd(p, q) % 16) + k = low
    BY <1>0, LowDigit DEF Bcd, Digit
  <2> QED  BY <2>1, <2>2
<1> HIDE DEF m, k, low, high
<1>3. /\ m.a = 16 * high + low - (IF m.c THEN 256 ELSE 0)
      /\ m.a % 16 = low % 16
  BY <1>1, <1>2
<1>4. /\ (m.h \/ m.a % 16 > 9) <=> carry = 1
      /\ (m.c \/ m.a > 153) <=> over = 1
  BY <1>1, <1>2, <1>3
<1>5. Adjust(m) = 6 * carry + 96 * over /\ r.c = (over = 1) /\ r.a = (m.a + Adjust(m)) % 256
  BY <1>1, <1>2, <1>4 DEF Daa, Adjust, Result
<1>6. m.a + Adjust(m) = Bcd(x, y) + (IF m.c THEN 0 ELSE 256) * over
  BY <1>1, <1>2, <1>3, <1>5 DEF Bcd
<1>7. r.a = Bcd(x, y)
  BY <1>1, <1>5, <1>6 DEF Bcd, Digit
<1>8. 10 * t + u + (10 * p + q) + k = 10 * x + y + 100 * Bit(r.c)
  <2>1. Bit(r.c) = over  BY <1>1, <1>5 DEF Bit
  <2> QED  BY <1>0, <1>1, <2>1 DEF Digit, low, high
<1> QED  BY <1>1, <1>7, <1>8 DEF m, k

(* Decimal subtraction: SBC of packed decimal numbers and DAA leave the two  *)
(* lower digits of the difference, and the borrow for the next byte (cpu.c   *)
(* 109-116, 160-164).                                                        *)
THEOREM SbcDaaSubtractsDecimals ==
  ASSUME NEW s \in AluState, NEW t \in Digit, NEW u \in Digit, NEW p \in Digit, NEW q \in Digit,
         s.a = Bcd(t, u)
  PROVE  LET r == Daa(Sbc(s, Bcd(p, q)))
             rest == (10 * t + u) - (10 * p + q) - Bit(s.c)
         IN  \E x, y \in Digit : r.a = Bcd(x, y) /\ rest = 10 * x + y - 100 * Bit(r.c)
<1> DEFINE k == Bit(s.c)
           low == u - q - k
           high == t - p
           m == Sbc(s, Bcd(p, q))
           r == Daa(m)
           borrow == IF low < 0 THEN 1 ELSE 0
           under  == IF high - borrow < 0 THEN 1 ELSE 0
           y == low + 10 * borrow
           x == high - borrow + 10 * under
<1>0. k \in 0 .. 1  BY BitIs DEF AluState
<1>1. /\ low \in -10 .. 9 /\ high \in -9 .. 9 /\ borrow \in 0 .. 1 /\ under \in 0 .. 1
      /\ y \in Digit /\ x \in Digit
  BY <1>0 DEF Digit
<1>2. /\ m.a = (16 * high + low) % 256 /\ m.n
      /\ m.h <=> low < 0
      /\ m.c <=> 16 * high + low < 0
  <2>1. /\ m.a = (s.a - Bcd(p, q) - k) % 256 /\ m.n
        /\ m.h <=> (s.a % 16) - (Bcd(p, q) % 16) - k < 0
        /\ m.c <=> s.a - Bcd(p, q) - k < 0
    BY DEF Sbc, Difference, Result
  <2>2. s.a - Bcd(p, q) - k = 16 * high + low /\ (s.a % 16) - (Bcd(p, q) % 16) - k = low
    BY <1>0, LowDigit DEF Bcd, Digit
  <2> QED  BY <2>1, <2>2
<1> HIDE DEF m, k, low, high
<1>3. /\ m.a = 16 * high + low + (IF m.c THEN 256 ELSE 0)
      /\ (m.h <=> borrow = 1) /\ (m.c <=> under = 1)
  BY <1>1, <1>2
<1>4. Adjust(m) = 6 * borrow + 96 * under /\ r.c = (under = 1) /\ r.a = (m.a - Adjust(m)) % 256
  BY <1>1, <1>2, <1>3 DEF Daa, Adjust, Result
<1>5. m.a - Adjust(m) = Bcd(x, y)
  BY <1>1, <1>3, <1>4 DEF Bcd
<1>6. r.a = Bcd(x, y)
  BY <1>1, <1>4, <1>5 DEF Bcd, Digit
<1>7. (10 * t + u) - (10 * p + q) - k = 10 * x + y - 100 * Bit(r.c)
  <2>1. Bit(r.c) = under  BY <1>1, <1>4 DEF Bit
  <2> QED  BY <1>0, <1>1, <2>1 DEF Digit, low, high
<1> QED  BY <1>1, <1>6, <1>7 DEF m, k

\* r is the sum of n, v and k, or their difference: y, with the carry as a
\* number.
Carried(r, n, v, k, c, y) ==
  /\ r.a = y /\ y = n + v + k - 256 * c /\ r.c = (c = 1)
  /\ r.h = ((n % 16) + (v % 16) + k > 15)

Borrowed(r, n, v, k, c, y) ==
  /\ r.a = y /\ y = n - v - k + 256 * c /\ r.c = (c = 1) /\ r.z = (y = 0)
  /\ r.h = ((n % 16) - (v % 16) - k < 0)

(* Sum is a sum, and has a carry.                                            *)
LEMMA SumIs ==
  ASSUME NEW s, NEW n \in Byte, s.a = n, NEW v \in Byte, NEW k \in 0 .. 1
  PROVE  \E c \in 0 .. 1, y \in Byte : Carried(Sum(s, v, k), n, v, k, c, y)
<1> DEFINE t == n + v + k
           c == IF t > 255 THEN 1 ELSE 0
           y == t % 256
<1>1. t \in 0 .. 511  BY DEF Byte
<1>2. Sum(s, v, k).a = y /\ Sum(s, v, k).c = (t > 255)
      /\ Sum(s, v, k).h = ((n % 16) + (v % 16) + k > 15)
  BY DEF Sum, Result
<1> HIDE DEF t
<1>3. y = t - 256 * c /\ y \in Byte /\ c \in 0 .. 1 /\ (t > 255) = (c = 1)
  BY <1>1 DEF Byte
<1> HIDE DEF c, y
<1>4. y = n + v + k - 256 * c  BY <1>3 DEF t
<1>5. Carried(Sum(s, v, k), n, v, k, c, y)  BY <1>2, <1>3, <1>4 DEF Carried
<1> QED  BY <1>3, <1>5

(* Difference is a difference, and has a borrow.                             *)
LEMMA DifferenceIs ==
  ASSUME NEW s, NEW n \in Byte, s.a = n, NEW v \in Byte, NEW k \in 0 .. 1
  PROVE  \E c \in 0 .. 1, y \in Byte : Borrowed(Difference(s, v, k), n, v, k, c, y)
<1> DEFINE t == n - v - k
           c == IF t < 0 THEN 1 ELSE 0
           y == t % 256
<1>1. t \in -256 .. 255  BY DEF Byte
<1>2. /\ Difference(s, v, k).a = y /\ Difference(s, v, k).c = (t < 0)
      /\ Difference(s, v, k).z = (y = 0)
      /\ Difference(s, v, k).h = ((n % 16) - (v % 16) - k < 0)
  BY DEF Difference, Result
<1> HIDE DEF t
<1>3. y = t + 256 * c /\ y \in Byte /\ c \in 0 .. 1 /\ (t < 0) = (c = 1)
  BY <1>1 DEF Byte
<1> HIDE DEF c, y
<1>4. y = n - v - k + 256 * c  BY <1>3 DEF t
<1>5. Borrowed(Difference(s, v, k), n, v, k, c, y)  BY <1>2, <1>3, <1>4 DEF Borrowed
<1> QED  BY <1>3, <1>5

(* SUB takes back what ADD added, and borrows exactly if ADD carried (cpu.c  *)
(* 88-94, 103-108): a comparison after an addition finds its overflow.       *)
THEOREM SubUndoesAdd ==
  ASSUME NEW s \in AluState, NEW v \in Byte
  PROVE  LET r == Sub(Add(s, v), v)
         IN  r.a = s.a /\ r.c = Add(s, v).c /\ r.h = Add(s, v).h
             /\ Cp(Add(s, v), v).z = (s.a = 0)
<1> DEFINE m == Add(s, v)
           r == Sub(m, v)
<1>0. PICK n \in Byte : s.a = n  BY DEF AluState
<1>1. PICK c \in 0 .. 1, y \in Byte : Carried(m, n, v, 0, c, y)
  <2>1. 0 \in 0 .. 1  OBVIOUS
  <2> QED  BY <1>0, <2>1, SumIs, Zenon DEF Add
<1>2. PICK d \in 0 .. 1, e \in Byte : Borrowed(r, y, v, 0, d, e)
  <2> HIDE DEF m
  <2>a. m.a = y  BY <1>1 DEF Carried
  <2>1. 0 \in 0 .. 1  OBVIOUS
  <2> QED  BY <2>a, <2>1, DifferenceIs, Zenon DEF Sub
<1>3. Cp(m, v).z = r.z  BY DEF Cp, Sub, Difference, Result
<1> HIDE DEF m, r
<1>4. e = n /\ c = d  BY <1>1, <1>2 DEF Byte, Carried, Borrowed
<1>5. ((n % 16) + (v % 16) + 0 > 15) = ((y % 16) - (v % 16) - 0 < 0)
  <2>1. PICK i1, j1 \in 0 .. 15 : n = 16 * i1 + j1 /\ n % 16 = j1  BY Nibbles
  <2>2. PICK i2, j2 \in 0 .. 15 : v = 16 * i2 + j2 /\ v % 16 = j2  BY Nibbles
  <2>3. y = 16 * (i1 + i2 - 16 * c) + (j1 + j2)  BY <1>1, <2>1, <2>2 DEF Carried
  <2>4. y % 16 = (j1 + j2) % 16  BY <2>3, ModAbove
  <2>5. (y % 16) - j2 < 0 <=> j1 + j2 > 15  BY <2>4
  <2> QED  BY <2>1, <2>2, <2>4, <2>5
<1> QED  BY <1>0, <1>1, <1>2, <1>3, <1>4, <1>5 DEF m, r, Carried, Borrowed

(* ADD HL,rr is an ADD of the lower bytes and an ADC of the upper ones, with *)
(* the half carry and the carry of the second (cpu.c 88-102, 137-144).       *)
THEOREM AddHlIsTwoSums ==
  ASSUME NEW s \in AluState, NEW x \in Byte, NEW v \in Byte, NEW w \in Byte
  PROVE  LET lower == Add(s, v)
             upper == Adc([lower EXCEPT !.a = x], w)
             r == AddHl(256 * x + s.a, 256 * w + v)
         IN  r.sum = 256 * upper.a + lower.a /\ r.h = upper.h /\ r.c = upper.c
<1> DEFINE lower == Add(s, v)
           mid == [lower EXCEPT !.a = x]
           upper == Adc(mid, w)
           rr == 256 * w + v
<1>0. PICK n \in Byte : s.a = n  BY DEF AluState
<1> DEFINE hl == 256 * x + n
<1>1. PICK k \in 0 .. 1, y \in Byte : Carried(lower, n, v, 0, k, y)
  <2>1. 0 \in 0 .. 1  OBVIOUS
  <2> QED  BY <1>0, <2>1, SumIs, Zenon DEF Add
<1>2. mid.a = x /\ mid.c = lower.c  BY DEF Add, Sum, Result
<1> HIDE DEF lower, mid
<1>3. Bit(mid.c) = k
  <2>1. CASE k = 1  BY <1>1, <1>2, <2>1 DEF Bit, Carried
  <2>2. CASE k = 0  BY <1>1, <1>2, <2>2 DEF Bit, Carried
  <2> QED  BY <2>1, <2>2
<1>4. PICK c \in 0 .. 1, z \in Byte : Carried(upper, x, w, k, c, z)
  BY <1>2, <1>3, SumIs, Zenon DEF Adc
<1> HIDE DEF upper
<1> DEFINE low == 256 * z + y
<1>5. hl + rr = 65536 * c + low  BY <1>1, <1>4 DEF Byte, Carried
<1>6. low \in Int /\ 0 <= low /\ low <= 65535  BY DEF Byte
<1>7. (hl + rr) % 65536 = low /\ (hl + rr > 65535) = (c = 1)
  <2> HIDE DEF hl, rr, low
  <2>1. CASE c = 0
    <3>1. hl + rr = low  BY <1>5, <1>6, <2>1
    <3> QED  BY <1>6, <2>1, <3>1
  <2>2. CASE c = 1  BY <1>5, <1>6, <2>2
  <2> QED  BY <2>1, <2>2
<1>8. ((hl % 4096) + (rr % 4096) > 4095) = ((x % 16) + (w % 16) + k > 15)
  <2>1. PICK i1, j1 \in 0 .. 15 : x = 16 * i1 + j1 /\ x % 16 = j1  BY Nibbles
  <2>2. PICK i2, j2 \in 0 .. 15 : w = 16 * i2 + j2 /\ w % 16 = j2  BY Nibbles
  <2>3. hl = 4096 * i1 + (256 * j1 + n) /\ rr = 4096 * i2 + (256 * j2 + v)
    BY <2>1, <2>2 DEF Byte
  <2>4. 256 * j1 + n \in 0 .. 4095 /\ 256 * j2 + v \in 0 .. 4095  BY DEF Byte
  <2>5. hl % 4096 = 256 * j1 + n /\ rr % 4096 = 256 * j2 + v
    <3> DEFINE g1 == 256 * j1 + n
               g2 == 256 * j2 + v
    <3>1. g1 \in 0 .. 4095 /\ g2 \in 0 .. 4095  BY <2>4
    <3>2. hl = 4096 * i1 + g1 /\ rr = 4096 * i2 + g2  BY <2>3
    <3> HIDE DEF g1, g2, hl, rr
    <3>3. hl % 4096 = g1 % 4096 /\ rr % 4096 = g2 % 4096  BY <3>1, <3>2, ModAbove
    <3>4. g1 % 4096 = g1 /\ g2 % 4096 = g2  BY <3>1
    <3>5. hl % 4096 = g1 /\ rr % 4096 = g2  BY <3>3, <3>4
    <3> QED  BY <3>5 DEF g1, g2
  <2>6. 256 * j1 + n + (256 * j2 + v) = 256 * (j1 + j2 + k) + y  BY <1>1 DEF Byte, Carried
  <2>7. (256 * j1 + n + (256 * j2 + v) > 4095) = (j1 + j2 + k > 15)
    BY <2>6 DEF Byte
  <2> QED  BY <2>1, <2>2, <2>5, <2>7
<1>9. AddHl(hl, rr).sum = (hl + rr) % 65536 /\ AddHl(hl, rr).c = (hl + rr > 65535)
      /\ AddHl(hl, rr).h = ((hl % 4096) + (rr % 4096) > 4095)
  BY DEF AddHl
<1> HIDE DEF hl, rr, low
<1>10. AddHl(hl, rr).sum = low /\ AddHl(hl, rr).c = upper.c
       /\ AddHl(hl, rr).h = upper.h
  BY <1>4, <1>7, <1>8, <1>9 DEF Carried
<1> QED  BY <1>0, <1>1, <1>4, <1>10 DEF lower, mid, upper, hl, rr, low, Carried

(* ADD SP,e and LD HL,SP+e: the offset is signed, but the lower byte of the  *)
(* sum and both carries are those of an unsigned ADD (cpu.c 88-94, 145-152). *)
THEOREM AddSpIsASum ==
  ASSUME NEW s \in AluState, NEW x \in Byte, NEW ue \in Byte
  PROVE  LET r == AddSp(256 * x + s.a, ue)
         IN  /\ r.sum % 256 = Add(s, ue).a
             /\ r.h = Add(s, ue).h /\ r.c = Add(s, ue).c
<1>0. PICK n \in Byte : s.a = n  BY DEF AluState
<1> DEFINE sp == 256 * x + n
           r == AddSp(sp, ue)
<1>1. sp % 16 = n % 16 /\ sp % 256 = n
  <2>1. sp = 16 * (16 * x) + n /\ sp = 256 * x + n  BY DEF Byte
  <2> HIDE DEF sp
  <2>2. 16 * x \in Int /\ x \in Int /\ n \in Int  BY DEF Byte
  <2>3. sp % 16 = n % 16 /\ sp % 256 = n % 256  BY <2>1, <2>2, ModAbove
  <2>4. n % 256 = n  BY DEF Byte
  <2> QED  BY <2>3, <2>4
<1>2. r.h = ((n % 16) + (ue % 16) > 15) /\ r.c = (n + ue > 255)
      /\ r.sum = (sp + Signed(ue)) % 65536
  <2> HIDE DEF sp
  <2> QED  BY <1>1 DEF AddSp
<1> HIDE DEF r
<1>3. PICK c \in 0 .. 1, y \in Byte : Carried(Add(s, ue), n, ue, 0, c, y)
  <2>1. 0 \in 0 .. 1  OBVIOUS
  <2> QED  BY <1>0, <2>1, SumIs, Zenon DEF Add
<1>4. (n + ue > 255) = (c = 1)
      /\ ((n % 16) + (ue % 16) + 0 > 15) = ((n % 16) + (ue % 16) > 15)
  BY <1>3 DEF Byte, Carried
<1>5. PICK j \in 0 .. 1 : Signed(ue) = ue - 256 * j
  <2>1. CASE ue > 127  BY <2>1 DEF Signed, Byte
  <2>2. CASE ~(ue > 127)  BY <2>2 DEF Signed, Byte
  <2> QED  BY <2>1, <2>2
<1>6. PICK i \in -1 .. 1 : (sp + Signed(ue)) % 65536 = (sp + Signed(ue)) + 65536 * i
  <2> DEFINE e == sp + (ue - 256 * j)
  <2>1. e \in Int /\ -256 <= e /\ e <= 65790  BY DEF Byte
  <2>2. sp + Signed(ue) = e  BY <1>5
  <2> HIDE DEF e
  <2>3. \E i \in -1 .. 1 : e % 65536 = e + 65536 * i
    <3>1. CASE e < 0
      <4>1. e % 65536 = e + 65536  BY <2>1, <3>1
      <4> QED  BY <2>1, <4>1
    <3>2. CASE 0 <= e /\ e <= 65535
      <4>1. e % 65536 = e  BY <2>1, <3>2
      <4> QED  BY <2>1, <4>1
    <3>3. CASE e > 65535
      <4>1. e % 65536 = e - 65536  BY <2>1, <3>3
      <4> QED  BY <2>1, <4>1
    <3> QED  BY <2>1, <3>1, <3>2, <3>3
  <2> QED  BY <2>2, <2>3
<1>7. (sp + Signed(ue)) % 65536 = 256 * (x - j + 256 * i + c) + y
  BY <1>3, <1>5, <1>6 DEF Byte, Carried
<1>8. r.sum % 256 = y
  <2> DEFINE q == x - j + 256 * i + c
  <2>1. r.sum = 256 * q + y  BY <1>2, <1>7
  <2>2. q \in Int /\ y \in Int  BY DEF Byte
  <2> HIDE DEF q
  <2>3. r.sum % 256 = y % 256  BY <2>1, <2>2, ModAbove
  <2>4. y % 256 = y  BY DEF Byte
  <2> QED  BY <2>3, <2>4
<1> QED  BY <1>0, <1>2, <1>3, <1>4, <1>8 DEF r, sp, Carried

(* RR undoes RL, carry included, RRC undoes RLC, and SWAP itself (cpu.c 171- *)
(* 184): no bit of the operand is lost or moved twice.                       *)
THEOREM RotationsAreUndone ==
  ASSUME NEW s \in AluState
  PROVE  /\ Rr(Rl(s)).a = s.a /\ (Rr(Rl(s)).c <=> s.c)
         /\ Rrc(Rlc(s)).a = s.a
         /\ Swap(Swap(s)).a = s.a
<1> DEFINE top == s.a \div 128
           rest == s.a % 128
<1>0. s.a \in Byte /\ s.c \in BOOLEAN  BY DEF AluState
<1>1. s.a = 128 * top + rest /\ top \in 0 .. 1 /\ rest \in 0 .. 127 /\ (top = 1 <=> s.a > 127)
  BY <1>0 DEF Byte
<1> HIDE DEF top, rest
<1>2. (2 * s.a) % 256 = 2 * rest  BY <1>1
<1>3. ASSUME NEW low \in 0 .. 1
      PROVE  /\ Left(s, low).a = 2 * rest + low /\ (Left(s, low).c <=> top = 1)
             /\ (2 * rest + low) \div 2 = rest /\ (2 * rest + low) % 2 = low
  <2>1. (2 * rest + low) \div 2 = rest /\ (2 * rest + low) % 2 = low  BY <1>1
  <2> QED  BY <1>1, <1>2, <2>1 DEF Left, Result
<1>4. Rr(Rl(s)).a = s.a /\ (Rr(Rl(s)).c <=> s.c)
  <2> DEFINE m == Rl(s)
  <2>1. Bit(s.c) \in 0 .. 1 /\ (s.c <=> Bit(s.c) = 1)  BY <1>0, BitIs
  <2>2. m = Left(s, Bit(s.c))  BY DEF Rl
  <2>3. /\ m.a \div 2 = rest /\ m.a % 2 = Bit(s.c) /\ (m.c <=> top = 1)
    BY <1>3, <2>1, <2>2
  <2>4. Bit(m.c) = top  BY <1>1, <2>3 DEF Bit
  <2> HIDE DEF m
  <2>5. Rr(m).a = rest + 128 * top /\ (Rr(m).c <=> m.a % 2 = 1)
    BY <2>3, <2>4 DEF Rr, Right, Result
  <2> QED  BY <1>1, <2>1, <2>3, <2>5 DEF m
<1>5. Rrc(Rlc(s)).a = s.a
  <2> DEFINE m == Rlc(s)
  <2>1. m = Left(s, top)  BY DEF Rlc, top
  <2>2. m.a \div 2 = rest /\ m.a % 2 = top  BY <1>1, <1>3, <2>1
  <2> HIDE DEF m
  <2>3. Rrc(m).a = rest + 128 * top  BY <2>2 DEF Rrc, Right, Result
  <2> QED  BY <1>1, <2>3 DEF m
<1>6. Swap(Swap(s)).a = s.a
  <2> DEFINE hi == s.a \div 16
             lo == s.a % 16
  <2>1. s.a = 16 * hi + lo /\ hi \in 0 .. 15 /\ lo \in 0 .. 15  BY <1>0 DEF Byte
  <2>2. Swap(s).a = 16 * lo + hi  BY DEF Swap, Result
  <2> HIDE DEF hi, lo
  <2>3. (16 * lo + hi) % 16 = hi /\ (16 * lo + hi) \div 16 = lo  BY <2>1
  <2>4. Swap(Swap(s)).a = 16 * ((16 * lo + hi) % 16) + ((16 * lo + hi) \div 16)
    BY <2>2 DEF Swap, Result
  <2> QED  BY <2>1, <2>3, <2>4
<1> QED  BY <1>4, <1>5, <1>6

\* Results that agree in the accumulator and the other flags.
SameButCarry(r, t) == r.a = t.a /\ r.z = t.z /\ r.n = t.n /\ r.h = t.h

(* INC and DEC are ADD and SUB of 1 but for the carry, which they leave, so  *)
(* that a loop over the bytes of a long number may count with them (cpu.c    *)
(* 76-87, 88-116).                                                           *)
THEOREM IncAndDecKeepTheCarry ==
  ASSUME NEW s \in AluState
  PROVE  /\ SameButCarry(Inc(s), Add(s, 1)) /\ Inc(s).c = s.c
         /\ SameButCarry(Dec(s), Sub(s, 1)) /\ Dec(s).c = s.c
<1>0. PICK n \in Byte : s.a = n  BY DEF AluState
<1>1. PICK i, j \in 0 .. 15 : n = 16 * i + j /\ n % 16 = j  BY Nibbles
<1>2. (n + 1 + 0) % 256 = (n + 1) % 256 /\ (n - 1 - 0) % 256 = (n - 1) % 256  BY DEF Byte
<1>3. 1 % 16 = 1  OBVIOUS
<1>4. ((n % 16) + (1 % 16) + 0 > 15) = (n % 16 = 15)  BY <1>1, <1>3
<1>5. ((n % 16) - (1 % 16) - 0 < 0) = (n % 16 = 0)  BY <1>1, <1>3
<1>6. SameButCarry(Inc(s), Add(s, 1)) /\ Inc(s).c = s.c
  <2>1. Inc(s) = Result((n + 1) % 256, FALSE, n % 16 = 15, s.c)  BY <1>0 DEF Inc
  <2>2. Add(s, 1) = Result((n + 1 + 0) % 256, FALSE, (n % 16) + (1 % 16) + 0 > 15, n + 1 + 0 > 255)
    BY <1>0 DEF Add, Sum
  <2>3. Add(s, 1) = Result((n + 1) % 256, FALSE, n % 16 = 15, n + 1 + 0 > 255)
    BY <1>2, <1>4, <2>2
  <2> DEFINE a == (n + 1) % 256
             h == n % 16 = 15
             c == n + 1 + 0 > 255
  <2>4. Inc(s) = Result(a, FALSE, h, s.c) /\ Add(s, 1) = Result(a, FALSE, h, c)  BY <2>1, <2>3
  <2> HIDE DEF a, h, c
  <2>5. SameButCarry(Result(a, FALSE, h, s.c), Result(a, FALSE, h, c)) /\ Result(a, FALSE, h, s.c).c = s.c
    BY DEF Result, SameButCarry
  <2> QED  BY <2>4, <2>5
<1>7. SameButCarry(Dec(s), Sub(s, 1)) /\ Dec(s).c = s.c
  <2>1. Dec(s) = Result((n - 1) % 256, TRUE, n % 16 = 0, s.c)  BY <1>0 DEF Dec
  <2>2. Sub(s, 1) = Result((n - 1 - 0) % 256, TRUE, (n % 16) - (1 % 16) - 0 < 0, n - 1 - 0 < 0)
    BY <1>0 DEF Sub, Difference
  <2>3. Sub(s, 1) = Result((n - 1) % 256, TRUE, n % 16 = 0, n - 1 - 0 < 0)
    BY <1>2, <1>5, <2>2
  <2> DEFINE a == (n - 1) % 256
             h == n % 16 = 0
             c == n - 1 - 0 < 0
  <2>4. Dec(s) = Result(a, TRUE, h, s.c) /\ Sub(s, 1) = Result(a, TRUE, h, c)  BY <2>1, <2>3
  <2> HIDE DEF a, h, c
  <2>5. SameButCarry(Result(a, TRUE, h, s.c), Result(a, TRUE, h, c)) /\ Result(a, TRUE, h, s.c).c = s.c
    BY DEF Result, SameButCarry
  <2> QED  BY <2>4, <2>5
<1> QED  BY <1>6, <1>7

(* SLA doubles, SRL halves an unsigned and SRA a signed operand, and the     *)
(* carry is the bit that is lost (cpu.c 179-182, 185-186).                   *)
THEOREM ShiftsScale ==
  ASSUME NEW s \in AluState
  PROVE  /\ 2 * s.a = Sla(s).a + 256 * Bit(Sla(s).c)
         /\ s.a = 2 * Srl(s).a + Bit(Srl(s).c)
         /\ Signed(s.a) = 2 * Signed(Sra(s).a) + Bit(Sra(s).c)
<1>0. PICK n \in Byte : s.a = n  BY DEF AluState
<1> DEFINE half == n \div 2
           odd == n % 2
           top == n \div 128
<1>1. /\ n = 2 * half + odd /\ odd \in 0 .. 1 /\ half \in 0 .. 127 /\ top \in 0 .. 1
      /\ (top = 1 <=> n > 127) /\ (half > 63 <=> n > 127)
  BY DEF Byte
<1>2. 2 * s.a = Sla(s).a + 256 * Bit(Sla(s).c)
  <2>1. Sla(s).a = ((2 * n) % 256) + 0 /\ Sla(s).c = (n > 127)  BY <1>0 DEF Sla, Left, Result
  <2>2. CASE n > 127
    <3>1. (2 * n) % 256 = 2 * n - 256  BY <2>2 DEF Byte
    <3>2. Bit(Sla(s).c) = 1  BY <2>1, <2>2 DEF Bit
    <3>3. Sla(s).a = 2 * n - 256  BY <2>1, <3>1 DEF Byte
    <3>4. 2 * n = (2 * n - 256) + 256 * 1  BY DEF Byte
    <3> QED  BY <1>0, <3>2, <3>3, <3>4
  <2>3. CASE ~(n > 127)
    <3>1. (2 * n) % 256 = 2 * n  BY <2>3 DEF Byte
    <3>2. Bit(Sla(s).c) = 0  BY <2>1, <2>3 DEF Bit
    <3>3. Sla(s).a = 2 * n  BY <2>1, <3>1 DEF Byte
    <3>4. 2 * n = 2 * n + 256 * 0  BY DEF Byte
    <3> QED  BY <1>0, <3>2, <3>3, <3>4
  <2> QED  BY <2>2, <2>3
<1>3. /\ Srl(s).a = half + 128 * 0 /\ Srl(s).c = (odd = 1)
      /\ Sra(s).a = half + 128 * top /\ Sra(s).c = (odd = 1)
  BY <1>0 DEF Srl, Sra, Right, Result
<1> HIDE DEF half, odd, top
<1>4. Bit(Srl(s).c) = odd /\ Bit(Sra(s).c) = odd
  <2>1. CASE odd = 1  BY <1>3, <2>1 DEF Bit
  <2>2. CASE odd = 0  BY <1>3, <2>2 DEF Bit
  <2> QED  BY <1>1, <2>1, <2>2
<1>5. s.a = 2 * Srl(s).a + Bit(Srl(s).c)  BY <1>0, <1>1, <1>3, <1>4
<1>6. Signed(n) = n - 256 * top  BY <1>1 DEF Signed, Byte
<1>7. Signed(half + 128 * top) = half + 128 * top - 256 * top  BY <1>1 DEF Signed
<1>8. Signed(s.a) = 2 * Signed(Sra(s).a) + Bit(Sra(s).c)
  BY <1>0, <1>1, <1>3, <1>4, <1>6, <1>7
<1> QED  BY <1>2, <1>5, <1>8
=============================================================================
