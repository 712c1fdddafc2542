-------------------------------- MODULE Cpu --------------------------------
(***************************************************************************)
(* src/cpu.c: the control of the cpu - fetch, interrupt dispatch, EI/DI,   *)
(* HALT and the hang on an undefined opcode.                               *)
(*                                                                         *)
(* One action is one M-cycle: the code that leads up to a tick, the tick,  *)
(* in which the hardware may raise the interrupts r, and the code after it *)
(* up to where the next M-cycle begins.  Instructions are told apart only  *)
(* by what they do to this control; the others are Short or Long.          *)
(***************************************************************************)
EXTENDS Integers, FiniteSets

CONSTANTS NBits,        \* interrupt sources, highest priority 0 (5)
          Hardware,     \* those the machine itself requests (no joypad: 0..3)
          PcSize,       \* addresses (2^16)
          VectorBase, VectorStep,  \* handler of bit b (0x40, 8)
          MaxExtra      \* M-cycles after the fetch of a Long instruction (5)

ASSUME CpuAssumption ==
  /\ NBits \in Nat \ {0} /\ Hardware \subseteq 0 .. NBits - 1
  /\ PcSize \in Nat \ {0} /\ VectorBase \in Nat /\ VectorStep \in Nat \ {0}
  /\ VectorBase + VectorStep * NBits < PcSize
  /\ MaxExtra \in Nat /\ MaxExtra >= 3        \* RETI needs three

VARIABLES cpu,   \* control state of the cpu
          ie,    \* interrupts enabled in IE
          ifr,   \* interrupts requested in IF
          raised,\* what the hardware requested in the last tick
          acked  \* history: what the dispatch under way took out of IF

vars == <<cpu, ie, ifr, raised, acked>>

Bits == 0 .. NBits - 1
Addr == 0 .. PcSize - 1
Phases == {"step", "exec", "service", "push1", "push2", "vector"}
Ops == {"none", "Short", "JpHl", "EI", "DI", "HALT", "Undefined", "Long", "RETI"}

CpuState ==
  [ime : BOOLEAN, imePending : BOOLEAN, halted : BOOLEAN, haltBug : BOOLEAN,
   locked : BOOLEAN, pc : Addr,
   phase : Phases,             \* "step": between two calls of cpu_step
   eiWas : BOOLEAN,            \* cpu_step's ei_was_pending
   op : Ops,                   \* what execute fetched since the last dispatch
   left : 0 .. MaxExtra,       \* M-cycles it still needs
   bit : 0 .. NBits]           \* service_interrupt's bit

TypeOK == /\ cpu \in CpuState
          /\ ie \subseteq Bits /\ ifr \subseteq Bits /\ raised \subseteq Hardware
          /\ acked \subseteq Bits
-----------------------------------------------------------------------------
Init ==
  /\ cpu = [ime |-> FALSE, imePending |-> FALSE, halted |-> FALSE,
            haltBug |-> FALSE, locked |-> FALSE, pc |-> 0, phase |-> "step",
            eiWas |-> FALSE, op |-> "none", left |-> 0, bit |-> 0]
  /\ ie = {} /\ ifr = {0} /\ raised = {} /\ acked = {}

\* An M-cycle in which a stopped cpu only lets time pass.
Tick(r) == ifr' = ifr \cup r /\ UNCHANGED <<cpu, ie>>

\* The bus write of an M-cycle, after its tick: to IE, to IF or elsewhere.
BusWrite(r) ==
  \/ ie' = ie /\ ifr' = ifr \cup r
  \/ ie' \in SUBSET Bits /\ ifr' = ifr \cup r
  \/ ie' = ie /\ ifr' \in SUBSET Bits

Pending(f) == ie \cap f

Hung(r) == cpu.phase = "step" /\ cpu.locked /\ Tick(r)

\* Faults.  Operators named Bug... are slips the code could have made in the
\* definition that follows them; README.md says which property each one breaks.

BugSleeps == cpu.halted /\ ~(cpu.ime /\ Pending(ifr) # {})  \* IME must be on

\* HALT goes on: nothing enabled is requested.
Sleeps == cpu.halted /\ Pending(ifr) = {}

Asleep(r) == cpu.phase = "step" /\ ~cpu.locked /\ Sleeps /\ Tick(r)

\* cpu_step goes on to a dispatch or an instruction.
Awake == cpu.phase = "step" /\ ~cpu.locked /\ ~Sleeps

BugDispatchesMasked == cpu.ime /\ ifr # {}   \* IE is not consulted

BugDispatchesTop ==                          \* the mask is one bit short
  cpu.ime /\ Pending(ifr) \ {NBits - 1} # {}

Dispatches == cpu.ime /\ Pending(ifr) # {}

StartService(r) ==
  /\ Awake /\ Dispatches
  /\ cpu' = [cpu EXCEPT !.halted = FALSE, !.op = "none", !.phase = "service"]
  /\ ifr' = ifr \cup r /\ UNCHANGED ie

\* The scan for the lowest bit; it runs off the end when nothing is pending.
LowestBit(S) == CHOOSE b \in S \cup {NBits} : \A c \in S : b <= c

BugServiceKeepsIme(r) ==                     \* IME is left on
  LET b == LowestBit(Pending(ifr \cup r))
  IN  /\ cpu.phase = "service"
      /\ cpu' = [cpu EXCEPT !.bit = b, !.phase = "push1"]
      /\ ifr' = (ifr \cup r) \ {b} /\ UNCHANGED ie

BugServiceStaleIf(r) ==                      \* IF as it was before the tick
  LET b == LowestBit(Pending(ifr))
  IN  /\ cpu.phase = "service"
      /\ cpu' = [cpu EXCEPT !.ime = FALSE, !.bit = b, !.phase = "push1"]
      /\ ifr' = ifr \ {b} /\ UNCHANGED ie

BugServiceAcksMasked(r) ==                   \* the acknowledge ignores IE
  LET b == LowestBit(Pending(ifr \cup r))
  IN  /\ cpu.phase = "service"
      /\ cpu' = [cpu EXCEPT !.ime = FALSE, !.bit = b, !.phase = "push1"]
      /\ ifr' = (ifr \cup r) \ {LowestBit(ifr \cup r)} /\ UNCHANGED ie

\* The second M-cycle reads the requests again before it picks one.
Service(r) ==
  LET b == LowestBit(Pending(ifr \cup r))
  IN  /\ cpu.phase = "service"
      /\ cpu' = [cpu EXCEPT !.ime = FALSE, !.bit = b, !.phase = "push1"]
      /\ ifr' = (ifr \cup r) \ {b} /\ UNCHANGED ie

\* The return address goes to wherever SP points, which may be IE or IF.
Push1(r) == /\ cpu.phase = "push1" /\ BusWrite(r)
            /\ cpu' = [cpu EXCEPT !.phase = "push2"]

Push2(r) == /\ cpu.phase = "push2" /\ BusWrite(r)
            /\ cpu' = [cpu EXCEPT !.phase = "vector",
                                  !.pc = VectorBase + VectorStep * cpu.bit]

Vector(r) == /\ cpu.phase = "vector"
             /\ cpu' = [cpu EXCEPT !.phase = "step"]
             /\ ifr' = ifr \cup r /\ UNCHANGED ie
-----------------------------------------------------------------------------
\* execute's opcode fetch; cpu_step has saved ime_pending before it.
Fetched(op) ==
  [cpu EXCEPT !.op = op, !.halted = FALSE, !.haltBug = FALSE,
              !.pc = IF cpu.haltBug THEN @ ELSE (@ + 1) % PcSize,
              !.eiWas = cpu.imePending]

\* What cpu_step does when execute returns.
Retired(c) ==
  IF c.eiWas THEN [c EXCEPT !.ime = TRUE, !.imePending = FALSE,
                            !.eiWas = FALSE, !.phase = "step"]
             ELSE [c EXCEPT !.phase = "step"]

Executes == Awake /\ ~Dispatches

\* A one-M-cycle instruction that turns the fetched cpu into c.
Instruction(r, c) ==
  Executes /\ cpu' = Retired(c) /\ ifr' = ifr \cup r /\ UNCHANGED ie

Short(r) == Instruction(r, Fetched("Short"))

\* JP HL, the one-M-cycle jump.
JpHl(r) == \E a \in Addr : Instruction(r, [Fetched("JpHl") EXCEPT !.pc = a])

EI(r) == Instruction(r, [Fetched("EI") EXCEPT !.imePending = TRUE])

DI(r) == Instruction(r, [Fetched("DI") EXCEPT !.ime = FALSE, !.imePending = FALSE])

HALT(r) ==
  IF ~cpu.ime /\ Pending(ifr \cup r) # {}
  THEN Instruction(r, [Fetched("HALT") EXCEPT !.haltBug = TRUE])
  ELSE Instruction(r, [Fetched("HALT") EXCEPT !.halted = TRUE])

Undefined(r) == Instruction(r, [Fetched("Undefined") EXCEPT !.locked = TRUE])

Long(r) ==
  /\ Executes
  /\ \E n \in 1 .. MaxExtra :
        cpu' = [Fetched("Long") EXCEPT !.phase = "exec", !.left = n]
  /\ ifr' = ifr \cup r /\ UNCHANGED ie

RETI(r) ==
  /\ Executes
  /\ cpu' = [Fetched("RETI") EXCEPT !.phase = "exec", !.left = 3]
  /\ ifr' = ifr \cup r /\ UNCHANGED ie

\* A further M-cycle of a Long instruction; the last may leave pc anywhere.
Exec(r) ==
  /\ cpu.phase = "exec"
  /\ IF cpu.left > 1
     THEN cpu' = [cpu EXCEPT !.left = @ - 1]
     ELSE \E a \in Addr :
            cpu' = Retired([cpu EXCEPT !.left = 0, !.pc = a,
                                       !.ime = @ \/ cpu.op = "RETI"])
  /\ IF cpu.op = "RETI" THEN ifr' = ifr \cup r /\ UNCHANGED ie ELSE BusWrite(r)
-----------------------------------------------------------------------------
Dispatch(r) == StartService(r) \/ Service(r) \/ Push1(r) \/ Push2(r) \/ Vector(r)

Program(r) == \/ Short(r) \/ JpHl(r) \/ EI(r) \/ DI(r) \/ HALT(r) \/ Undefined(r)
              \/ Long(r) \/ RETI(r) \/ Exec(r)

MCycle(r) == Hung(r) \/ Asleep(r) \/ Dispatch(r) \/ Program(r)

\* What the tick and the acknowledge of this M-cycle leave missing in IF, until
\* the dispatch is over.
Acknowledges ==
  acked' = IF cpu.phase = "service" THEN (ifr \cup raised') \ ifr'
           ELSE IF cpu.phase \in {"push1", "push2"} THEN acked ELSE {}

Next == \E r \in SUBSET Hardware : MCycle(r) /\ raised' = r /\ Acknowledges

\* The front ends call cpu_step for ever, so an M-cycle that moves the cpu on is
\* always followed by another; a sleeping cpu may wait for the hardware for ever.
Spec == Init /\ [][Next]_vars /\ WF_cpu(Next)
-----------------------------------------------------------------------------
\* service_interrupt reads the pending requests again one tick after cpu_step
\* did: it must still find one, or it would jump past the last vector.
ServiceHasCause == cpu.phase = "service" => Pending(ifr) # {}

\* What the scan found is a real interrupt, and the one taken out of IF.
PickedIsReal ==
  cpu.phase \in {"push1", "push2", "vector"} =>
    /\ cpu.bit \in Bits /\ acked = {cpu.bit}
    /\ cpu.phase = "vector" => cpu.pc = VectorBase + VectorStep * cpu.bit

\* A handler is entered exactly when its own request was acknowledged, no other:
\* no interrupt is served twice or swallowed, whatever ticks and pushes lie between
\* the acknowledge and the jump.  (Where in the dispatch the choice is made, and
\* what a push to IE does to it, is another matter: see README.md on ie_push.)
HandlerIsAcknowledged ==
  cpu.phase = "vector" =>
    \A b \in Bits : cpu.pc = VectorBase + VectorStep * b <=> b \in acked

\* A dispatch runs to its vector with interrupts off and nothing half done:
\* the cpu it interrupts is neither asleep nor hung nor inside an instruction.
DispatchIsExclusive ==
  cpu.phase \in {"push1", "push2", "vector"} =>
    ~cpu.ime /\ ~cpu.halted /\ ~cpu.locked /\ ~cpu.eiWas /\ cpu.left = 0

\* A sleeping or hung cpu never carries a half-used EI or HALT quirk along.
QuirksExclude ==
  /\ ~(cpu.halted /\ cpu.haltBug)
  /\ ~(cpu.halted /\ cpu.phase # "step")
  /\ cpu.locked => cpu.phase = "step" /\ ~cpu.halted

\* Only an instruction under way remembers an EI or has M-cycles left.
NothingLeftOver == cpu.phase # "exec" => ~cpu.eiWas /\ cpu.left = 0

\* The invariant behind the others.
CpuInv == /\ TypeOK /\ ServiceHasCause /\ PickedIsReal /\ DispatchIsExclusive
          /\ QuirksExclude /\ NothingLeftOver

\* The bus write of this M-cycle may go to IF.
MayWriteIf == \/ cpu.phase \in {"push1", "push2"}
              \/ cpu.phase = "exec" /\ cpu.op # "RETI"

\* No request is lost or made up, one raised in the tick of the acknowledge
\* included: IF gains what the hardware raised and loses only the highest-
\* priority enabled request, to the dispatch that will jump to its vector -
\* unless the program, a push of the dispatch included, overwrites IF.
NoRequestLost ==
  [][LET all == ifr \cup raised'
     IN  \/ ifr' = all
         \/ MayWriteIf
         \/ /\ cpu.phase = "service" /\ ifr' = all \ {cpu'.bit}
            /\ cpu'.bit \in ie \cap all
            /\ \A b \in ie \cap all : cpu'.bit <= b]_vars

\* HALT ends: once an enabled request is there nothing can take it away from a
\* sleeping cpu, with interrupts on or off.
HaltWakes == (cpu.halted /\ Pending(ifr) # {}) ~> ~cpu.halted

\* With interrupts on and a request pending, the next thing cpu_step does is a
\* dispatch, and it reaches its jump; and no instruction under way keeps the cpu
\* from getting there.
PendingIsServed ==
  /\ (cpu.phase = "step" /\ cpu.ime /\ Pending(ifr) # {} /\ ~cpu.locked)
       ~> (cpu.phase = "vector")
  /\ (cpu.phase = "exec") ~> (cpu.phase = "step")
-----------------------------------------------------------------------------
\* gb.h calls ime the interrupt master enable, and DI clears ime and
\* ime_pending both: after a DI, interrupts are off.
DiDisables == cpu.op = "DI" => ~cpu.ime

\* The HALT bug as README.md and progress.md have it: the opcode byte after the
\* HALT is fetched twice.  Until the bugged fetch, pc stays on that byte.
HaltBugKeepsPc == [][cpu.haltBug /\ cpu'.haltBug => cpu'.pc = cpu.pc]_vars
=============================================================================
