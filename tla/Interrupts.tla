----------------------------- MODULE Interrupts -----------------------------
(***************************************************************************)
(* Interrupts of the Nios V/m: the table of handlers and its registration  *)
(* (alt_iic_isr_register.c), the nested sections with interrupts off       *)
(* (sys/alt_irq.h), and the dispatch of a trap (alt_irq_handler.c), from   *)
(* the start of alt_main on.                                               *)
(*                                                                         *)
(* There is one hart: a trap keeps the thread from running until it        *)
(* returns, and starts with MIE clear.  A line of a device is a level; the *)
(* handler called for it makes it fall.                                    *)
(***************************************************************************)
EXTENDS Integers, Sequences

CONSTANTS
  NIRQ,      \* lines of the devices (NIOSV_NIRQ, 16 in the source)
  Isrs,      \* handlers a program registers; a handler names its context too
  Nesting,   \* sections open at once, a bound
  MaxRises   \* times a line rises, a bound

ASSUME InterruptConstants ==
  /\ NIRQ \in Nat \ {0}
  /\ Nesting \in Nat /\ MaxRises \in Nat

VARIABLES
  MIE,         \* the global enable, in mstatus
  mie,         \* the sources enabled one by one, in mie
  lines,       \* the sources that are asserted, in mip
  alt_irq,     \* the table: handler and context of every line
  below,       \* the word before the table holds what its owner put there
  timer_isr,   \* alt_niosv_timer_interrupt_handler is set
  trap, active, running,  \* the trap under way
  pc, reg, saved,         \* the thread, its registration and open sections
  rises

cpu == <<MIE, mie>>
table == <<alt_irq, below>>
taken == <<trap, active, running>>
thread == <<pc, reg, saved>>
vars == <<cpu, lines, table, timer_isr, taken, thread, rises>>

Irqs == 0 .. NIRQ - 1
Timer == NIRQ              \* the machine timer, below the lines in mie
Sources == Irqs \cup {Timer}
I2C_0_IRQ == -1            \* the core has no line to the hart
JTAG_UART_0_IRQ == 0
NULL == "null"
Unset == [handler |-> NULL, context |-> NULL]

Pending == lines \cap mie
alt_irq_pending == Pending \cap Irqs

alt_irq_disable_all == MIE' = 0

Contexts == Isrs \cup {"i2c", "jtag", NULL}   \* and handlers: the same names

\* Mutant: the context is not looked at.
alt_irq_enable_all_Always(context) == MIE' = 1

alt_irq_enable_all(context) == MIE' = IF context = 1 THEN 1 ELSE MIE

-----------------------------------------------------------------------------
(* The thread: alt_irq_init and alt_sys_init, then any use of the API      *)

Runs(p) == trap = "none" /\ pc = p

Start ==
  /\ Runs("alt_irq_init")
  /\ mie' = {} /\ MIE' = 1 /\ pc' = "i2c"
  /\ UNCHANGED <<lines, table, timer_isr, taken, reg, saved, rises>>

\* Mutant: the table is changed with interrupts on.
Register_Open(irq, isr, then) ==
  IF irq < NIRQ
    THEN /\ reg' = [irq |-> irq, isr |-> isr, context |-> MIE, then |-> then]
         /\ pc' = "handler"
         /\ UNCHANGED <<cpu, lines, table, timer_isr, taken, saved, rises>>
    ELSE /\ pc' = then
         /\ UNCHANGED <<cpu, lines, table, timer_isr, taken, reg, saved, rises>>

(* alt_iic_isr_register: the index is compared as a signed number, so -1   *)
(* passes.                                                                 *)
Register(irq, isr, then) ==
  IF irq < NIRQ
    THEN /\ reg' = [irq |-> irq, isr |-> isr, context |-> MIE, then |-> then]
         /\ alt_irq_disable_all /\ pc' = "handler"
         /\ UNCHANGED <<mie, lines, table, timer_isr, taken, saved, rises>>
    ELSE /\ pc' = then
         /\ UNCHANGED <<cpu, lines, table, timer_isr, taken, reg, saved, rises>>

RegisterDriver ==
  \/ Runs("i2c") /\ Register(I2C_0_IRQ, "i2c", "jtag")
  \/ Runs("jtag") /\ Register(JTAG_UART_0_IRQ, "jtag", "timer")

RegisterIsr ==
  /\ Runs("main")
  /\ \E irq \in Irqs, isr \in Isrs \cup {NULL} : Register(irq, isr, "main")

SetHandler ==
  /\ Runs("handler") /\ pc' = "context"
  /\ IF reg.irq \in Irqs
       THEN alt_irq' = [alt_irq EXCEPT ![reg.irq].handler = reg.isr] /\ UNCHANGED below
       ELSE below' = "overwritten" /\ UNCHANGED alt_irq
  /\ UNCHANGED <<cpu, lines, timer_isr, taken, reg, saved, rises>>

SetContext ==
  /\ Runs("context") /\ pc' = "enable"
  /\ IF reg.irq \in Irqs
       THEN alt_irq' = [alt_irq EXCEPT ![reg.irq].context = reg.isr] /\ UNCHANGED below
       ELSE below' = "overwritten" /\ UNCHANGED alt_irq
  /\ UNCHANGED <<cpu, lines, timer_isr, taken, reg, saved, rises>>

(* alt_ic_irq_enable or alt_ic_irq_disable, which do look at the index     *)
SetMie ==
  /\ Runs("enable") /\ pc' = "restore"
  /\ mie' = IF reg.isr = NULL THEN mie \ {reg.irq} ELSE mie \cup ({reg.irq} \cap Irqs)
  /\ UNCHANGED <<MIE, lines, table, timer_isr, taken, reg, saved, rises>>

\* Mutant: interrupts are left off after a registration.
Registered_Off ==
  /\ Runs("restore") /\ pc' = reg.then
  /\ reg' = [irq |-> 0, isr |-> NULL, context |-> 0, then |-> "main"]
  /\ UNCHANGED <<cpu, lines, table, timer_isr, taken, saved, rises>>

Registered ==
  /\ Runs("restore") /\ pc' = reg.then
  /\ alt_irq_enable_all(reg.context)
  /\ reg' = [irq |-> 0, isr |-> NULL, context |-> 0, then |-> "main"]
  /\ UNCHANGED <<mie, lines, table, timer_isr, taken, saved, rises>>

(* INTEL_NIOSV_M_INIT: the handler first, then the enable                  *)
StartTimer ==
  /\ Runs("timer")
  /\ IF timer_isr = 0
       THEN timer_isr' = 1 /\ UNCHANGED <<pc, mie>>
       ELSE mie' = mie \cup {Timer} /\ pc' = "main" /\ UNCHANGED timer_isr
  /\ UNCHANGED <<MIE, lines, table, taken, reg, saved, rises>>

Disable ==
  /\ Runs("main") /\ Len(saved) < Nesting
  /\ saved' = Append(saved, MIE) /\ alt_irq_disable_all
  /\ UNCHANGED <<mie, lines, table, timer_isr, taken, pc, reg, rises>>

Restore ==
  /\ Runs("main") /\ saved # <<>>
  /\ alt_irq_enable_all(saved[Len(saved)])
  /\ saved' = SubSeq(saved, 1, Len(saved) - 1)
  /\ UNCHANGED <<mie, lines, table, timer_isr, taken, pc, reg, rises>>

(* A driver serves its device, or turns its interrupts off, in a section.  *)
Quiet ==
  /\ Runs("main") /\ saved # <<>>
  /\ \E i \in lines \cap Irqs : lines' = lines \ {i}
  /\ UNCHANGED <<cpu, table, timer_isr, taken, thread, rises>>

Thread ==
  \/ Start \/ RegisterDriver \/ RegisterIsr \/ SetHandler \/ SetContext \/ SetMie
  \/ Registered \/ StartTimer \/ Disable \/ Restore \/ Quiet

-----------------------------------------------------------------------------
(* The trap                                                                *)

(* A line rises in a device that was set up; the timer's when it is due.   *)
Rise ==
  /\ rises < MaxRises /\ rises' = rises + 1
  /\ \E s \in Sources \ lines : lines' = lines \cup {s}
  /\ UNCHANGED <<cpu, table, timer_isr, taken, thread>>

(* The hart takes a trap: handle_trap is entered with the cause.           *)
Trap ==
  /\ trap = "none" /\ MIE = 1
  /\ \/ Timer \in Pending /\ trap' = "timer" /\ UNCHANGED active
     \/ alt_irq_pending # {} /\ trap' = "lines" /\ active' = {}
  /\ MIE' = 0
  /\ UNCHANGED <<mie, lines, table, timer_isr, running, thread, rises>>

(* The timer's handler, if there is one, schedules the next tick, which    *)
(* makes its line fall; then mret.                                         *)
HandleTimer ==
  /\ trap = "timer"
  /\ lines' = IF timer_isr = 1 THEN lines \ {Timer} ELSE lines
  /\ trap' = "none" /\ MIE' = 1
  /\ UNCHANGED <<mie, table, timer_isr, active, running, thread, rises>>

(* alt_irq_handler reads what is pending, ...                              *)
ReadPending ==
  /\ trap = "lines"
  /\ active' = alt_irq_pending
  /\ IF active' = {} /\ running.irq # -1
       THEN trap' = "return" ELSE trap' = "scan"
  /\ UNCHANGED <<cpu, lines, table, timer_isr, running, thread, rises>>

(* ... finds the first bit that is set, and calls the handler of that line *)
(* with its context; without one it would look on for ever.                *)
CallHandler ==
  /\ trap = "scan"
  /\ \E i \in active :
       /\ \A j \in active : i <= j
       /\ running' = [irq |-> i, handler |-> alt_irq[i].handler, context |-> alt_irq[i].context]
  /\ trap' = "isr"
  /\ UNCHANGED <<cpu, lines, table, timer_isr, active, thread, rises>>

(* The handler serves its device and may open and close a section.         *)
HandlerReturns ==
  /\ trap = "isr"
  /\ lines' = lines \ {running.irq}
  /\ alt_irq_enable_all(0)
  /\ trap' = "lines"
  /\ UNCHANGED <<mie, table, timer_isr, active, running, thread, rises>>

(* The handler may also take itself out of the table: its registration     *)
(* restores the context of a trap, in which MIE is clear.                  *)
HandlerUnregisters ==
  /\ trap = "isr" /\ running.handler \in Isrs
  /\ lines' = lines \ {running.irq}
  /\ alt_irq' = [alt_irq EXCEPT ![running.irq] = Unset]
  /\ mie' = mie \ {running.irq} /\ alt_irq_enable_all(0)
  /\ trap' = "lines"
  /\ UNCHANGED <<below, timer_isr, active, running, thread, rises>>

(* mret *)
Return ==
  /\ trap = "return"
  /\ trap' = "none" /\ MIE' = 1 /\ active' = {}
  /\ running' = [irq |-> -1, handler |-> NULL, context |-> NULL]
  /\ UNCHANGED <<mie, lines, table, timer_isr, thread, rises>>

Dispatch ==
  \/ HandleTimer \/ ReadPending \/ CallHandler \/ HandlerReturns
  \/ HandlerUnregisters \/ Return

-----------------------------------------------------------------------------
Init ==
  /\ MIE = 0 /\ mie = {} /\ lines = {}
  /\ alt_irq = [i \in Irqs |-> Unset] /\ below = "own" /\ timer_isr = 0
  /\ trap = "none" /\ active = {}
  /\ running = [irq |-> -1, handler |-> NULL, context |-> NULL]
  /\ pc = "alt_irq_init" /\ saved = <<>> /\ rises = 0
  /\ reg = [irq |-> 0, isr |-> NULL, context |-> 0, then |-> "main"]

Next == Thread \/ Rise \/ Trap \/ Dispatch

Spec == Init /\ [][Next]_vars

(* A trap goes on to its end, the thread closes its sections, the         *)
(* outermost too, and finishes a registration, and the hart takes a        *)
(* pending interrupt once MIE lets it, before the next instruction.        *)
FairSpec ==
  /\ Spec /\ WF_vars(Dispatch) /\ SF_vars(Trap)
  /\ SF_vars(Restore) /\ SF_vars(Restore /\ Len(saved) = 1)
  /\ WF_vars(Start \/ RegisterDriver \/ SetHandler \/ SetContext \/ SetMie \/ Registered \/ StartTimer)

-----------------------------------------------------------------------------
(* Properties                                                              *)

(* The registers, the table and the trap keep to their values; what is     *)
(* enabled are lines and the timer.                                        *)
TypeOK ==
  /\ MIE \in {0, 1} /\ mie \subseteq Sources /\ lines \subseteq Sources
  /\ alt_irq \in [Irqs -> [handler : Contexts, context : Contexts]]
  /\ below \in {"own", "overwritten"} /\ timer_isr \in {0, 1}
  /\ trap \in {"none", "timer", "lines", "scan", "isr", "return"}
  /\ active \subseteq Irqs
  /\ running \in [irq : -1 .. NIRQ - 1, handler : Contexts, context : Contexts]
  /\ pc \in {"alt_irq_init", "i2c", "jtag", "timer", "main",
             "handler", "context", "enable", "restore"}
  /\ reg \in [irq : -1 .. NIRQ - 1, isr : Contexts, context : {0, 1},
              then : {"jtag", "timer", "main"}]
  /\ saved \in Seq({0, 1}) /\ rises \in 0 .. MaxRises

(* A handler is called with the context registered with it, whatever       *)
(* registration the trap came amid, and never through an empty entry.      *)
CalledAsRegistered ==
  trap = "isr" => running.handler # NULL /\ running.context = running.handler

(* No trap is taken while a section of the thread is open, also when an    *)
(* inner section was closed, and no trap within a trap.                    *)
SectionsAreClosed ==
  /\ saved # <<>> => MIE = 0 /\ trap = "none"
  /\ trap # "none" => MIE = 0

(* alt_irq_handler, which looks for a set bit without counting, is never   *)
(* left looking for one that is not there.                                 *)
SomethingToCall == trap = "scan" => active # {}

(* Outside a registration, a line that is enabled has a handler: nothing   *)
(* else in this system sets a bit of mie.                                  *)
EnabledHasHandler ==
  pc \notin {"handler", "context", "enable"} => \A i \in mie \cap Irqs : alt_irq[i].handler # NULL

(* Every interrupt that is enabled is served, or turned off, in the end.   *)
EveryInterruptIsServed == \A s \in Sources : s \in Pending ~> s \notin Pending

(* "The index into the array is the interrupt id": nothing but the table   *)
(* is written when a handler is registered.                                *)
OnlyTheTable == below = "own"
=============================================================================
