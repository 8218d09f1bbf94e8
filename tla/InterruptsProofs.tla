-------------------------- MODULE InterruptsProofs --------------------------
(***************************************************************************)
(* Theorems about interrupts, for every number of lines, every set of      *)
(* handlers and sections nested to any depth.                              *)
(***************************************************************************)
EXTENDS Interrupts, SequenceTheorems, TLAPS

Registering == {"handler", "context", "enable", "restore"}

(* Whoever needs the interrupts off has them off: a trap, a section, a     *)
(* registration.  Of the open sections only the outermost can have found   *)
(* them on, and a registration that did has no section around it.          *)
Masked ==
  /\ trap # "none" => MIE = 0
  /\ saved # <<>> => MIE = 0 /\ trap = "none"
  /\ pc \in Registering => MIE = 0 /\ trap = "none"
  /\ \A k \in 1 .. Len(saved) : k > 1 => saved[k] = 0
  /\ pc \in Registering /\ reg.context = 1 => saved = <<>>
  /\ pc = "alt_irq_init" => MIE = 0 /\ trap = "none"
  /\ pc # "main" /\ ~(pc \in Registering /\ reg.then = "main") => saved = <<>>

(* The table is whole but for the entry a registration is about.           *)
TableOK ==
  /\ \A i \in Irqs : ~(pc = "context" /\ reg.irq = i) => alt_irq[i].context = alt_irq[i].handler
  /\ \A i \in mie \cap Irqs : ~(pc \in {"handler", "context", "enable"} /\ reg.irq = i)
         => alt_irq[i].handler # NULL
  /\ pc \in {"context", "enable"} /\ reg.irq \in Irqs => alt_irq[reg.irq].handler = reg.isr

(* A trap has something to do, from the moment it is taken on: lines may   *)
(* rise in the meantime, but only the trap itself makes one fall.          *)
TrapOK ==
  /\ trap = "scan" => active # {} /\ active \subseteq Pending
  /\ trap = "isr" => running.irq \in Irqs /\ running.handler # NULL
                     /\ running.context = running.handler
  /\ trap \in {"none", "timer"} => running.irq = -1
  /\ trap = "lines" /\ running.irq = -1 => alt_irq_pending # {}

IndInv == TypeOK /\ Masked /\ TableOK /\ TrapOK

-----------------------------------------------------------------------------
LEMMA InitIndInv == Init => IndInv
<1> SUFFICES ASSUME Init PROVE IndInv  OBVIOUS
<1> USE InterruptConstants DEF Init
<1>1. TypeOK
  <2>1. saved \in Seq({0, 1})  OBVIOUS
  <2> QED  BY <2>1 DEF TypeOK, Sources, Irqs, Timer, Contexts, Unset, NULL
<1>2. Masked  BY DEF Masked, Registering
<1>3. TableOK  BY DEF TableOK, Unset
<1>4. TrapOK  BY DEF TrapOK
<1> QED  BY <1>1, <1>2, <1>3, <1>4 DEF IndInv

-----------------------------------------------------------------------------
(* Types, one action at a time.                                            *)

LEMMA TypeStep == TypeOK /\ [Next]_vars => TypeOK'
<1> SUFFICES ASSUME TypeOK, [Next]_vars PROVE TypeOK'  OBVIOUS
<1>a. /\ Irqs \subseteq Sources /\ Timer \in Sources
      /\ Irqs \subseteq -1 .. NIRQ - 1 /\ -1 \in -1 .. NIRQ - 1
      /\ {reg.irq} \cap Irqs \subseteq Sources
  BY InterruptConstants DEF Irqs, Sources, Timer
<1>b. /\ Isrs \subseteq Contexts /\ NULL \in Contexts
      /\ "i2c" \in Contexts /\ "jtag" \in Contexts
  BY DEF Contexts
<1> DEFINE Entry == [handler : Contexts, context : Contexts]
<1>c. Unset \in Entry  BY <1>b DEF Unset
<1> USE DEF TypeOK, Runs, cpu, table, taken, thread
<1>1. CASE Start  BY <1>1 DEF Start
<1>2. CASE RegisterDriver
  <2>1. /\ I2C_0_IRQ \in -1 .. NIRQ - 1 /\ JTAG_UART_0_IRQ \in -1 .. NIRQ - 1
    BY InterruptConstants DEF I2C_0_IRQ, JTAG_UART_0_IRQ
  <2>2. CASE Register(I2C_0_IRQ, "i2c", "jtag")
    BY <1>b, <2>1, <2>2 DEF Register, alt_irq_disable_all
  <2>3. CASE Register(JTAG_UART_0_IRQ, "jtag", "timer")
    BY <1>b, <2>1, <2>3 DEF Register, alt_irq_disable_all
  <2> QED  BY <1>2, <2>2, <2>3 DEF RegisterDriver
<1>3. CASE RegisterIsr
  <2>1. PICK irq \in Irqs, isr \in Isrs \cup {NULL} : Register(irq, isr, "main")
    BY <1>3 DEF RegisterIsr
  <2>2. irq \in -1 .. NIRQ - 1 /\ isr \in Contexts  BY <1>a, <1>b, <2>1
  <2>3. CASE irq < NIRQ
    <3>1. reg' \in [irq : -1 .. NIRQ - 1, isr : Contexts, context : {0, 1},
                    then : {"jtag", "timer", "main"}]
      BY <2>1, <2>2, <2>3 DEF Register
    <3> QED  BY <2>1, <2>3, <3>1 DEF Register, alt_irq_disable_all
  <2>4. CASE ~(irq < NIRQ)  BY <2>1, <2>4 DEF Register
  <2> QED  BY <2>3, <2>4
<1>4. CASE SetHandler
  <2>1. alt_irq' \in [Irqs -> Entry]
    <3>1. CASE reg.irq \in Irqs
      <4>1. [alt_irq[reg.irq] EXCEPT !.handler = reg.isr] \in Entry  BY <3>1
      <4> QED  BY <1>4, <3>1, <4>1 DEF SetHandler
    <3>2. CASE reg.irq \notin Irqs  BY <1>4, <3>2 DEF SetHandler
    <3> QED  BY <3>1, <3>2
  <2> QED  BY <1>4, <2>1 DEF SetHandler
<1>5. CASE SetContext
  <2>1. alt_irq' \in [Irqs -> Entry]
    <3>1. CASE reg.irq \in Irqs
      <4>1. [alt_irq[reg.irq] EXCEPT !.context = reg.isr] \in Entry  BY <3>1
      <4> QED  BY <1>5, <3>1, <4>1 DEF SetContext
    <3>2. CASE reg.irq \notin Irqs  BY <1>5, <3>2 DEF SetContext
    <3> QED  BY <3>1, <3>2
  <2> QED  BY <1>5, <2>1 DEF SetContext
<1>6. CASE SetMie  BY <1>6, <1>a DEF SetMie
<1>7. CASE Registered
  <2>1. reg' \in [irq : -1 .. NIRQ - 1, isr : Contexts, context : {0, 1},
                  then : {"jtag", "timer", "main"}]
    BY <1>7, <1>b, InterruptConstants DEF Registered
  <2> QED  BY <1>7, <2>1 DEF Registered, alt_irq_enable_all
<1>8. CASE StartTimer  BY <1>8, <1>a DEF StartTimer
<1>9. CASE Disable
  <2>1. saved' \in Seq({0, 1})  BY <1>9, AppendProperties DEF Disable
  <2> QED  BY <1>9, <2>1 DEF Disable, alt_irq_disable_all
<1>10. CASE Restore
  <2>1. SubSeq(saved, 1, Len(saved) - 1) \in Seq({0, 1})  BY <1>10 DEF Restore
  <2>2. MIE' \in {0, 1}  BY <1>10 DEF Restore, alt_irq_enable_all
  <2> QED  BY <1>10, <2>1, <2>2 DEF Restore
<1>11. CASE Quiet  BY <1>11 DEF Quiet
<1>12. CASE Rise  BY <1>12, InterruptConstants DEF Rise
<1>13. CASE Trap  BY <1>13 DEF Trap
<1>14. CASE HandleTimer  BY <1>14 DEF HandleTimer
<1>15. CASE ReadPending  BY <1>15 DEF ReadPending, alt_irq_pending
<1>16. CASE CallHandler
  <2>1. PICK i \in active :
          running' = [irq |-> i, handler |-> alt_irq[i].handler, context |-> alt_irq[i].context]
    BY <1>16 DEF CallHandler
  <2>2. i \in -1 .. NIRQ - 1 /\ alt_irq[i] \in Entry  BY <1>a
  <2> QED  BY <1>16, <2>1, <2>2 DEF CallHandler
<1>17. CASE HandlerReturns  BY <1>17 DEF HandlerReturns, alt_irq_enable_all
<1>18. CASE HandlerUnregisters
  <2>1. alt_irq' \in [Irqs -> Entry]  BY <1>18, <1>c DEF HandlerUnregisters
  <2> QED  BY <1>18, <2>1 DEF HandlerUnregisters, alt_irq_enable_all
<1>19. CASE Return
  <2>1. running' \in [irq : -1 .. NIRQ - 1, handler : Contexts, context : Contexts]
    BY <1>19, <1>a, <1>b DEF Return
  <2> QED  BY <1>19, <2>1 DEF Return
<1>20. CASE UNCHANGED vars  BY <1>20 DEF vars
<1> QED
  BY <1>1, <1>2, <1>3, <1>4, <1>5, <1>6, <1>7, <1>8, <1>9, <1>10, <1>11, <1>12, <1>13,
     <1>14, <1>15, <1>16, <1>17, <1>18, <1>19, <1>20 DEF Next, Thread, Dispatch

(* The registers, the table and the trap keep to their values.             *)
THEOREM TypeCorrect == Spec => []TypeOK
<1>1. Init => TypeOK  BY InitIndInv DEF IndInv
<1> QED  BY <1>1, TypeStep, PTL DEF Spec

-----------------------------------------------------------------------------
(* Interrupts off.                                                         *)

LEMMA MaskedStep == TypeOK /\ Masked /\ [Next]_vars => Masked'
<1> SUFFICES ASSUME TypeOK, Masked, [Next]_vars PROVE Masked'  OBVIOUS
<1> USE InterruptConstants DEF TypeOK, Masked, Registering, Runs, cpu, table, taken, thread
<1>1. CASE Start  BY <1>1 DEF Start
<1>2. CASE RegisterDriver
  BY <1>2 DEF RegisterDriver, Register, alt_irq_disable_all, I2C_0_IRQ, JTAG_UART_0_IRQ
<1>3. CASE RegisterIsr  BY <1>3 DEF RegisterIsr, Register, alt_irq_disable_all
<1>4. CASE SetHandler  BY <1>4 DEF SetHandler
<1>5. CASE SetContext  BY <1>5 DEF SetContext
<1>6. CASE SetMie  BY <1>6 DEF SetMie
<1>7. CASE Registered  BY <1>7 DEF Registered, alt_irq_enable_all
<1>8. CASE StartTimer  BY <1>8 DEF StartTimer
<1>9. CASE Disable
  <2>1. /\ Len(saved') = Len(saved) + 1
        /\ \A k \in 1 .. Len(saved) : saved'[k] = saved[k]
        /\ saved'[Len(saved) + 1] = MIE
    BY <1>9, AppendProperties DEF Disable
  <2>2. ASSUME NEW k \in 1 .. Len(saved'), k > 1 PROVE saved'[k] = 0
    <3>1. CASE k \in 1 .. Len(saved)  BY <2>1, <2>2, <3>1
    <3>2. CASE k = Len(saved) + 1
      <4>1. saved # <<>>  BY <2>2, <3>2
      <4> QED  BY <2>1, <3>2, <4>1
    <3> QED  BY <2>1, <3>1, <3>2
  <2> QED  BY <1>9, <2>2 DEF Disable, alt_irq_disable_all
<1>10. CASE Restore
  <2> DEFINE n == Len(saved)
  <2>1. n \in Nat \ {0}  BY <1>10 DEF Restore
  <2>2. saved' = SubSeq(saved, 1, n - 1)  BY <1>10 DEF Restore
  <2> HIDE DEF n
  <2>3. Len(saved') = n - 1 /\ \A k \in 1 .. n - 1 : saved'[k] = saved[k]
    <3>1. n = Len(saved)  BY DEF n
    <3> QED  BY <2>1, <2>2, <3>1, SubSeqProperties
  <2>6. saved' \in Seq({0, 1})  BY <1>10 DEF Restore
  <2>4. CASE n = 1
    <3>1. saved' = <<>>  BY <2>3, <2>4, <2>6
    <3> QED  BY <1>10, <3>1 DEF Restore
  <2>5. CASE n > 1
    <3>1. saved[n] = 0  BY <2>1, <2>5 DEF n
    <3>2. MIE' = 0  BY <1>10, <3>1 DEF Restore, alt_irq_enable_all, n
    <3>3. ASSUME NEW k \in 1 .. Len(saved'), k > 1 PROVE saved'[k] = 0
      <4>1. k \in 1 .. n - 1 /\ k \in 1 .. Len(saved)  BY <2>1, <2>3 DEF n
      <4> QED  BY <2>3, <3>3, <4>1
    <3> QED  BY <1>10, <3>2, <3>3 DEF Restore
  <2> QED  BY <2>1, <2>4, <2>5
<1>11. CASE Quiet  BY <1>11 DEF Quiet
<1>12. CASE Rise  BY <1>12 DEF Rise
<1>13. CASE Trap  BY <1>13 DEF Trap
<1>14. CASE HandleTimer  BY <1>14 DEF HandleTimer
<1>15. CASE ReadPending  BY <1>15 DEF ReadPending
<1>16. CASE CallHandler  BY <1>16 DEF CallHandler
<1>17. CASE HandlerReturns  BY <1>17 DEF HandlerReturns, alt_irq_enable_all
<1>18. CASE HandlerUnregisters  BY <1>18 DEF HandlerUnregisters, alt_irq_enable_all
<1>19. CASE Return  BY <1>19 DEF Return
<1>20. CASE UNCHANGED vars  BY <1>20 DEF vars
<1> QED
  BY <1>1, <1>2, <1>3, <1>4, <1>5, <1>6, <1>7, <1>8, <1>9, <1>10, <1>11, <1>12, <1>13,
     <1>14, <1>15, <1>16, <1>17, <1>18, <1>19, <1>20 DEF Next, Thread, Dispatch

(* No trap is taken within a section of the thread, nor within a trap.     *)
THEOREM SectionsStayClosed == Spec => []SectionsAreClosed
<1>1. Init => TypeOK /\ Masked  BY InitIndInv DEF IndInv
<1>2. TypeOK /\ Masked /\ [Next]_vars => TypeOK' /\ Masked'  BY TypeStep, MaskedStep
<1>3. Masked => SectionsAreClosed  BY DEF Masked, SectionsAreClosed
<1> QED  BY <1>1, <1>2, <1>3, PTL DEF Spec

-----------------------------------------------------------------------------
(* The table.                                                              *)

LEMMA TableStep == TypeOK /\ Masked /\ TableOK /\ TrapOK /\ [Next]_vars => TableOK'
<1> SUFFICES ASSUME TypeOK, Masked, TableOK, TrapOK, [Next]_vars PROVE TableOK'  OBVIOUS
<1> USE InterruptConstants DEF TypeOK, TableOK, Runs, cpu, table, taken, thread, Irqs
<1>1. CASE Start  BY <1>1 DEF Start
<1>2. CASE RegisterDriver
  BY <1>2 DEF RegisterDriver, Register, alt_irq_disable_all, I2C_0_IRQ, JTAG_UART_0_IRQ
<1>3. CASE RegisterIsr  BY <1>3 DEF RegisterIsr, Register, alt_irq_disable_all
<1>4. CASE SetHandler
  <2>1. \A i \in Irqs : i # reg.irq => alt_irq'[i] = alt_irq[i]  BY <1>4 DEF SetHandler
  <2>2. reg.irq \in Irqs => alt_irq'[reg.irq].handler = reg.isr  BY <1>4 DEF SetHandler
  <2> QED  BY <1>4, <2>1, <2>2 DEF SetHandler
<1>5. CASE SetContext
  <2>1. \A i \in Irqs : i # reg.irq => alt_irq'[i] = alt_irq[i]  BY <1>5 DEF SetContext
  <2>2. reg.irq \in Irqs => /\ alt_irq'[reg.irq].handler = reg.isr
                            /\ alt_irq'[reg.irq].context = reg.isr
    BY <1>5 DEF SetContext
  <2> QED  BY <1>5, <2>1, <2>2 DEF SetContext
<1>6. CASE SetMie
  <2>1. ASSUME NEW i \in mie' \cap Irqs PROVE alt_irq[i].handler # NULL
    BY <1>6, <2>1 DEF SetMie
  <2> QED  BY <1>6, <2>1 DEF SetMie
<1>7. CASE Registered  BY <1>7 DEF Registered
<1>8. CASE StartTimer  BY <1>8 DEF StartTimer, Timer
<1>9. CASE Disable  BY <1>9 DEF Disable
<1>10. CASE Restore  BY <1>10 DEF Restore
<1>11. CASE Quiet  BY <1>11 DEF Quiet
<1>12. CASE Rise  BY <1>12 DEF Rise
<1>13. CASE Trap  BY <1>13 DEF Trap
<1>14. CASE HandleTimer  BY <1>14 DEF HandleTimer
<1>15. CASE ReadPending  BY <1>15 DEF ReadPending
<1>16. CASE CallHandler  BY <1>16 DEF CallHandler
<1>17. CASE HandlerReturns  BY <1>17 DEF HandlerReturns
<1>18. CASE HandlerUnregisters
  <2>1. pc \notin Registering /\ running.irq \in Irqs
    BY <1>18 DEF HandlerUnregisters, Masked, TrapOK
  <2>2. \A i \in Irqs : alt_irq'[i] = IF i = running.irq THEN Unset ELSE alt_irq[i]
    BY <1>18 DEF HandlerUnregisters
  <2> QED  BY <1>18, <2>1, <2>2 DEF HandlerUnregisters, Registering, Unset
<1>19. CASE Return  BY <1>19 DEF Return
<1>20. CASE UNCHANGED vars  BY <1>20 DEF vars
<1> QED
  BY <1>1, <1>2, <1>3, <1>4, <1>5, <1>6, <1>7, <1>8, <1>9, <1>10, <1>11, <1>12, <1>13,
     <1>14, <1>15, <1>16, <1>17, <1>18, <1>19, <1>20 DEF Next, Thread, Dispatch

-----------------------------------------------------------------------------
(* The trap.  What is enabled and asserted changes in few steps.           *)

LEMMA TrapStep == TypeOK /\ Masked /\ TableOK /\ TrapOK /\ [Next]_vars => TrapOK'
<1> SUFFICES ASSUME TypeOK, Masked, TableOK, TrapOK, [Next]_vars PROVE TrapOK'  OBVIOUS
<1> USE InterruptConstants
    DEF TypeOK, TrapOK, Runs, cpu, table, taken, thread, Irqs, Pending, alt_irq_pending
<1>1. CASE Thread
  <2>1. trap = "none"
    BY <1>1 DEF Thread, Start, RegisterDriver, RegisterIsr, SetHandler, SetContext, SetMie,
                Registered, StartTimer, Disable, Restore, Quiet
  <2>2. UNCHANGED taken
    BY <1>1 DEF Thread, Start, RegisterDriver, RegisterIsr, Register, SetHandler, SetContext,
                SetMie, Registered, StartTimer, Disable, Restore, Quiet
  <2> QED  BY <2>1, <2>2
<1>2. CASE Rise  BY <1>2 DEF Rise
<1>3. CASE Trap  BY <1>3 DEF Trap
<1>4. CASE HandleTimer  BY <1>4 DEF HandleTimer
<1>5. CASE ReadPending  BY <1>5 DEF ReadPending
<1>6. CASE CallHandler
  <2>1. PICK i \in active :
          running' = [irq |-> i, handler |-> alt_irq[i].handler, context |-> alt_irq[i].context]
    BY <1>6 DEF CallHandler
  <2>2. pc \notin Registering  BY <1>6 DEF CallHandler, Masked
  <2>3. i \in mie \cap Irqs  BY <1>6, <2>1 DEF CallHandler
  <2>4. alt_irq[i].handler # NULL /\ alt_irq[i].context = alt_irq[i].handler
    BY <2>2, <2>3 DEF TableOK, Registering
  <2> QED  BY <1>6, <2>1, <2>3, <2>4 DEF CallHandler
<1>7. CASE HandlerReturns  BY <1>7 DEF HandlerReturns
<1>8. CASE HandlerUnregisters  BY <1>8 DEF HandlerUnregisters
<1>9. CASE Return  BY <1>9 DEF Return
<1>10. CASE UNCHANGED vars  BY <1>10 DEF vars
<1> QED
  BY <1>1, <1>2, <1>3, <1>4, <1>5, <1>6, <1>7, <1>8, <1>9, <1>10 DEF Next, Dispatch

LEMMA Invariance == Spec => []IndInv
<1>1. IndInv /\ [Next]_vars => IndInv'
  BY TypeStep, MaskedStep, TableStep, TrapStep DEF IndInv
<1> QED  BY <1>1, InitIndInv, PTL DEF Spec

(* A handler is never called through an empty entry, nor with a context    *)
(* that is not its own.                                                    *)
THEOREM HandlersAreCalledAsRegistered == Spec => []CalledAsRegistered
<1>1. IndInv => CalledAsRegistered  BY DEF IndInv, TrapOK, CalledAsRegistered
<1> QED  BY <1>1, Invariance, PTL

(* The search for a set bit, which does not count, always finds one.       *)
THEOREM SearchEnds == Spec => []SomethingToCall
<1>1. IndInv => SomethingToCall  BY DEF IndInv, TrapOK, SomethingToCall
<1> QED  BY <1>1, Invariance, PTL

(* A line is enabled only while it has a handler.                          *)
THEOREM EnabledLinesHaveHandlers == Spec => []EnabledHasHandler
<1>1. IndInv => EnabledHasHandler  BY DEF IndInv, TableOK, EnabledHasHandler
<1> QED  BY <1>1, Invariance, PTL
=============================================================================
