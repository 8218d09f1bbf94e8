----------------------------- MODULE AvalonI2c -----------------------------
(***************************************************************************)
(* The Avalon I2C master: the driver of the board support package          *)
(* (altera_avalon_i2c.c) on the core it drives (altera_avalon_i2c_csr.v    *)
(* and altera_avalon_i2c_mstfsm.v).                                        *)
(*                                                                         *)
(* Three actors interleave.  The core takes transfer commands out of a     *)
(* FIFO and plays them on the bus, where the target acknowledges or does   *)
(* not and another master may win the bus.  One thread calls master_tx,    *)
(* master_rx, master_tx_rx and interrupt_transaction_status.  The          *)
(* interrupt handler, while it runs, keeps the thread from running.        *)
(*                                                                         *)
(* A wait of the driver polls a register a bounded number of times, with   *)
(* sleeps of 10 ms in the last ten polls; a target that stretches the      *)
(* clock makes it give up, so every wait may give up at any time.  "late"  *)
(* remembers that one has.  The retry loops may stop after any attempt.    *)
(***************************************************************************)
EXTENDS Integers, Sequences

CONSTANTS
  Depth,   \* entries in each FIFO of the core (FIFO_DEPTH, 4 in this system)
  Sizes    \* sizes a caller asks for; a size of 0 returns at once

ASSUME I2cConstants == Depth \in Nat \ {0} /\ Sizes \subseteq Nat \ {0}

VARIABLES
  dev,         \* the core: registers, FIFOs and state machine
  took,        \* what the target has acknowledged since the transaction began
  mishap,      \* what went wrong on the bus since then
  late,        \* 1 once a wait has given up
  irq,         \* IRQ_DATA_t, and the call it completes
  handler,     \* where the interrupt handler is
  registered,  \* alt_avalon_i2c_register_optional_irq_handler has been called
  pc, op, stage, todo, status, buffer   \* the thread and its call

core == <<dev, took, mishap>>
thread == <<pc, op, stage, todo, status, buffer>>
vars == <<core, late, irq, handler, registered, thread>>

Write == -1     \* the address byte of a write ...
Read == -2      \* ... and of a read; data bytes are numbered from 1

Calls ==
  [kind : {"tx"}, n : Sizes, m : {0}, ints : {0, 1}] \cup
  [kind : {"rx"}, n : {0}, m : Sizes, ints : {0, 1}] \cup
  [kind : {"tx_rx"}, n : Sizes, m : Sizes, ints : {0, 1}]
NoCall == [kind |-> "none", n |-> 0, m |-> 0, ints |-> 0]
NoIrq == [busy |-> 0, size |-> 0, buffer |-> <<>>, call |-> NoCall]
NoCmd == [val |-> 0, sta |-> FALSE, sto |-> FALSE]

UpTo(n) == [i \in 1..n |-> i]
Stop(o, s) == ~(o.kind = "tx_rx" /\ s = "tx")
Restart(o, s) == o.kind = "tx_rx" /\ s = "rx"
FirstStage(o) == IF o.kind = "rx" THEN "rx" ELSE "tx"

(* The transfer commands of a transmit or of a receive: the address, then  *)
(* one command per byte, the last with the stop bit.                       *)
Commands(o, s) ==
  LET size == IF s = "tx" THEN o.n ELSE o.m
      Byte(i) == [val |-> IF s = "tx" THEN i ELSE 0, sta |-> FALSE,
                  sto |-> i = size /\ Stop(o, s)]
  IN <<[val |-> IF s = "tx" THEN Write ELSE Read,
        sta |-> Restart(o, s), sto |-> FALSE]>> \o [i \in 1..size |-> Byte(i)]

(* What the target acknowledges when the whole call is played.             *)
Played(o) ==
  (IF o.kind = "rx" THEN <<>> ELSE <<Write>> \o UpTo(o.n))
    \o (IF o.kind = "tx" THEN <<>> ELSE <<Read>>)

-----------------------------------------------------------------------------
(* The core                                                                *)

Flagged(d) == d.nack = 1 \/ d.arb = 1
Busy == dev.fsm \notin {"idle", "pre_idle"}
TxReady == dev.en = 1 /\ Len(dev.tx) <= (IF dev.txthd = "empty" THEN 0 ELSE Depth - 1)
RxReady == Len(dev.rx) >= (IF dev.rxthd = "one" THEN 1 ELSE Depth)

(* The state machine leaves PRE_IDLE within a cycle: for the next start    *)
(* when a command is there, for IDLE when the core is disabled.            *)
Settled(d) ==
  IF d.fsm # "pre_idle" THEN d
  ELSE IF d.tx # <<>> THEN [d EXCEPT !.fsm = "pre_start"]
  ELSE IF d.en = 0 THEN [d EXCEPT !.fsm = "idle"]
  ELSE d

Enabled(d) == [d EXCEPT !.en = 1, !.fsm = IF @ = "idle" THEN "pre_start" ELSE @]
Disabled(d) == Settled([d EXCEPT !.en = 0])
Cleared(d) == [d EXCEPT !.nack = 0, !.arb = 0]
Pushed(d, c) == IF Flagged(d) THEN d ELSE Settled([d EXCEPT !.tx = Append(@, c)])

CoreStarts ==
  /\ dev.fsm = "pre_start" /\ dev.tx # <<>> /\ ~Flagged(dev)
  /\ dev' = [dev EXCEPT !.fsm = "address", !.cmd = Head(dev.tx), !.tx = Tail(@)]
  /\ UNCHANGED <<took, mishap>>

CoreContinues ==
  /\ dev.fsm = "bus_hold" /\ dev.tx # <<>>
  /\ LET c == Head(dev.tx)
     IN dev' = [dev EXCEPT !.cmd = c, !.tx = Tail(@),
                  !.fsm = IF c.sta THEN "address"
                          ELSE IF dev.rw = Write THEN "tx_byte" ELSE "rx_byte"]
  /\ UNCHANGED <<took, mishap>>

After(c) == IF c.sto THEN "gen_stop" ELSE "bus_hold"

CoreIsAcknowledged ==
  /\ dev.fsm \in {"address", "tx_byte"}
  /\ took' = Append(took, dev.cmd.val)
  /\ dev' = [dev EXCEPT !.fsm = After(dev.cmd),
                        !.rw = IF dev.fsm = "address" THEN dev.cmd.val ELSE @,
                        !.sent = IF dev.fsm = "address" THEN 0 ELSE @]
  /\ UNCHANGED mishap

(* No acknowledge: the flag holds both FIFOs empty until it is cleared.    *)
CoreIsRefused ==
  /\ dev.fsm \in {"address", "tx_byte"}
  /\ dev' = [dev EXCEPT !.fsm = "gen_stop", !.nack = 1, !.tx = <<>>, !.rx = <<>>]
  /\ mishap' = "nack"
  /\ UNCHANGED took

CoreLosesTheBus ==
  /\ dev.fsm \in {"address", "tx_byte", "rx_byte"}
  /\ dev' = Settled([dev EXCEPT !.fsm = "pre_idle", !.arb = 1, !.tx = <<>>, !.rx = <<>>,
                                !.cmd = NoCmd, !.sent = 0])
  /\ mishap' = "arb_lost"
  /\ UNCHANGED took

(* A byte that finds its FIFO full is lost (RX_OVER, which the driver      *)
(* never looks at).  The target numbers the bytes it sends.                *)
CoreReceives ==
  /\ dev.fsm = "rx_byte"
  /\ IF Flagged(dev) \/ Len(dev.rx) = Depth
       THEN dev' = [dev EXCEPT !.fsm = After(dev.cmd), !.sent = @ + 1]
       ELSE dev' = [dev EXCEPT !.fsm = After(dev.cmd), !.sent = @ + 1,
                               !.rx = Append(@, dev.sent + 1)]
  /\ mishap' = IF Len(dev.rx) = Depth THEN "overrun" ELSE mishap
  /\ UNCHANGED took

CoreStops ==
  /\ dev.fsm = "gen_stop"
  /\ dev' = Settled([dev EXCEPT !.fsm = "pre_idle", !.cmd = NoCmd, !.sent = 0])
  /\ UNCHANGED <<took, mishap>>

Core ==
  /\ \/ CoreStarts \/ CoreContinues \/ CoreIsAcknowledged \/ CoreIsRefused
     \/ CoreLosesTheBus \/ CoreReceives \/ CoreStops
  /\ UNCHANGED <<late, irq, handler, registered, thread>>

-----------------------------------------------------------------------------
(* The calls of the thread                                                 *)

Polled == op.ints = 0
Size == IF stage = "tx" THEN op.n ELSE op.m
GivesUp == late' = 1
Runs(p) == handler = "none" /\ pc = p
Ends(result) == pc' = "end" /\ status' = result

RegisterHandler ==
  /\ Runs("ready") /\ registered = 0
  /\ registered' = 1 /\ irq' = [irq EXCEPT !.busy = 0]
  /\ UNCHANGED <<core, late, handler, thread>>

Call ==
  /\ Runs("ready") /\ late = 0
  /\ op' \in Calls /\ stage' = FirstStage(op')
  /\ pc' = "begin" /\ todo' = <<>> /\ status' = "success" /\ buffer' = <<>>
  /\ UNCHANGED <<core, late, irq, handler, registered>>

(* alt_avalon_i2c_enable, then the flags are cleared; with a restart the   *)
(* core is taken to be enabled by the transmit that came before.  What is  *)
(* left in irq of an earlier transaction matters no more.                  *)
Enable ==
  IF dev.en = 1
    THEN Ends("busy") /\ UNCHANGED <<core, irq, todo>>
    ELSE /\ dev' = Cleared(Enabled(dev))
         /\ took' = <<>> /\ mishap' = "none"
         /\ irq' = NoIrq
         /\ todo' = Commands(op, stage) /\ pc' = "write" /\ UNCHANGED status

Begin ==
  /\ Runs("begin")
  /\ \/ /\ ~Polled /\ registered = 0
        /\ Ends("bad_arg") /\ UNCHANGED <<core, irq, todo>>
     \/ /\ Polled \/ registered = 1
        /\ IF Restart(op, stage)
             THEN /\ todo' = Commands(op, stage) /\ pc' = "write"
                  /\ UNCHANGED <<core, irq, status>>
             ELSE Enable
  /\ UNCHANGED <<late, handler, registered, op, stage, buffer>>

\* Mutant: the command is written without waiting for room.
CmdWrite_Blind ==
  /\ Runs("write")
  /\ \/ /\ dev.en = 1
        /\ dev' = Pushed(dev, Head(todo)) /\ pc' = "check"
        /\ UNCHANGED <<took, mishap, late, status>>
     \/ /\ GivesUp
        /\ status' = "timeout" /\ pc' = "wait"
        /\ UNCHANGED core
  /\ UNCHANGED <<irq, handler, registered, op, stage, todo, buffer>>

(* alt_avalon_i2c_cmd_write                                                *)
CmdWrite ==
  /\ Runs("write")
  /\ \/ /\ TxReady
        /\ dev' = Pushed(dev, Head(todo)) /\ pc' = "check"
        /\ UNCHANGED <<took, mishap, late, status>>
     \/ /\ ~TxReady /\ GivesUp
        /\ status' = "timeout" /\ pc' = "wait"
        /\ UNCHANGED core
  /\ UNCHANGED <<irq, handler, registered, op, stage, todo, buffer>>

(* The end of a transmit or of a receive whose commands are all written.   *)
Written ==
  IF Polled /\ stage = "rx" THEN "read"
  ELSE IF ~Stop(op, stage) THEN "end"
  ELSE IF Polled THEN "wait" ELSE "arm"

Check ==
  /\ Runs("check")
  /\ status' = IF dev.arb = 1 THEN "arb_lost" ELSE IF dev.nack = 1 THEN "nack" ELSE "success"
  /\ todo' = Tail(todo)
  /\ pc' = IF status' # "success" THEN "wait"
           ELSE IF todo' = <<>> THEN Written
           ELSE IF Polled /\ Head(todo).val = 0 THEN "drain" ELSE "write"
  /\ UNCHANGED <<core, late, irq, handler, registered, op, stage, buffer>>

(* alt_avalon_i2c_rx_read_available, a byte at a time                      *)
Drain ==
  /\ Runs("drain")
  /\ IF dev.rx = <<>>
       THEN pc' = "write" /\ UNCHANGED <<dev, buffer>>
       ELSE /\ buffer' = Append(buffer, Head(dev.rx))
            /\ dev' = [dev EXCEPT !.rx = Tail(@)] /\ UNCHANGED pc
  /\ UNCHANGED <<took, mishap, late, irq, handler, registered, op, stage, todo, status>>

(* alt_avalon_i2c_rx_read until the buffer is full: when it gives up it    *)
(* still reads the empty FIFO and stores what it finds.                    *)
RxRead ==
  /\ Runs("read")
  /\ \/ /\ Len(buffer) < Size /\ dev.rx # <<>>
        /\ buffer' = Append(buffer, Head(dev.rx)) /\ dev' = [dev EXCEPT !.rx = Tail(@)]
        /\ UNCHANGED <<pc, late, status>>
     \/ /\ Len(buffer) < Size /\ dev.rx = <<>> /\ GivesUp
        /\ buffer' = Append(buffer, 0) /\ status' = "timeout" /\ pc' = "wait"
        /\ UNCHANGED dev
     \/ /\ Len(buffer) >= Size /\ pc' = "wait"
        /\ UNCHANGED <<dev, late, status, buffer>>
  /\ UNCHANGED <<took, mishap, irq, handler, registered, op, stage, todo>>

\* Mutant: the last look for a NACK is left out.
WaitIdle_NoNack ==
  /\ Runs("wait")
  /\ \/ ~Busy /\ UNCHANGED late
     \/ Busy /\ GivesUp
  /\ pc' = "end" /\ todo' = <<>>
  /\ status' = IF Busy THEN "timeout" ELSE status
  /\ dev' = Disabled(dev)
  /\ UNCHANGED <<took, mishap, irq, handler, registered, op, stage, buffer>>

\* Mutant: the core is disabled without waiting for it.
WaitIdle_AtOnce ==
  /\ Runs("wait")
  /\ UNCHANGED late
  /\ pc' = "end" /\ todo' = <<>>
  /\ status' = IF Polled /\ dev.nack = 1 THEN "nack"
               ELSE IF Busy THEN "timeout" ELSE status
  /\ dev' = Disabled(dev)
  /\ UNCHANGED <<took, mishap, irq, handler, registered, op, stage, buffer>>

(* The end of a transaction: wait until the core is idle, look for a NACK  *)
(* (the polled functions only), disable the core.                          *)
WaitIdle ==
  /\ Runs("wait")
  /\ \/ ~Busy /\ UNCHANGED late
     \/ Busy /\ GivesUp
  /\ pc' = "end" /\ todo' = <<>>
  /\ status' = IF Polled /\ dev.nack = 1 THEN "nack"
               ELSE IF Busy THEN "timeout" ELSE status
  /\ dev' = Disabled(dev)
  /\ UNCHANGED <<took, mishap, irq, handler, registered, op, stage, buffer>>

\* Mutant: the threshold of the receive FIFO is left at full.
Arm_LeavesFull ==
  /\ Runs("arm")
  /\ IF stage = "tx"
       THEN dev' = [Cleared(dev) EXCEPT !.txthd = "empty", !.iser = @ \cup {"tx_ready"}]
       ELSE dev' = [Cleared(dev) EXCEPT !.iser = @ \cup {"rx_ready"}]
  /\ irq' = [busy |-> IF stage = "tx" THEN 1 ELSE 2, call |-> op,
             size |-> IF stage = "tx" THEN irq.size ELSE op.m,
             buffer |-> IF stage = "tx" THEN irq.buffer ELSE <<>>]
  /\ pc' = "end"
  /\ UNCHANGED <<took, mishap, late, handler, registered, op, stage, todo, status, buffer>>

(* The commands are written: leave the rest to the interrupt handler.      *)
Arm ==
  /\ Runs("arm")
  /\ IF stage = "tx"
       THEN dev' = [Cleared(dev) EXCEPT !.txthd = "empty", !.iser = @ \cup {"tx_ready"}]
       ELSE dev' = [Cleared(dev) EXCEPT !.rxthd = "one", !.iser = @ \cup {"rx_ready"}]
  /\ irq' = [busy |-> IF stage = "tx" THEN 1 ELSE 2, call |-> op,
             size |-> IF stage = "tx" THEN irq.size ELSE op.m,
             buffer |-> IF stage = "tx" THEN irq.buffer ELSE <<>>]
  /\ pc' = "end"
  /\ UNCHANGED <<took, mishap, late, handler, registered, op, stage, todo, status, buffer>>

(* master_tx, master_rx and master_tx_rx: try again from the start after a *)
(* NACK, a lost arbitration or a busy core, unless the retries are used    *)
(* up; a timeout of the transmit goes on to the receive.                   *)
Retried == {"arb_lost", "nack", "busy"}

Try(s) == pc' = "begin" /\ stage' = s /\ status' = "success" /\ buffer' = <<>>

Wrapper ==
  /\ Runs("end")
  /\ \/ status \in Retried /\ Try(FirstStage(op))
     \/ status \notin Retried /\ op.kind = "tx_rx" /\ stage = "tx" /\ Try("rx")
     \/ /\ status \in Retried \/ op.kind # "tx_rx" \/ stage = "rx"
        /\ pc' = "done" /\ UNCHANGED <<stage, status, buffer>>
  /\ UNCHANGED <<core, late, irq, handler, registered, op, todo>>

Return ==
  /\ Runs("done")
  /\ pc' = "ready" /\ op' = NoCall /\ stage' = "tx" /\ status' = "success" /\ buffer' = <<>>
  /\ UNCHANGED <<core, late, irq, handler, registered, todo>>

(* alt_avalon_i2c_interrupt_transaction_status: a NACK aborts what is      *)
(* still under way.                                                        *)
Query ==
  /\ Runs("ready") /\ registered = 1
  /\ stage' = "query"
  /\ \/ /\ dev.nack = 1
        /\ dev' = [dev EXCEPT !.iser = {}]
        /\ pc' = (IF irq.busy = 0 THEN "done" ELSE "abort") /\ status' = "nack"
     \/ /\ dev.nack = 0 /\ irq.busy # 0
        /\ pc' = "done" /\ status' = "busy" /\ UNCHANGED dev
     \/ /\ dev.nack = 0 /\ irq.busy = 0
        /\ dev' = [dev EXCEPT !.iser = {}]
        /\ pc' = "done" /\ status' = "success"
  /\ UNCHANGED <<took, mishap, late, irq, handler, registered, op, todo, buffer>>

Abort ==
  /\ Runs("abort")
  /\ \/ ~Busy /\ UNCHANGED <<late, status>>
     \/ Busy /\ GivesUp /\ status' = "timeout"
  /\ dev' = Disabled([dev EXCEPT !.rx = <<>>])
  /\ irq' = NoIrq
  /\ pc' = "done"
  /\ UNCHANGED <<took, mishap, handler, registered, op, stage, todo, buffer>>

Thread ==
  \/ RegisterHandler \/ Call \/ Begin \/ CmdWrite \/ Check \/ Drain \/ RxRead
  \/ WaitIdle \/ Arm \/ Wrapper \/ Return \/ Query \/ Abort

-----------------------------------------------------------------------------
(* The interrupt handler: alt_avalon_i2c_irq and optional_irq_callback     *)

Interrupt ==
  /\ handler = "none"
  /\ \/ "tx_ready" \in dev.iser /\ TxReady
     \/ "rx_ready" \in dev.iser /\ RxReady
  /\ dev' = [Cleared(dev) EXCEPT !.iser = {}]
  /\ handler' = IF irq.busy = 2 THEN "drain" ELSE "wait"
  /\ UNCHANGED <<took, mishap, late, irq>>

HandlerReads ==
  /\ handler = "drain"
  /\ dev.rx # <<>> /\ irq.size > 0
  /\ irq' = [irq EXCEPT !.size = @ - 1, !.buffer = Append(@, Head(dev.rx))]
  /\ dev' = [dev EXCEPT !.rx = Tail(@)]
  /\ UNCHANGED <<took, mishap, late, handler>>

(* Bytes are still missing: wait for the next one.                         *)
HandlerRearms ==
  /\ handler = "drain"
  /\ dev.rx = <<>> /\ irq.size > 0
  /\ dev' = [Cleared(dev) EXCEPT !.iser = @ \cup {"rx_ready"}]
  /\ handler' = "none"
  /\ UNCHANGED <<took, mishap, late, irq>>

HandlerHasAll ==
  /\ handler = "drain"
  /\ irq.size = 0 /\ handler' = "wait"
  /\ UNCHANGED <<core, late, irq>>

\* Mutant: the handler does not wait for the last byte to be on the bus.
HandlerFinishes_AtOnce ==
  /\ handler = "wait"
  /\ UNCHANGED late
  /\ dev' = Disabled(dev)
  /\ irq' = [irq EXCEPT !.busy = 0] /\ handler' = "none"
  /\ UNCHANGED <<took, mishap>>

HandlerFinishes ==
  /\ handler = "wait"
  /\ \/ ~Busy /\ UNCHANGED late
     \/ Busy /\ GivesUp
  /\ dev' = Disabled(dev)
  /\ irq' = [irq EXCEPT !.busy = 0] /\ handler' = "none"
  /\ UNCHANGED <<took, mishap>>

Handler ==
  /\ \/ Interrupt \/ HandlerReads \/ HandlerRearms \/ HandlerHasAll \/ HandlerFinishes
  /\ UNCHANGED <<registered, thread>>

-----------------------------------------------------------------------------
(* alt_avalon_i2c_init has run.                                            *)
Init ==
  /\ dev = [en |-> 0, txthd |-> "not_full", rxthd |-> "full", iser |-> {},
            nack |-> 0, arb |-> 0, tx |-> <<>>, rx |-> <<>>, fsm |-> "idle",
            cmd |-> NoCmd, rw |-> Write, sent |-> 0]
  /\ took = <<>> /\ mishap = "none" /\ late = 0
  /\ irq = NoIrq
  /\ handler = "none" /\ registered = 0
  /\ pc = "ready" /\ op = NoCall /\ stage = "tx" /\ todo = <<>>
  /\ status = "success" /\ buffer = <<>>

Next == Core \/ Thread \/ Handler

Spec == Init /\ [][Next]_vars

(* The bus moves on and a pending interrupt is taken.                      *)
FairSpec == Spec /\ WF_vars(Core) /\ WF_vars(Handler)

-----------------------------------------------------------------------------
(* Properties                                                              *)

(* Every variable keeps to the values the registers and the code give it.  *)
TypeOK ==
  /\ dev.en \in {0, 1} /\ dev.nack \in {0, 1} /\ dev.arb \in {0, 1}
  /\ dev.txthd \in {"empty", "not_full"} /\ dev.rxthd \in {"one", "full"}
  /\ dev.iser \subseteq {"tx_ready", "rx_ready"}
  /\ Len(dev.tx) <= Depth /\ Len(dev.rx) <= Depth
  /\ irq.busy \in 0..2 /\ irq.size \in Nat
  /\ handler \in {"none", "drain", "wait"}
  /\ pc \in {"ready", "begin", "write", "check", "drain", "read", "wait", "arm",
             "end", "done", "abort"}
  /\ op \in Calls \cup {NoCall} /\ stage \in {"tx", "rx", "query"}
  /\ status \in {"success", "busy", "nack", "arb_lost", "timeout", "bad_arg"}
  /\ mishap \in {"none", "nack", "arb_lost", "overrun"}

(* A polled call that returns success has been played on the bus to its    *)
(* last byte: every byte of it was acknowledged, and what it stored is     *)
(* what the target sent, in order and no more; unless another master won   *)
(* the bus after the last look at the flags, or a wait has given up.       *)
SuccessIsDone ==
  pc = "done" /\ Polled /\ stage # "query" /\ status = "success" /\ late = 0 /\ dev.arb = 0
    => /\ took = Played(op)
       /\ op.kind # "tx" => buffer = UpTo(op.m)

(* Whatever the outcome of a polled call, nothing of it is left behind:    *)
(* the core is disabled and idle, so that the next call can have it, and   *)
(* both FIFOs are empty, so that the next call does not read or play what  *)
(* belongs to this one.                                                    *)
LeavesNothing ==
  pc = "done" /\ Polled /\ stage # "query" /\ status # "busy"
    => /\ dev.en = 0
       /\ late = 0 => dev.fsm = "idle" /\ dev.tx = <<>> /\ dev.rx = <<>>

(* A transaction left to the handler and finished without mishap, be it a   *)
(* refusal, a lost bus or an overrun of the receive FIFO, is whole.        *)
HandedOverIsDone ==
  irq.call # NoCall /\ irq.busy = 0 /\ mishap = "none" /\ late = 0
    => /\ took = Played(irq.call)
       /\ irq.call.kind # "tx" => irq.buffer = UpTo(irq.call.m)

(* A transaction left to the handler ends, unless the bus refuses it or    *)
(* somebody else gets the bus.  It is said of receives that fit in the     *)
(* FIFO only: all their commands are written before the interrupt that     *)
(* drains the FIFO is enabled (lines 917-927, 954-962), so that a longer   *)
(* one may lose bytes that it then waits for, though the bus refused       *)
(* nothing.                                                                *)
TransactionEnds ==
  irq.busy # 0 /\ irq.call.m <= Depth
    ~> irq.busy = 0 \/ mishap \in {"nack", "arb_lost"}
=============================================================================
