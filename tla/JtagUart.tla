------------------------------ MODULE JtagUart ------------------------------
(***************************************************************************)
(* The interrupt driven driver of the JTAG UART, as it is built: without   *)
(* an operating system (semaphores and event flags are empty macros, calls *)
(* spin), one thread, and interrupts that do not nest.                     *)
(*                                                                         *)
(* One thread is in one call at a time (op).  Between any two of its steps *)
(* an interrupt may run the handler, which stops the thread until it is    *)
(* done; the host and the device go on meanwhile.  A section with          *)
(* interrupts disabled is one step.  The alarm's callback runs in the      *)
(* timer interrupt, so it is one step too.  The device, its two FIFOs and  *)
(* the host at the other end are external.                                 *)
(***************************************************************************)
EXTENDS Integers, Sequences, FiniteSets

CONSTANTS
  Bytes,
  BUF_LEN,              \* ALTERA_AVALON_JTAG_UART_BUF_LEN
  RxDepth, TxDepth,     \* the device's FIFOs
  DEFAULT_TIMEOUT,      \* ALTERA_AVALON_JTAG_UART_DEFAULT_TIMEOUT
  INT_MAX,
  MaxCount,             \* bound: the longest read or write asked for
  Timeouts,             \* bound: arguments of TIOCSTIMEOUT
  TickRates             \* alt_ticks_per_second() when the driver is set up

ASSUME UartConstants ==
  /\ BUF_LEN \in Nat /\ BUF_LEN >= 2
  /\ RxDepth \in Nat \ {0} /\ TxDepth \in Nat \ {0}
  /\ INT_MAX \in Nat /\ INT_MAX >= 4
  /\ DEFAULT_TIMEOUT \in 2 .. INT_MAX - 1
  /\ MaxCount \in Nat \ {0}
  /\ Timeouts \subseteq Int
  /\ TickRates \subseteq Nat

VARIABLES
  \* The device and the host.
  hw_rx, hw_tx,         \* the FIFOs, oldest byte first
  ac,                   \* the host was active since this bit was last cleared
  \* altera_avalon_jtag_uart_state; irq_enable is in the device's register too.
  irq_enable, timeout, host_inactive,
  rx_in, rx_out, tx_in, tx_out, rx_buf, tx_buf,
  \* The handler: where it is, and what it read of the device.
  isr, wi, space, ravail,
  \* The thread: its call, whether it is O_NONBLOCK, the bytes still to move
  \* and already moved, the piece being copied, the index it waits on, and
  \* what the last call returned.
  op, nonblock, left, moved, piece, seen, result

device == <<hw_rx, hw_tx, ac>>
settings == <<timeout, host_inactive>>
rx_ring == <<rx_in, rx_out, rx_buf>>
tx_ring == <<tx_in, tx_out, tx_buf>>
handler == <<isr, wi, space, ravail>>
thread == <<op, nonblock, left, moved, piece, seen, result>>
vars == <<device, irq_enable, settings, rx_ring, tx_ring, handler, thread>>

-----------------------------------------------------------------------------
(* The device's interrupts and the rings. *)

RI == "RE" \in irq_enable /\ hw_rx # <<>>
WI == "WE" \in irq_enable /\ Len(hw_tx) < TxDepth

Slots == 0 .. BUF_LEN - 1

\* The number of bytes in a ring, the slot of its k-th byte, and its bytes.
Filled(in, out) == IF in >= out THEN in - out ELSE in - out + BUF_LEN
Slot(out, k) == (out + k - 1) % BUF_LEN
Ring(buf, in, out) == [k \in 1 .. Filled(in, out) |-> buf[Slot(out, k)]]

EIO == 5
EWOULDBLOCK == 11
ENOTTY == 25

AtMost(n, m) == IF n > m THEN m ELSE n

\* How much of rx_buf can be copied in one piece.
Readable(in, out) == IF in >= out THEN in - out ELSE BUF_LEN - out

\* How much room of tx_buf can be filled in one piece.
Writable(in, out) ==
  IF in < out THEN out - 1 - in
  ELSE IF out > 0 THEN BUF_LEN - in
  ELSE BUF_LEN - 1 - in

-----------------------------------------------------------------------------
\* altera_avalon_jtag_uart_init: receive interrupts are on; without a system
\* clock the alarm cannot be started, and timeout says so.
Init ==
  /\ hw_rx = <<>> /\ hw_tx = <<>> /\ ac \in {0, 1}
  /\ irq_enable = {"RE"}
  /\ \E rate \in TickRates : timeout = IF rate > 0 THEN DEFAULT_TIMEOUT ELSE INT_MAX
  /\ host_inactive = 0
  /\ rx_in = 0 /\ rx_out = 0 /\ tx_in = 0 /\ tx_out = 0
  /\ \E b \in Bytes : rx_buf = [s \in Slots |-> b] /\ tx_buf = [s \in Slots |-> b]
  /\ isr = "off" /\ wi = 0 /\ space = 0 /\ ravail = 0
  /\ op = "idle" /\ nonblock = 0 /\ left = 0 /\ moved = 0
  /\ piece = <<>> /\ seen = 0 /\ result = 0

-----------------------------------------------------------------------------
(* The host. *)

HostSends(b) ==
  /\ Len(hw_rx) < RxDepth
  /\ hw_rx' = Append(hw_rx, b)
  /\ ac' = 1
  /\ UNCHANGED <<hw_tx, irq_enable, settings, rx_ring, tx_ring, handler, thread>>

HostTakes ==
  /\ hw_tx # <<>>
  /\ hw_tx' = Tail(hw_tx)
  /\ ac' = 1
  /\ UNCHANGED <<hw_rx, irq_enable, settings, rx_ring, tx_ring, handler, thread>>

\* The host asks whether there is anything for it.
HostPolls ==
  /\ ac = 0 /\ ac' = 1
  /\ UNCHANGED <<hw_rx, hw_tx, irq_enable, settings, rx_ring, tx_ring,
                 handler, thread>>

-----------------------------------------------------------------------------
(* altera_avalon_jtag_uart_irq. *)

\* The interrupt is taken, or the handler looks again: the control register
\* says what there is to do, and how much room.
IrqControl ==
  /\ isr = "control" \/ (isr = "off" /\ (RI \/ WI))
  /\ isr' = IF RI THEN "receive" ELSE IF WI THEN "transmit" ELSE "off"
  /\ ravail' = IF RI THEN 1 ELSE 0
  /\ wi' = IF WI THEN 1 ELSE 0
  /\ space' = IF WI THEN TxDepth - Len(hw_tx) ELSE 0
  /\ UNCHANGED <<device, irq_enable, settings, rx_ring, tx_ring, thread>>

\* One byte from the device to rx_buf, while there is room.
IrqReceive ==
  /\ isr = "receive"
  /\ (rx_in + 1) % BUF_LEN # rx_out /\ hw_rx # <<>>
  /\ rx_buf' = [rx_buf EXCEPT ![rx_in] = Head(hw_rx)]
  /\ rx_in' = (rx_in + 1) % BUF_LEN
  /\ hw_rx' = Tail(hw_rx)
  /\ ravail' = IF Len(hw_rx) > 1 THEN 1 ELSE 0
  /\ UNCHANGED <<hw_tx, ac, irq_enable, settings, rx_out, tx_ring, isr, wi,
                 space, thread>>

\* Mutant: receive interrupts go off whenever the handler stops.
IrqReceived_AlwaysOff ==
  /\ isr = "receive"
  /\ (rx_in + 1) % BUF_LEN = rx_out \/ hw_rx = <<>>
  /\ irq_enable' = irq_enable \ {"RE"}
  /\ isr' = IF wi = 1 THEN "transmit" ELSE "control"
  /\ ravail' = 0
  /\ UNCHANGED <<device, settings, rx_ring, tx_ring, wi, space, thread>>

\* The buffer is full, or the device is empty: an empty device answers the
\* last read with RAVAIL 0.  What is left turns receive interrupts off.
IrqReceived ==
  /\ isr = "receive"
  /\ (rx_in + 1) % BUF_LEN = rx_out \/ hw_rx = <<>>
  /\ LET full == (rx_in + 1) % BUF_LEN = rx_out
     IN  irq_enable' = IF full /\ ravail = 1 THEN irq_enable \ {"RE"} ELSE irq_enable
  /\ isr' = IF wi = 1 THEN "transmit" ELSE "control"
  /\ ravail' = 0
  /\ UNCHANGED <<device, settings, rx_ring, tx_ring, wi, space, thread>>

\* Mutant: tx_out goes on before the byte is fetched.
IrqTransmit_NextByte ==
  /\ isr = "transmit"
  /\ space > 0 /\ tx_out # tx_in
  /\ tx_out' = (tx_out + 1) % BUF_LEN
  /\ hw_tx' = IF Len(hw_tx) < TxDepth THEN Append(hw_tx, tx_buf[tx_out']) ELSE hw_tx
  /\ space' = space - 1
  /\ UNCHANGED <<hw_rx, ac, irq_enable, settings, rx_ring, tx_in, tx_buf,
                 isr, wi, ravail, thread>>

\* One byte from tx_buf to the device; a full FIFO would drop it.
IrqTransmit ==
  /\ isr = "transmit"
  /\ space > 0 /\ tx_out # tx_in
  /\ hw_tx' = IF Len(hw_tx) < TxDepth THEN Append(hw_tx, tx_buf[tx_out]) ELSE hw_tx
  /\ tx_out' = (tx_out + 1) % BUF_LEN
  /\ space' = space - 1
  /\ UNCHANGED <<hw_rx, ac, irq_enable, settings, rx_ring, tx_in, tx_buf,
                 isr, wi, ravail, thread>>

\* With room left there is nothing to send: no more transmit interrupts.
IrqTransmitted ==
  /\ isr = "transmit"
  /\ space = 0 \/ tx_out = tx_in
  /\ irq_enable' = IF space > 0 THEN irq_enable \ {"WE"} ELSE irq_enable
  /\ isr' = "control" /\ wi' = 0 /\ space' = 0
  /\ UNCHANGED <<device, settings, rx_ring, tx_ring, ravail, thread>>

Irq == IrqControl \/ IrqReceive \/ IrqReceived \/ IrqTransmit \/ IrqTransmitted

\* altera_avalon_jtag_uart_timeout, once a second if the alarm was started.
TimeoutCallback ==
  /\ isr = "off" /\ timeout # INT_MAX
  /\ ac' = 0
  /\ host_inactive' = IF ac = 1 THEN 0
                      ELSE IF host_inactive < INT_MAX - 2 THEN host_inactive + 1
                      ELSE host_inactive
  /\ UNCHANGED <<hw_rx, hw_tx, irq_enable, timeout, rx_ring, tx_ring, handler, thread>>

-----------------------------------------------------------------------------
(* The thread.  A call's result is a number of bytes or the name of an error. *)

Running(at) == isr = "off" /\ op = at

Call(at, count, flag) ==
  /\ Running("idle")
  /\ op' = at /\ left' = count /\ nonblock' = flag /\ moved' = 0 /\ result' = 0
  /\ UNCHANGED <<device, irq_enable, settings, rx_ring, tx_ring, handler, piece,
                 seen>>

Return(value) ==
  /\ op' = "idle" /\ result' = value
  /\ nonblock' = 0 /\ left' = 0 /\ moved' = 0 /\ piece' = <<>> /\ seen' = 0

ReadCall(count, flag) == Call("read", count, flag)
WriteCall(count, flag) == Call("write", count, flag)
CloseCall(flag) == Call("close", 0, flag)

\* Mutant: every piece is copied from the beginning of rx_buf.
ReadCopy_FromStart ==
  /\ Running("read")
  /\ LET n == AtMost(Readable(rx_in, rx_out), left)
     IN  /\ n > 0
         /\ piece' = [k \in 1 .. n |-> rx_buf[k - 1]]
         /\ left' = left - n /\ moved' = moved + n
  /\ op' = "read_release"
  /\ UNCHANGED <<device, irq_enable, settings, rx_ring, tx_ring, handler,
                 nonblock, seen, result>>

\* read: copy what can be copied in one piece.
ReadCopy ==
  /\ Running("read")
  /\ LET n == AtMost(Readable(rx_in, rx_out), left)
     IN  /\ n > 0
         /\ piece' = [k \in 1 .. n |-> rx_buf[rx_out + k - 1]]
         /\ left' = left - n /\ moved' = moved + n
  /\ op' = "read_release"
  /\ UNCHANGED <<device, irq_enable, settings, rx_ring, tx_ring, handler,
                 nonblock, seen, result>>

ReadRelease ==
  /\ Running("read_release")
  /\ rx_out' = (rx_out + Len(piece)) % BUF_LEN
  /\ piece' = <<>>
  /\ op' = IF left > 0 THEN "read" ELSE "read_enable"
  /\ UNCHANGED <<device, irq_enable, settings, rx_in, rx_buf, tx_ring, handler,
                 nonblock, left, moved, seen, result>>

\* Nothing (more) to copy: return what there is, or wait for rx_in to move.
ReadEmpty ==
  /\ Running("read") /\ rx_in = rx_out
  /\ \/ /\ moved > 0
        /\ op' = "read_enable"
        /\ UNCHANGED <<nonblock, left, moved, piece, seen, result>>
     \/ moved = 0 /\ nonblock = 1 /\ Return(-EWOULDBLOCK)
     \/ /\ moved = 0 /\ nonblock = 0
        /\ op' = "read_wait" /\ seen' = rx_in
        /\ UNCHANGED <<nonblock, left, moved, piece, result>>
  /\ UNCHANGED <<device, irq_enable, settings, rx_ring, tx_ring, handler>>

ReadWait ==
  /\ Running("read_wait")
  /\ \/ /\ seen # rx_in
        /\ op' = "read"
        /\ UNCHANGED <<nonblock, left, moved, piece, seen, result>>
     \/ seen = rx_in /\ host_inactive >= timeout /\ Return(-EIO)
  /\ UNCHANGED <<device, irq_enable, settings, rx_ring, tx_ring, handler>>

\* There is room in rx_buf now, so receive interrupts go on again.
ReadEnable ==
  /\ Running("read_enable")
  /\ irq_enable' = irq_enable \cup {"RE"}
  /\ Return(moved)
  /\ UNCHANGED <<device, settings, rx_ring, tx_ring, handler>>

\* write: fill what can be filled in one piece; any data may be asked for.
WriteCopy ==
  /\ Running("write") /\ left > 0
  /\ LET n == AtMost(Writable(tx_in, tx_out), left)
     IN  /\ n > 0
         /\ \E data \in [1 .. n -> Bytes] :
              /\ tx_buf' = [s \in Slots |-> IF s \in tx_in .. tx_in + n - 1
                                              THEN data[s - tx_in + 1] ELSE tx_buf[s]]
              /\ piece' = data
         /\ left' = left - n /\ moved' = moved + n
  /\ op' = "write_publish"
  /\ UNCHANGED <<device, irq_enable, settings, rx_ring, tx_in, tx_out, handler,
                 nonblock, seen, result>>

WritePublish ==
  /\ Running("write_publish")
  /\ tx_in' = (tx_in + Len(piece)) % BUF_LEN
  /\ piece' = <<>>
  /\ op' = "write"
  /\ UNCHANGED <<device, irq_enable, settings, rx_ring, tx_out, tx_buf, handler,
                 nonblock, left, moved, seen, result>>

\* All is in tx_buf, or tx_buf is full; out keeps the index that was read.
WriteFull ==
  /\ Running("write") /\ (left = 0 \/ Writable(tx_in, tx_out) = 0)
  /\ op' = "write_enable" /\ seen' = tx_out
  /\ UNCHANGED <<device, irq_enable, settings, rx_ring, tx_ring, handler,
                 nonblock, left, moved, piece, result>>

\* What a write that stops before its end returns.
Short == IF moved > 0 THEN moved ELSE IF nonblock = 1 THEN -EWOULDBLOCK ELSE -EIO

\* Mutant: the handler is kicked only by a writer that has to wait.
WriteEnable_IfWaiting ==
  /\ Running("write_enable")
  /\ irq_enable' = IF left > 0 THEN irq_enable \cup {"WE"} ELSE irq_enable
  /\ \/ (left = 0 \/ nonblock = 1) /\ Return(Short)
     \/ /\ left > 0 /\ nonblock = 0
        /\ op' = "write_wait"
        /\ UNCHANGED <<nonblock, left, moved, piece, seen, result>>
  /\ UNCHANGED <<device, settings, rx_ring, tx_ring, handler>>

WriteEnable ==
  /\ Running("write_enable")
  /\ irq_enable' = irq_enable \cup {"WE"}
  /\ \/ (left = 0 \/ nonblock = 1) /\ Return(Short)
     \/ /\ left > 0 /\ nonblock = 0
        /\ op' = "write_wait"
        /\ UNCHANGED <<nonblock, left, moved, piece, seen, result>>
  /\ UNCHANGED <<device, settings, rx_ring, tx_ring, handler>>

\* Mutant: an absent host is noticed only when there is room again.
WriteWait_ForRoom ==
  /\ Running("write_wait")
  /\ seen # tx_out
  /\ \/ host_inactive # 0 /\ Return(Short)
     \/ /\ host_inactive = 0
        /\ op' = "write"
        /\ UNCHANGED <<nonblock, left, moved, piece, seen, result>>
  /\ UNCHANGED <<device, irq_enable, settings, rx_ring, tx_ring, handler>>

WriteWait ==
  /\ Running("write_wait")
  /\ seen # tx_out \/ host_inactive >= timeout
  /\ \/ host_inactive # 0 /\ Return(Short)
     \/ /\ host_inactive = 0
        /\ op' = "write"
        /\ UNCHANGED <<nonblock, left, moved, piece, seen, result>>
  /\ UNCHANGED <<device, irq_enable, settings, rx_ring, tx_ring, handler>>

\* close drains tx_buf; without a host what is in it is given up.
CloseWait ==
  /\ Running("close")
  /\ \/ (tx_out = tx_in \/ host_inactive >= timeout) /\ Return(0)
     \/ ~(tx_out = tx_in \/ host_inactive >= timeout) /\ nonblock = 1 /\ Return(-EWOULDBLOCK)
  /\ UNCHANGED <<device, irq_enable, settings, rx_ring, tx_ring, handler>>

\* ioctl: TIOCSTIMEOUT; TIOCGCONNECTED.  Neither is there without the alarm.
IoctlTimeout(arg) ==
  /\ Running("idle")
  /\ result' = IF timeout = INT_MAX THEN -ENOTTY ELSE 0
  /\ timeout' = IF timeout = INT_MAX THEN timeout
                ELSE IF arg >= 2 /\ arg < INT_MAX THEN arg ELSE INT_MAX - 1
  /\ UNCHANGED <<device, irq_enable, host_inactive, rx_ring, tx_ring, handler, op,
                 nonblock, left, moved, piece, seen>>

IoctlConnected ==
  /\ Running("idle")
  /\ result' = IF timeout = INT_MAX THEN -ENOTTY
               ELSE IF host_inactive < timeout THEN 1 ELSE 0
  /\ UNCHANGED <<device, irq_enable, settings, rx_ring, tx_ring, handler, op,
                 nonblock, left, moved, piece, seen>>

Start ==
  \/ \E count \in 1 .. MaxCount, flag \in {0, 1} : ReadCall(count, flag) \/ WriteCall(count, flag)
  \/ \E flag \in {0, 1} : CloseCall(flag)
  \/ \E arg \in Timeouts : IoctlTimeout(arg)
  \/ IoctlConnected

\* The thread goes on with its call.
Continue ==
  \/ ReadCopy \/ ReadRelease \/ ReadEmpty \/ ReadWait \/ ReadEnable
  \/ WriteCopy \/ WritePublish \/ WriteFull \/ WriteEnable \/ WriteWait
  \/ CloseWait

Next ==
  \/ \E b \in Bytes : HostSends(b)
  \/ HostTakes \/ HostPolls
  \/ Irq \/ TimeoutCallback
  \/ Start \/ Continue

Spec == Init /\ [][Next]_vars

\* The processor never stops: the handler and the thread go on, and the timer
\* interrupt keeps coming.  Nothing is assumed of the host.
FairSpec == Spec /\ WF_vars(Irq) /\ WF_vars(Continue) /\ WF_vars(TimeoutCallback)

-----------------------------------------------------------------------------
(* Properties. *)

\* Every index, count and flag keeps its range; host_inactive stops short of
\* the timeouts that stand for waiting for ever.
TypeOK ==
  /\ hw_rx \in Seq(Bytes) /\ Len(hw_rx) <= RxDepth
  /\ hw_tx \in Seq(Bytes) /\ Len(hw_tx) <= TxDepth
  /\ ac \in {0, 1}
  /\ irq_enable \subseteq {"RE", "WE"}
  /\ timeout \in 2 .. INT_MAX /\ host_inactive \in 0 .. INT_MAX - 2
  /\ timeout = INT_MAX => host_inactive = 0
  /\ rx_in \in Slots /\ rx_out \in Slots /\ tx_in \in Slots /\ tx_out \in Slots
  /\ rx_buf \in [Slots -> Bytes] /\ tx_buf \in [Slots -> Bytes]
  /\ isr \in {"off", "control", "receive", "transmit"}
  /\ wi \in {0, 1} /\ ravail \in {0, 1}
  /\ space \in 0 .. TxDepth /\ space <= TxDepth - Len(hw_tx)
  /\ op \in {"idle", "read", "read_release", "read_wait", "read_enable", "write",
             "write_publish", "write_enable", "write_wait", "close"}
  /\ nonblock \in {0, 1} /\ left \in 0 .. MaxCount /\ moved \in 0 .. MaxCount
  /\ piece \in Seq(Bytes) /\ Len(piece) < BUF_LEN
  /\ seen \in Slots /\ result \in Int

\* What is on its way, oldest byte first.
Incoming == Ring(rx_buf, rx_in, rx_out) \o hw_rx
Outgoing == hw_tx \o Ring(tx_buf, tx_in, tx_out)

\* The receive path is a channel, whatever the interleaving of handler, thread
\* and host: only the host adds to it, and only a reader takes from it, exactly
\* the bytes it has copied, though rx_in has moved and wrapped since.
ReceivesInOrder ==
  [][ \/ \E b \in Bytes : HostSends(b) /\ Incoming' = Append(Incoming, b)
      \/ ReadRelease /\ Incoming = piece \o Incoming'
      \/ UNCHANGED Incoming ]_vars

\* So is the transmit path: a writer adds what it was given, the host takes one
\* byte after the other, and the handler neither drops nor overtakes one.
TransmitsInOrder ==
  [][ \/ WritePublish /\ Outgoing' = Outgoing \o piece
      \/ HostTakes /\ Outgoing' = Tail(Outgoing)
      \/ UNCHANGED Outgoing ]_vars

\* Receive interrupts are off only while rx_buf is full, or while a reader that
\* made room is on its way to turn them on: a byte in the device is never
\* left there with nobody to fetch it.
ReceiverArmed ==
  \/ "RE" \in irq_enable
  \/ Filled(rx_in, rx_out) = BUF_LEN - 1
  \/ op \in {"read", "read_release", "read_enable"} /\ moved > 0

\* Transmit interrupts are on whenever there is something to transmit, or a
\* writer is on its way to turn them on.
TransmitterArmed ==
  tx_in # tx_out => "WE" \in irq_enable \/ op \in {"write", "write_publish", "write_enable"}

\* A call that waits for a host that has gone comes back, if the alarm was
\* started and the application has not asked to wait for ever.
GoneHostIsNoticed ==
  <>[](ac = 0 /\ timeout < INT_MAX - 1) => []<>(op = "idle")
=============================================================================
