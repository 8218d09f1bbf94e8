-------------------------- MODULE JtagUartProofs --------------------------
(***************************************************************************)
(* Theorems about the JTAG UART driver, for rings and FIFOs of every size, *)
(* every set of bytes and calls of every length.                           *)
(***************************************************************************)
EXTENDS JtagUart, SequenceTheorems, TLAPS

USE DEF Slots

-----------------------------------------------------------------------------
(* Indices of a ring. *)

LEMMA WrapSmall == ASSUME NEW x \in Nat, x < BUF_LEN PROVE x % BUF_LEN = x
  BY UartConstants

LEMMA WrapLarge ==
  ASSUME NEW x \in Nat, x >= BUF_LEN, x < 2 * BUF_LEN
  PROVE  x % BUF_LEN = x - BUF_LEN
  BY UartConstants

\* An index moved on by less than a turn.
LEMMA Wrap ==
  ASSUME NEW i \in Slots, NEW n \in 0 .. BUF_LEN
  PROVE  /\ (i + n) % BUF_LEN \in Slots
         /\ i + n < BUF_LEN => (i + n) % BUF_LEN = i + n
         /\ i + n >= BUF_LEN => (i + n) % BUF_LEN = i + n - BUF_LEN
<1>1. CASE i + n < BUF_LEN
  BY <1>1, WrapSmall, UartConstants
<1>2. CASE i + n >= BUF_LEN
  <2>1. i + n \in Nat /\ i + n < 2 * BUF_LEN  BY UartConstants
  <2> QED  BY <1>2, <2>1, WrapLarge, UartConstants
<1> QED  BY <1>1, <1>2, UartConstants

\* Filled and Slot without a remainder.
LEMMA FilledRange ==
  ASSUME NEW in \in Slots, NEW out \in Slots
  PROVE  /\ Filled(in, out) \in 0 .. BUF_LEN - 1
         /\ Filled(in, out) = 0 <=> in = out
  BY UartConstants DEF Filled

LEMMA Full ==
  ASSUME NEW in \in Slots, NEW out \in Slots
  PROVE  (in + 1) % BUF_LEN = out <=> Filled(in, out) = BUF_LEN - 1
<1>1. 1 \in 0 .. BUF_LEN  BY UartConstants
<1> DEFINE next == (in + 1) % BUF_LEN
<1>2. /\ next \in Slots
      /\ in + 1 < BUF_LEN => next = in + 1
      /\ in + 1 >= BUF_LEN => next = in + 1 - BUF_LEN
  BY <1>1, Wrap
<1> HIDE DEF next
<1>3. next = out <=> Filled(in, out) = BUF_LEN - 1
  BY <1>2, UartConstants DEF Filled
<1> QED  BY <1>3 DEF next

LEMMA SlotRange ==
  ASSUME NEW out \in Slots, NEW k \in 1 .. BUF_LEN
  PROVE  /\ Slot(out, k) \in Slots
         /\ out + k - 1 < BUF_LEN => Slot(out, k) = out + k - 1
         /\ out + k - 1 >= BUF_LEN => Slot(out, k) = out + k - 1 - BUF_LEN
<1> DEFINE j == k - 1
<1>1. j \in 0 .. BUF_LEN /\ out + k - 1 = out + j  BY UartConstants
<1>2. Slot(out, k) = (out + j) % BUF_LEN  BY <1>1 DEF Slot
<1> HIDE DEF j
<1>3. /\ (out + j) % BUF_LEN \in Slots
      /\ out + j < BUF_LEN => (out + j) % BUF_LEN = out + j
      /\ out + j >= BUF_LEN => (out + j) % BUF_LEN = out + j - BUF_LEN
  BY <1>1, Wrap
<1> QED  BY <1>1, <1>2, <1>3

\* in moves on by n, where n slots are free without wrapping.
LEMMA FilledGrows ==
  ASSUME NEW in \in Slots, NEW out \in Slots, NEW n \in Nat,
         in + n <= BUF_LEN, Filled(in, out) + n <= BUF_LEN - 1
  PROVE  /\ (in + n) % BUF_LEN \in Slots
         /\ Filled((in + n) % BUF_LEN, out) = Filled(in, out) + n
         /\ \A k \in 1 .. n : Slot(out, Filled(in, out) + k) = in + k - 1
<1> DEFINE in2 == (in + n) % BUF_LEN
<1>1. /\ in2 \in Slots
      /\ in + n < BUF_LEN => in2 = in + n
      /\ in + n >= BUF_LEN => in2 = in + n - BUF_LEN
  <2>1. n \in 0 .. BUF_LEN  BY UartConstants
  <2> QED  BY <2>1, Wrap
<1> HIDE DEF in2
<1>2. Filled(in2, out) = Filled(in, out) + n  BY <1>1, UartConstants DEF Filled
<1>3. ASSUME NEW k \in 1 .. n PROVE Slot(out, Filled(in, out) + k) = in + k - 1
  <2> DEFINE j == Filled(in, out) + k
  <2>1. j \in 1 .. BUF_LEN  BY FilledRange, UartConstants
  <2>2. /\ out + j - 1 < BUF_LEN => Slot(out, j) = out + j - 1
        /\ out + j - 1 >= BUF_LEN => Slot(out, j) = out + j - 1 - BUF_LEN
    BY <2>1, SlotRange
  <2>3. in >= out => j = in - out + k  BY DEF Filled
  <2>4. in < out => j = in - out + BUF_LEN + k  BY DEF Filled
  <2> HIDE DEF j
  <2>5. Slot(out, j) = in + k - 1  BY <2>1, <2>2, <2>3, <2>4, UartConstants
  <2> QED  BY <2>5 DEF j
<1> QED  BY <1>1, <1>2, <1>3 DEF in2

\* out moves on by n, past n bytes.
LEMMA FilledShrinks ==
  ASSUME NEW in \in Slots, NEW out \in Slots, NEW n \in Nat, n <= Filled(in, out)
  PROVE  /\ (out + n) % BUF_LEN \in Slots
         /\ Filled(in, (out + n) % BUF_LEN) = Filled(in, out) - n
         /\ \A k \in 1 .. Filled(in, out) - n :
              Slot((out + n) % BUF_LEN, k) = Slot(out, n + k)
<1> DEFINE out2 == (out + n) % BUF_LEN
<1>1. /\ out2 \in Slots
      /\ out + n < BUF_LEN => out2 = out + n
      /\ out + n >= BUF_LEN => out2 = out + n - BUF_LEN
  <2>1. n \in 0 .. BUF_LEN  BY FilledRange, UartConstants
  <2> QED  BY <2>1, Wrap
<1> HIDE DEF out2
<1>2. Filled(in, out2) = Filled(in, out) - n  BY <1>1, UartConstants DEF Filled
<1>3. ASSUME NEW k \in 1 .. Filled(in, out) - n PROVE Slot(out2, k) = Slot(out, n + k)
  <2>1. k \in 1 .. BUF_LEN /\ n + k \in 1 .. BUF_LEN  BY FilledRange, UartConstants
  <2>2. /\ out + (n + k) - 1 < BUF_LEN => Slot(out, n + k) = out + (n + k) - 1
        /\ out + (n + k) - 1 >= BUF_LEN => Slot(out, n + k) = out + (n + k) - 1 - BUF_LEN
    BY <2>1, SlotRange
  <2>3. /\ out2 + k - 1 < BUF_LEN => Slot(out2, k) = out2 + k - 1
        /\ out2 + k - 1 >= BUF_LEN => Slot(out2, k) = out2 + k - 1 - BUF_LEN
    BY <1>1, <2>1, SlotRange
  <2>4. n + k < BUF_LEN  BY FilledRange, UartConstants
  <2> QED  BY <1>1, <2>1, <2>2, <2>3, <2>4, UartConstants
<1> QED  BY <1>1, <1>2, <1>3 DEF out2

-----------------------------------------------------------------------------
(* The bytes of a ring. *)

LEMMA RingSeq ==
  ASSUME NEW buf \in [Slots -> Bytes], NEW in \in Slots, NEW out \in Slots
  PROVE  /\ Ring(buf, in, out) \in Seq(Bytes)
         /\ Len(Ring(buf, in, out)) = Filled(in, out)
         /\ \A k \in 1 .. Filled(in, out) :
              /\ Slot(out, k) \in Slots
              /\ Ring(buf, in, out)[k] = buf[Slot(out, k)]
<1>1. Filled(in, out) \in Nat /\ Filled(in, out) < BUF_LEN
  BY FilledRange, UartConstants
<1>2. ASSUME NEW k \in 1 .. Filled(in, out) PROVE Slot(out, k) \in Slots
  <2>1. k \in 1 .. BUF_LEN  BY <1>1, UartConstants
  <2> QED  BY <2>1, SlotRange
<1>3. Ring(buf, in, out) \in [1 .. Filled(in, out) -> Bytes]
  BY <1>2 DEF Ring
<1> QED  BY <1>1, <1>2, <1>3 DEF Ring

\* Slots that are free may be written.
LEMMA RingKept ==
  ASSUME NEW buf, NEW new, NEW in \in Slots, NEW out \in Slots,
         \A k \in 1 .. Filled(in, out) : new[Slot(out, k)] = buf[Slot(out, k)]
  PROVE  Ring(new, in, out) = Ring(buf, in, out)
  BY DEF Ring

\* A piece written at in, where there is room for it in one piece, is appended.
LEMMA RingGrows ==
  ASSUME NEW buf \in [Slots -> Bytes], NEW in \in Slots, NEW out \in Slots,
         NEW data \in Seq(Bytes),
         in + Len(data) <= BUF_LEN,
         Filled(in, out) + Len(data) <= BUF_LEN - 1,
         \A k \in 1 .. Len(data) : buf[in + k - 1] = data[k]
  PROVE  Ring(buf, (in + Len(data)) % BUF_LEN, out) = Ring(buf, in, out) \o data
<1> DEFINE n == Len(data)  f == Filled(in, out)  in2 == (in + n) % BUF_LEN
           old == Ring(buf, in, out)  new == Ring(buf, in2, out)
<1>1. n \in Nat /\ f \in Nat  BY LenProperties, FilledRange, UartConstants
<1>2. /\ in2 \in Slots /\ Filled(in2, out) = f + n
      /\ \A k \in 1 .. n : Slot(out, f + k) = in + k - 1
  BY <1>1, FilledGrows
<1>3. /\ new \in Seq(Bytes) /\ Len(new) = f + n
      /\ \A k \in 1 .. f + n : new[k] = buf[Slot(out, k)]
  <2> HIDE DEF in2
  <2>1. /\ new \in Seq(Bytes) /\ Len(new) = Filled(in2, out)
        /\ \A k \in 1 .. Filled(in2, out) : new[k] = buf[Slot(out, k)]
    BY <1>2, RingSeq
  <2> QED  BY <1>2, <2>1
<1>4. /\ old \in Seq(Bytes) /\ Len(old) = f
      /\ \A k \in 1 .. f : old[k] = buf[Slot(out, k)]
  BY RingSeq
<1>5. /\ old \o data \in Seq(Bytes) /\ Len(old \o data) = f + n
      /\ \A k \in 1 .. f + n : (old \o data)[k] = IF k <= f THEN old[k] ELSE data[k - f]
  <2> HIDE DEF old, f, n
  <2>1. Len(data) = n  BY DEF n
  <2>2. Len(old) + n = f + n  BY <1>4
  <2> QED  BY <1>4, <2>1, <2>2, ConcatProperties
<1>6. \A k \in 1 .. n : buf[in + k - 1] = data[k]  OBVIOUS
<1> HIDE DEF in2, n, f, old, new
<1>7. ASSUME NEW k \in 1 .. f + n PROVE new[k] = (old \o data)[k]
  <2>1. CASE k <= f
    <3>1. k \in 1 .. f  BY <2>1, <1>1
    <3> QED  BY <2>1, <3>1, <1>3, <1>4, <1>5
  <2>2. CASE k > f
    <3>1. k - f \in 1 .. n /\ ~(k <= f) /\ f + (k - f) = k  BY <2>2, <1>1
    <3>2. Slot(out, k) = in + (k - f) - 1  BY <1>2, <3>1
    <3>3. new[k] = buf[in + (k - f) - 1]  BY <1>3, <3>2
    <3>4. buf[in + (k - f) - 1] = data[k - f]  BY <1>6, <3>1
    <3>5. (old \o data)[k] = data[k - f]  BY <3>1, <1>5
    <3> QED  BY <3>3, <3>4, <3>5
  <2>3. k <= f \/ k > f  BY <1>1
  <2> QED  BY <2>1, <2>2, <2>3
<1>8. new = old \o data  BY <1>3, <1>5, <1>7, SeqEqual
<1> QED  BY <1>8 DEF new, old, in2, n

\* A piece equal to the oldest bytes is what a ring loses when out passes it.
LEMMA RingShrinks ==
  ASSUME NEW buf \in [Slots -> Bytes], NEW in \in Slots, NEW out \in Slots,
         NEW data \in Seq(Bytes),
         Len(data) <= Filled(in, out),
         \A k \in 1 .. Len(data) : data[k] = Ring(buf, in, out)[k]
  PROVE  Ring(buf, in, out) = data \o Ring(buf, in, (out + Len(data)) % BUF_LEN)
<1> DEFINE n == Len(data)  f == Filled(in, out)  out2 == (out + n) % BUF_LEN
           old == Ring(buf, in, out)  new == Ring(buf, in, out2)
<1>1. n \in Nat /\ f \in Nat /\ n <= f
  BY LenProperties, FilledRange, UartConstants
<1>2. /\ out2 \in Slots /\ Filled(in, out2) = f - n
      /\ \A k \in 1 .. f - n : Slot(out2, k) = Slot(out, n + k)
  BY <1>1, FilledShrinks
<1>3. /\ old \in Seq(Bytes) /\ Len(old) = f
      /\ \A k \in 1 .. f : old[k] = buf[Slot(out, k)]
  BY RingSeq
<1>4. /\ new \in Seq(Bytes) /\ Len(new) = f - n
      /\ \A k \in 1 .. f - n : new[k] = buf[Slot(out2, k)]
  <2> HIDE DEF out2
  <2>1. /\ new \in Seq(Bytes) /\ Len(new) = Filled(in, out2)
        /\ \A k \in 1 .. Filled(in, out2) : new[k] = buf[Slot(out2, k)]
    BY <1>2, RingSeq
  <2> QED  BY <1>2, <2>1
<1>5. \A k \in 1 .. n : data[k] = old[k]  OBVIOUS
<1>6. /\ data \o new \in Seq(Bytes) /\ Len(data \o new) = f
      /\ \A k \in 1 .. f : (data \o new)[k] = IF k <= n THEN data[k] ELSE new[k - n]
  <2> HIDE DEF new, f, n
  <2>1. Len(data) = n  BY DEF n
  <2>2. n + Len(new) = f  BY <1>1, <1>4
  <2> QED  BY <1>4, <2>1, <2>2, ConcatProperties
<1> HIDE DEF out2, n, f, old, new
<1>7. ASSUME NEW k \in 1 .. f PROVE old[k] = (data \o new)[k]
  <2>1. CASE k <= n
    <3>1. k \in 1 .. n  BY <2>1, <1>1
    <3> QED  BY <2>1, <3>1, <1>5, <1>6
  <2>2. CASE k > n
    <3>1. k - n \in 1 .. f - n /\ ~(k <= n) /\ n + (k - n) = k  BY <2>2, <1>1
    <3>2. Slot(out2, k - n) = Slot(out, k)  BY <1>2, <3>1
    <3>3. new[k - n] = buf[Slot(out, k)]  BY <1>4, <3>1, <3>2
    <3>4. (data \o new)[k] = new[k - n]  BY <3>1, <1>6
    <3> QED  BY <3>3, <3>4, <1>3
  <2>3. k <= n \/ k > n  BY <1>1
  <2> QED  BY <2>1, <2>2, <2>3
<1>8. old = data \o new  BY <1>3, <1>6, <1>7, SeqEqual
<1> QED  BY <1>8 DEF new, old, out2, n

-----------------------------------------------------------------------------
(* Types. *)

DeviceOK ==
  /\ hw_rx \in Seq(Bytes) /\ Len(hw_rx) <= RxDepth
  /\ hw_tx \in Seq(Bytes) /\ Len(hw_tx) <= TxDepth
  /\ ac \in {0, 1}
SettingsOK ==
  /\ irq_enable \subseteq {"RE", "WE"}
  /\ timeout \in 2 .. INT_MAX /\ host_inactive \in 0 .. INT_MAX - 2
  /\ timeout = INT_MAX => host_inactive = 0
RingsOK ==
  /\ rx_in \in Slots /\ rx_out \in Slots /\ tx_in \in Slots /\ tx_out \in Slots
  /\ rx_buf \in [Slots -> Bytes] /\ tx_buf \in [Slots -> Bytes]
HandlerOK ==
  /\ isr \in {"off", "control", "receive", "transmit"}
  /\ wi \in {0, 1} /\ ravail \in {0, 1}
  /\ space \in 0 .. TxDepth /\ space <= TxDepth - Len(hw_tx)
ThreadOK ==
  /\ op \in {"idle", "read", "read_release", "read_wait", "read_enable", "write",
             "write_publish", "write_enable", "write_wait", "close"}
  /\ nonblock \in {0, 1} /\ left \in 0 .. MaxCount /\ moved \in 0 .. MaxCount
  /\ piece \in Seq(Bytes) /\ Len(piece) < BUF_LEN
  /\ seen \in Slots /\ result \in Int

\* What a call has moved and what it still has to move are what was asked for,
\* and a reader past its first copy has moved something.
CallOK ==
  /\ left + moved <= MaxCount
  /\ op \in {"read_release", "read_enable"} => moved > 0

LEMMA TypeParts ==
  TypeOK <=> DeviceOK /\ SettingsOK /\ RingsOK /\ HandlerOK /\ ThreadOK
  BY DEF TypeOK, DeviceOK, SettingsOK, RingsOK, HandlerOK, ThreadOK

TypeInv == DeviceOK /\ SettingsOK /\ RingsOK /\ HandlerOK /\ ThreadOK /\ CallOK

LEMMA InitTypes == ASSUME Init PROVE TypeInv
<1>1. DeviceOK  BY UartConstants DEF Init, DeviceOK
<1>2. SettingsOK  BY UartConstants DEF Init, SettingsOK
<1>3. RingsOK  BY UartConstants DEF Init, RingsOK
<1>4. HandlerOK  BY UartConstants DEF Init, HandlerOK
<1>5. ThreadOK /\ CallOK  BY UartConstants DEF Init, ThreadOK, CallOK
<1> QED  BY <1>1, <1>2, <1>3, <1>4, <1>5 DEF TypeInv

\* What a step leaves alone keeps its type.
LEMMA Kept ==
  ASSUME TypeInv
  PROVE  /\ UNCHANGED device => DeviceOK'
         /\ UNCHANGED <<irq_enable, settings>> => SettingsOK'
         /\ UNCHANGED <<rx_ring, tx_ring>> => RingsOK'
         /\ UNCHANGED <<handler, hw_tx>> => HandlerOK'
         /\ UNCHANGED thread => ThreadOK' /\ CallOK'
<1>1. UNCHANGED device => DeviceOK'  BY DEF TypeInv, DeviceOK, device
<1>2. UNCHANGED <<irq_enable, settings>> => SettingsOK'
  BY DEF TypeInv, SettingsOK, settings
<1>3. UNCHANGED <<rx_ring, tx_ring>> => RingsOK'
  BY DEF TypeInv, RingsOK, rx_ring, tx_ring
<1>4. UNCHANGED <<handler, hw_tx>> => HandlerOK'
  BY DEF TypeInv, HandlerOK, handler
<1>5. UNCHANGED thread => ThreadOK' /\ CallOK'
  BY DEF TypeInv, ThreadOK, CallOK, thread
<1> QED  BY <1>1, <1>2, <1>3, <1>4, <1>5

LEMMA NextIndex ==
  ASSUME NEW i \in Slots PROVE (i + 1) % BUF_LEN \in Slots
<1>1. 1 \in 0 .. BUF_LEN  BY UartConstants
<1> QED  BY <1>1, Wrap

LEMMA HostTypes ==
  ASSUME TypeInv, (\E b \in Bytes : HostSends(b)) \/ HostTakes \/ HostPolls
  PROVE  TypeInv'
<1> USE DEF TypeInv
<1>1. ASSUME NEW b \in Bytes, HostSends(b) PROVE TypeInv'
  <2>1. DeviceOK'
    <3>1. hw_rx' \in Seq(Bytes) /\ Len(hw_rx') = Len(hw_rx) + 1
      BY <1>1, AppendProperties DEF HostSends, DeviceOK
    <3> QED  BY <1>1, <3>1, UartConstants, LenProperties DEF HostSends, DeviceOK
  <2> QED  BY <1>1, <2>1, Kept DEF HostSends
<1>2. CASE HostTakes
  <2>1. hw_tx' \in Seq(Bytes) /\ Len(hw_tx') = Len(hw_tx) - 1
    BY <1>2, HeadTailProperties DEF HostTakes, DeviceOK
  <2>2. DeviceOK' /\ HandlerOK'
    BY <1>2, <2>1, UartConstants, LenProperties DEF HostTakes, DeviceOK, HandlerOK, handler
  <2> QED  BY <1>2, <2>2, Kept DEF HostTakes
<1>3. CASE HostPolls
  <2>1. DeviceOK' /\ UNCHANGED <<handler, hw_tx>>  BY <1>3 DEF HostPolls, DeviceOK
  <2> QED  BY <1>3, <2>1, Kept DEF HostPolls
<1> QED  BY <1>1, <1>2, <1>3

LEMMA HandlerTypes ==
  ASSUME TypeInv, Irq \/ TimeoutCallback
  PROVE  TypeInv'
<1> USE DEF TypeInv
<1>1. CASE IrqControl
  <2>1. HandlerOK'
    BY <1>1, UartConstants, LenProperties DEF IrqControl, HandlerOK, DeviceOK, device, WI
  <2> QED  BY <1>1, <2>1, Kept DEF IrqControl
<1>2. CASE IrqReceive
  <2>1. hw_rx' \in Seq(Bytes) /\ Len(hw_rx') = Len(hw_rx) - 1 /\ Head(hw_rx) \in Bytes
    BY <1>2, HeadTailProperties DEF IrqReceive, DeviceOK
  <2>2. DeviceOK'
    BY <1>2, <2>1, UartConstants, LenProperties DEF IrqReceive, DeviceOK
  <2>3. rx_in' \in Slots  BY <1>2, NextIndex DEF IrqReceive, RingsOK
  <2>4. rx_buf' \in [Slots -> Bytes]  BY <1>2, <2>1 DEF IrqReceive, RingsOK
  <2>5. RingsOK'  BY <1>2, <2>3, <2>4 DEF IrqReceive, RingsOK, tx_ring
  <2>6. HandlerOK'  BY <1>2 DEF IrqReceive, HandlerOK
  <2> QED  BY <1>2, <2>2, <2>5, <2>6, Kept DEF IrqReceive
<1>3. CASE IrqReceived
  <2>1. SettingsOK'  BY <1>3 DEF IrqReceived, SettingsOK, settings
  <2>2. HandlerOK'  BY <1>3 DEF IrqReceived, HandlerOK, device
  <2> QED  BY <1>3, <2>1, <2>2, Kept DEF IrqReceived
<1>4. CASE IrqTransmit
  <2>1. tx_buf[tx_out] \in Bytes  BY DEF RingsOK
  <2>2. /\ hw_tx' \in Seq(Bytes) /\ Len(hw_tx') <= TxDepth
        /\ Len(hw_tx') <= Len(hw_tx) + 1
    <3>1. /\ Append(hw_tx, tx_buf[tx_out]) \in Seq(Bytes)
          /\ Len(Append(hw_tx, tx_buf[tx_out])) = Len(hw_tx) + 1
      BY <2>1, AppendProperties DEF DeviceOK
    <3> QED  BY <1>4, <3>1, UartConstants, LenProperties DEF IrqTransmit, DeviceOK
  <2>3. DeviceOK'  BY <1>4, <2>2 DEF IrqTransmit, DeviceOK
  <2>4. HandlerOK'
    BY <1>4, <2>2, UartConstants, LenProperties DEF IrqTransmit, HandlerOK, DeviceOK
  <2>5. tx_out' \in Slots  BY <1>4, NextIndex DEF IrqTransmit, RingsOK
  <2>6. RingsOK'  BY <1>4, <2>5 DEF IrqTransmit, RingsOK, rx_ring
  <2> QED  BY <1>4, <2>3, <2>4, <2>6, Kept DEF IrqTransmit
<1>5. CASE IrqTransmitted
  <2>1. SettingsOK'  BY <1>5 DEF IrqTransmitted, SettingsOK, settings
  <2>2. HandlerOK'
    BY <1>5, UartConstants, LenProperties DEF IrqTransmitted, HandlerOK, DeviceOK, device
  <2> QED  BY <1>5, <2>1, <2>2, Kept DEF IrqTransmitted
<1>6. CASE TimeoutCallback
  <2>1. SettingsOK'
    BY <1>6, UartConstants DEF TimeoutCallback, SettingsOK
  <2>2. DeviceOK'  BY <1>6 DEF TimeoutCallback, DeviceOK
  <2> QED  BY <1>6, <2>1, <2>2, Kept DEF TimeoutCallback
<1> QED  BY <1>1, <1>2, <1>3, <1>4, <1>5, <1>6 DEF Irq

\* A call that returns leaves the thread idle.
LEMMA ReturnTypes ==
  ASSUME NEW value \in Int, Return(value) PROVE ThreadOK' /\ CallOK'
  BY UartConstants DEF Return, ThreadOK, CallOK

LEMMA StartTypes ==
  ASSUME TypeInv, Start
  PROVE  TypeInv'
<1> USE DEF TypeInv
<1>1. ASSUME NEW at \in {"read", "write", "close"}, NEW count \in 0 .. MaxCount,
             NEW flag \in {0, 1}, Call(at, count, flag)
      PROVE  TypeInv'
  <2>1. ThreadOK' /\ CallOK'
    BY <1>1, UartConstants DEF Call, ThreadOK, CallOK
  <2>2. UNCHANGED <<handler, hw_tx>>  BY <1>1 DEF Call, device
  <2> QED  BY <1>1, <2>1, <2>2, Kept DEF Call
<1>2. ASSUME NEW count \in 1 .. MaxCount, NEW flag \in {0, 1},
             ReadCall(count, flag) \/ WriteCall(count, flag)
      PROVE  TypeInv'
  <2>1. count \in 0 .. MaxCount  BY UartConstants
  <2> QED  BY <1>1, <1>2, <2>1 DEF ReadCall, WriteCall
<1>3. ASSUME NEW flag \in {0, 1}, CloseCall(flag) PROVE TypeInv'
  <2>1. 0 \in 0 .. MaxCount  BY UartConstants
  <2> QED  BY <1>1, <1>3, <2>1 DEF CloseCall
<1>4. ASSUME NEW arg \in Timeouts, IoctlTimeout(arg) PROVE TypeInv'
  <2>1. SettingsOK'  BY <1>4, UartConstants DEF IoctlTimeout, SettingsOK
  <2>2. ThreadOK' /\ CallOK'  BY <1>4 DEF IoctlTimeout, ThreadOK, CallOK, ENOTTY
  <2>3. UNCHANGED <<handler, hw_tx>>  BY <1>4 DEF IoctlTimeout, device
  <2> QED  BY <1>4, <2>1, <2>2, <2>3, Kept DEF IoctlTimeout
<1>5. CASE IoctlConnected
  <2>1. ThreadOK' /\ CallOK'  BY <1>5 DEF IoctlConnected, ThreadOK, CallOK, ENOTTY
  <2>2. UNCHANGED <<handler, hw_tx>>  BY <1>5 DEF IoctlConnected, device
  <2> QED  BY <1>5, <2>1, <2>2, Kept DEF IoctlConnected
<1> QED  BY <1>2, <1>3, <1>4, <1>5 DEF Start

\* What can be copied in one piece is there, and lies before the buffer's end.
LEMMA ReadableFits ==
  ASSUME NEW in \in Slots, NEW out \in Slots
  PROVE  /\ Readable(in, out) \in 0 .. BUF_LEN
         /\ in = out => Readable(in, out) = 0
         /\ Readable(in, out) <= Filled(in, out)
         /\ out + Readable(in, out) <= BUF_LEN
  BY UartConstants DEF Readable, Filled

LEMMA WritableFits ==
  ASSUME NEW in \in Slots, NEW out \in Slots
  PROVE  /\ Writable(in, out) \in 0 .. BUF_LEN - 1
         /\ Filled(in, out) + Writable(in, out) <= BUF_LEN - 1
         /\ in + Writable(in, out) <= BUF_LEN
  BY UartConstants DEF Writable, Filled

LEMMA AtMostLeast ==
  ASSUME NEW n \in Nat, NEW m \in Nat
  PROVE  AtMost(n, m) \in Nat /\ AtMost(n, m) <= n /\ AtMost(n, m) <= m
  BY DEF AtMost

\* What a reader copies, and what a writer is given.
LEMMA CopiedPiece ==
  ASSUME TypeInv, ReadCopy
  PROVE  LET n == AtMost(Readable(rx_in, rx_out), left)
         IN  /\ n \in 1 .. left /\ n <= Filled(rx_in, rx_out) /\ rx_out + n <= BUF_LEN
             /\ piece' \in Seq(Bytes) /\ Len(piece') = n /\ n < BUF_LEN
             /\ \A k \in 1 .. n : piece'[k] = rx_buf[rx_out + k - 1]
<1> DEFINE n == AtMost(Readable(rx_in, rx_out), left)
<1>0. /\ Readable(rx_in, rx_out) \in 0 .. BUF_LEN /\ left \in Nat
      /\ Readable(rx_in, rx_out) <= Filled(rx_in, rx_out)
      /\ rx_out + Readable(rx_in, rx_out) <= BUF_LEN
      /\ Filled(rx_in, rx_out) \in 0 .. BUF_LEN - 1
      /\ rx_out \in Slots
  <2>1. rx_in \in Slots /\ rx_out \in Slots /\ left \in Nat
    BY UartConstants DEF TypeInv, RingsOK, ThreadOK
  <2> QED  BY <2>1, ReadableFits, FilledRange
<1>1. /\ n \in Nat /\ n <= left /\ n <= Readable(rx_in, rx_out)
  <2>1. Readable(rx_in, rx_out) \in Nat  BY <1>0, UartConstants
  <2> QED  BY <1>0, <2>1, AtMostLeast
<1>2. n > 0 /\ piece' = [k \in 1 .. n |-> rx_buf[rx_out + k - 1]]  BY DEF ReadCopy
<1> HIDE DEF n
<1>3. n <= Filled(rx_in, rx_out) /\ rx_out + n <= BUF_LEN /\ n < BUF_LEN
  BY <1>0, <1>1, UartConstants
<1>4. \A k \in 1 .. n : rx_out + k - 1 \in Slots
  BY <1>1, <1>3, UartConstants DEF TypeInv, RingsOK
<1>5. piece' \in [1 .. n -> Bytes]  BY <1>2, <1>4 DEF TypeInv, RingsOK
<1>6. piece' \in Seq(Bytes) /\ Len(piece') = n  BY <1>1, <1>5
<1>7. n \in 1 .. left  BY <1>1, <1>2 DEF TypeInv, ThreadOK
<1> QED  BY <1>2, <1>3, <1>6, <1>7 DEF n

LEMMA GivenPiece ==
  ASSUME TypeInv, WriteCopy
  PROVE  LET n == AtMost(Writable(tx_in, tx_out), left)
         IN  /\ n \in 1 .. left
             /\ Filled(tx_in, tx_out) + n <= BUF_LEN - 1 /\ tx_in + n <= BUF_LEN
             /\ piece' \in Seq(Bytes) /\ Len(piece') = n /\ n < BUF_LEN
             /\ tx_buf' \in [Slots -> Bytes]
             /\ \A k \in 1 .. n : tx_buf'[tx_in + k - 1] = piece'[k]
             /\ \A s \in Slots : s < tx_in \/ s >= tx_in + n => tx_buf'[s] = tx_buf[s]
<1> DEFINE n == AtMost(Writable(tx_in, tx_out), left)
<1>0. /\ Writable(tx_in, tx_out) \in 0 .. BUF_LEN - 1 /\ left \in Nat
      /\ Filled(tx_in, tx_out) + Writable(tx_in, tx_out) <= BUF_LEN - 1
      /\ tx_in + Writable(tx_in, tx_out) <= BUF_LEN
      /\ Filled(tx_in, tx_out) \in 0 .. BUF_LEN - 1
      /\ tx_in \in Slots
  <2>1. tx_in \in Slots /\ tx_out \in Slots /\ left \in Nat
    BY UartConstants DEF TypeInv, RingsOK, ThreadOK
  <2> QED  BY <2>1, WritableFits, FilledRange
<1>1. /\ n \in Nat /\ n <= left /\ n <= Writable(tx_in, tx_out)
  <2>1. Writable(tx_in, tx_out) \in Nat  BY <1>0, UartConstants
  <2> QED  BY <1>0, <2>1, AtMostLeast
<1>2. PICK data \in [1 .. n -> Bytes] :
        /\ n > 0 /\ piece' = data
        /\ tx_buf' = [s \in Slots |-> IF s \in tx_in .. tx_in + n - 1
                                        THEN data[s - tx_in + 1] ELSE tx_buf[s]]
  BY DEF WriteCopy
<1> HIDE DEF n
<1>3. Filled(tx_in, tx_out) + n <= BUF_LEN - 1 /\ tx_in + n <= BUF_LEN /\ n < BUF_LEN
  BY <1>0, <1>1, UartConstants
<1>4. piece' \in Seq(Bytes) /\ Len(piece') = n  BY <1>1, <1>2
<1>5. n \in 1 .. left  BY <1>1, <1>2 DEF TypeInv, ThreadOK
<1>6. tx_in \in Nat /\ tx_buf \in [Slots -> Bytes]  BY UartConstants DEF TypeInv, RingsOK
<1>7. tx_buf' \in [Slots -> Bytes]
  <2>1. ASSUME NEW s \in Slots, s \in tx_in .. tx_in + n - 1 PROVE data[s - tx_in + 1] \in Bytes
    <3>1. s - tx_in + 1 \in 1 .. n  BY <1>1, <1>6, <2>1
    <3> QED  BY <3>1
  <2> QED  BY <1>2, <1>6, <2>1
<1>8. ASSUME NEW k \in 1 .. n PROVE tx_buf'[tx_in + k - 1] = piece'[k]
  <2> DEFINE s == tx_in + k - 1
  <2>1. s \in Slots /\ s \in tx_in .. tx_in + n - 1 /\ s - tx_in + 1 = k
    BY <1>1, <1>3, <1>6, UartConstants
  <2> HIDE DEF s
  <2>2. tx_buf'[s] = data[k]  BY <1>2, <2>1
  <2> QED  BY <1>2, <2>2 DEF s
<1>9. \A s \in Slots : s < tx_in \/ s >= tx_in + n => tx_buf'[s] = tx_buf[s]
  BY <1>1, <1>2, <1>6, UartConstants
<1> QED  BY <1>3, <1>4, <1>5, <1>7, <1>8, <1>9 DEF n

LEMMA ReaderTypes ==
  ASSUME TypeInv, ReadCopy \/ ReadRelease \/ ReadEmpty \/ ReadWait \/ ReadEnable
  PROVE  TypeInv'
<1> USE DEF TypeInv
<1>1. CASE ReadCopy
  <2> DEFINE n == AtMost(Readable(rx_in, rx_out), left)
  <2>1. n \in 1 .. left /\ piece' \in Seq(Bytes) /\ Len(piece') < BUF_LEN
    BY <1>1, CopiedPiece
  <2>2. /\ left' = left - n /\ moved' = moved + n /\ op' = "read_release"
        /\ UNCHANGED <<nonblock, seen, result>>
    BY <1>1 DEF ReadCopy
  <2> HIDE DEF n
  <2>3. ThreadOK' /\ CallOK'  BY <2>1, <2>2, UartConstants DEF ThreadOK, CallOK
  <2>4. UNCHANGED <<handler, hw_tx>>  BY <1>1 DEF ReadCopy, device
  <2> QED  BY <1>1, <2>3, <2>4, Kept DEF ReadCopy
<1>2. CASE ReadRelease
  <2>1. Len(piece) \in 0 .. BUF_LEN
    BY UartConstants, LenProperties DEF ThreadOK
  <2>2. rx_out' \in Slots  BY <1>2, <2>1, Wrap DEF ReadRelease, RingsOK
  <2>3. RingsOK'  BY <1>2, <2>2 DEF ReadRelease, RingsOK, tx_ring
  <2>4. ThreadOK' /\ CallOK'
    BY <1>2, UartConstants DEF ReadRelease, ThreadOK, CallOK, Running
  <2>5. UNCHANGED <<handler, hw_tx>>  BY <1>2 DEF ReadRelease, device
  <2> QED  BY <1>2, <2>3, <2>4, <2>5, Kept DEF ReadRelease
<1>3. CASE ReadEmpty
  <2>1. -EWOULDBLOCK \in Int  BY DEF EWOULDBLOCK
  <2>2. CASE Return(-EWOULDBLOCK)
    <3>1. ThreadOK' /\ CallOK'  BY <2>1, <2>2, ReturnTypes
    <3>2. UNCHANGED <<handler, hw_tx>>  BY <1>3 DEF ReadEmpty, device
    <3> QED  BY <1>3, <3>1, <3>2, Kept DEF ReadEmpty
  <2>3. CASE ~Return(-EWOULDBLOCK)
    <3>1. ThreadOK' /\ CallOK'
      BY <1>3, <2>3 DEF ReadEmpty, ThreadOK, CallOK, Running, RingsOK
    <3>2. UNCHANGED <<handler, hw_tx>>  BY <1>3 DEF ReadEmpty, device
    <3> QED  BY <1>3, <3>1, <3>2, Kept DEF ReadEmpty
  <2> QED  BY <2>2, <2>3
<1>4. CASE ReadWait
  <2>1. -EIO \in Int  BY DEF EIO
  <2>2. Return(-EIO) => ThreadOK' /\ CallOK'  BY <2>1, ReturnTypes
  <2>3. ThreadOK' /\ CallOK'
    BY <1>4, <2>2 DEF ReadWait, ThreadOK, CallOK, Running
  <2>4. UNCHANGED <<handler, hw_tx>>  BY <1>4 DEF ReadWait, device
  <2> QED  BY <1>4, <2>3, <2>4, Kept DEF ReadWait
<1>5. CASE ReadEnable
  <2>1. ThreadOK' /\ CallOK'
    <3>1. moved \in Int  BY DEF ThreadOK
    <3> QED  BY <1>5, <3>1, ReturnTypes DEF ReadEnable
  <2>2. SettingsOK'  BY <1>5 DEF ReadEnable, SettingsOK, settings
  <2>3. UNCHANGED <<handler, hw_tx>>  BY <1>5 DEF ReadEnable, device
  <2> QED  BY <1>5, <2>1, <2>2, <2>3, Kept DEF ReadEnable
<1> QED  BY <1>1, <1>2, <1>3, <1>4, <1>5

LEMMA WriterTypes ==
  ASSUME TypeInv,
         WriteCopy \/ WritePublish \/ WriteFull \/ WriteEnable \/ WriteWait \/ CloseWait
  PROVE  TypeInv'
<1> USE DEF TypeInv
<1>0. Short \in Int  BY DEF Short, EWOULDBLOCK, EIO, ThreadOK
<1>1. CASE WriteCopy
  <2> DEFINE n == AtMost(Writable(tx_in, tx_out), left)
  <2>1. /\ n \in 1 .. left /\ piece' \in Seq(Bytes) /\ Len(piece') < BUF_LEN
        /\ tx_buf' \in [Slots -> Bytes]
    BY <1>1, GivenPiece
  <2>2. /\ left' = left - n /\ moved' = moved + n /\ op' = "write_publish"
        /\ UNCHANGED <<nonblock, seen, result>>
    BY <1>1 DEF WriteCopy
  <2> HIDE DEF n
  <2>3. ThreadOK' /\ CallOK'  BY <2>1, <2>2, UartConstants DEF ThreadOK, CallOK
  <2>4. RingsOK'  BY <1>1, <2>1 DEF WriteCopy, RingsOK, rx_ring
  <2>5. UNCHANGED <<handler, hw_tx>>  BY <1>1 DEF WriteCopy, device
  <2> QED  BY <1>1, <2>3, <2>4, <2>5, Kept DEF WriteCopy
<1>2. CASE WritePublish
  <2>1. Len(piece) \in 0 .. BUF_LEN
    BY UartConstants, LenProperties DEF ThreadOK
  <2>2. tx_in' \in Slots  BY <1>2, <2>1, Wrap DEF WritePublish, RingsOK
  <2>3. RingsOK'  BY <1>2, <2>2 DEF WritePublish, RingsOK, rx_ring
  <2>4. ThreadOK' /\ CallOK'
    BY <1>2, UartConstants DEF WritePublish, ThreadOK, CallOK, Running
  <2>5. UNCHANGED <<handler, hw_tx>>  BY <1>2 DEF WritePublish, device
  <2> QED  BY <1>2, <2>3, <2>4, <2>5, Kept DEF WritePublish
<1>3. CASE WriteFull
  <2>1. ThreadOK' /\ CallOK'
    BY <1>3 DEF WriteFull, ThreadOK, CallOK, Running, RingsOK
  <2>2. UNCHANGED <<handler, hw_tx>>  BY <1>3 DEF WriteFull, device
  <2> QED  BY <1>3, <2>1, <2>2, Kept DEF WriteFull
<1>4. CASE WriteEnable
  <2>1. Return(Short) => ThreadOK' /\ CallOK'  BY <1>0, ReturnTypes
  <2>2. ThreadOK' /\ CallOK'
    BY <1>4, <2>1 DEF WriteEnable, ThreadOK, CallOK, Running
  <2>3. SettingsOK'  BY <1>4 DEF WriteEnable, SettingsOK, settings
  <2>4. UNCHANGED <<handler, hw_tx>>  BY <1>4 DEF WriteEnable, device
  <2> QED  BY <1>4, <2>2, <2>3, <2>4, Kept DEF WriteEnable
<1>5. CASE WriteWait
  <2>1. Return(Short) => ThreadOK' /\ CallOK'  BY <1>0, ReturnTypes
  <2>2. ThreadOK' /\ CallOK'
    BY <1>5, <2>1 DEF WriteWait, ThreadOK, CallOK, Running
  <2>3. UNCHANGED <<handler, hw_tx>>  BY <1>5 DEF WriteWait, device
  <2> QED  BY <1>5, <2>2, <2>3, Kept DEF WriteWait
<1>6. CASE CloseWait
  <2>1. 0 \in Int /\ -EWOULDBLOCK \in Int  BY DEF EWOULDBLOCK
  <2>2. Return(0) \/ Return(-EWOULDBLOCK)  BY <1>6 DEF CloseWait
  <2>3. ThreadOK' /\ CallOK'  BY <2>1, <2>2, ReturnTypes
  <2>4. UNCHANGED <<handler, hw_tx>>  BY <1>6 DEF CloseWait, device
  <2> QED  BY <1>6, <2>3, <2>4, Kept DEF CloseWait
<1> QED  BY <1>1, <1>2, <1>3, <1>4, <1>5, <1>6

LEMMA StutterTypes == ASSUME TypeInv, UNCHANGED vars PROVE TypeInv'
<1>1. UNCHANGED <<handler, hw_tx>>  BY DEF vars, device
<1> QED  BY <1>1, Kept DEF TypeInv, vars

LEMMA StepTypes == TypeInv /\ [Next]_vars => TypeInv'
<1> SUFFICES ASSUME TypeInv, [Next]_vars PROVE TypeInv'
  OBVIOUS
<1> QED  BY HostTypes, HandlerTypes, StartTypes, ReaderTypes, WriterTypes, StutterTypes
         DEF Next, Continue

\* Every index, count and flag of driver, device and thread keeps its range.
THEOREM TypeCorrect == Spec => []TypeOK
<1>1. Init => TypeInv  BY InitTypes
<1>2. TypeInv => TypeOK  BY TypeParts DEF TypeInv
<1> QED  BY <1>1, <1>2, StepTypes, PTL DEF Spec

-----------------------------------------------------------------------------
(* Interrupt enables. *)

LEMMA RxIndices == ASSUME TypeInv PROVE rx_in \in Slots /\ rx_out \in Slots
  BY DEF TypeInv, RingsOK

\* Steps that leave receive interrupts, rx_buf's indices and the reader alone.
LEMMA ReceiverKept ==
  ASSUME ReceiverArmed, UNCHANGED <<rx_in, rx_out>>,
         "RE" \in irq_enable => "RE" \in irq_enable',
         \/ UNCHANGED <<op, moved>>
         \/ op \notin {"read", "read_release", "read_enable"}
  PROVE  ReceiverArmed'
  BY DEF ReceiverArmed

LEMMA StepReceiver ==
  TypeInv /\ ReceiverArmed /\ [Next]_vars => ReceiverArmed'
<1> SUFFICES ASSUME TypeInv, ReceiverArmed, [Next]_vars PROVE ReceiverArmed'
  OBVIOUS
<1> USE RxIndices
<1>1. ASSUME NEW b \in Bytes, HostSends(b) PROVE ReceiverArmed'
  BY <1>1, ReceiverKept DEF HostSends, rx_ring, thread
<1>2. CASE HostTakes \/ HostPolls \/ TimeoutCallback
  BY <1>2, ReceiverKept DEF HostTakes, HostPolls, TimeoutCallback, rx_ring, thread
<1>3. CASE IrqControl \/ IrqTransmit \/ IrqTransmitted
  BY <1>3, ReceiverKept DEF IrqControl, IrqTransmit, IrqTransmitted, rx_ring, thread
<1>4. CASE IrqReceive
  \* There was room, so it was not the full buffer that excused the receiver.
  <2>1. Filled(rx_in, rx_out) # BUF_LEN - 1  BY <1>4, Full DEF IrqReceive
  <2> QED  BY <1>4, <2>1 DEF IrqReceive, ReceiverArmed, thread
<1>5. CASE IrqReceived
  <2>1. CASE (rx_in + 1) % BUF_LEN = rx_out
    <3>1. Filled(rx_in, rx_out) = BUF_LEN - 1  BY <2>1, Full
    <3> QED  BY <1>5, <3>1 DEF IrqReceived, ReceiverArmed, rx_ring
  <2>2. CASE ~((rx_in + 1) % BUF_LEN = rx_out)
    BY <1>5, <2>2, ReceiverKept DEF IrqReceived, rx_ring, thread
  <2> QED  BY <2>1, <2>2
<1>6. ASSUME NEW at, NEW count, NEW flag, Call(at, count, flag) PROVE ReceiverArmed'
  BY <1>6, ReceiverKept DEF Call, Running, rx_ring
<1>7. CASE Start
  <2>1. ASSUME NEW arg, IoctlTimeout(arg) PROVE ReceiverArmed'
    BY <2>1, ReceiverKept DEF IoctlTimeout, rx_ring
  <2>2. CASE IoctlConnected
    BY <2>2, ReceiverKept DEF IoctlConnected, rx_ring
  <2> QED  BY <1>6, <1>7, <2>1, <2>2 DEF Start, ReadCall, WriteCall, CloseCall
<1>8. CASE ReadCopy
  <2> DEFINE n == AtMost(Readable(rx_in, rx_out), left)
  <2>1. n \in 1 .. left  BY <1>8, CopiedPiece
  <2>2. moved' = moved + n /\ op' = "read_release"  BY <1>8 DEF ReadCopy
  <2> HIDE DEF n
  <2>3. moved' > 0  BY <2>1, <2>2 DEF TypeInv, ThreadOK
  <2> QED  BY <2>2, <2>3 DEF ReceiverArmed
<1>9. CASE ReadRelease
  <2>1. moved > 0  BY <1>9 DEF ReadRelease, Running, TypeInv, CallOK
  <2> QED  BY <1>9, <2>1 DEF ReadRelease, ReceiverArmed
<1>10. CASE ReadEmpty
  <2>1. CASE moved > 0
    BY <1>10, <2>1 DEF ReadEmpty, ReceiverArmed, Running, TypeInv, ThreadOK
  <2>2. CASE ~(moved > 0)
    <3>1. Filled(rx_in, rx_out) # BUF_LEN - 1
      BY <1>10, FilledRange, UartConstants DEF ReadEmpty
    <3>2. "RE" \in irq_enable  BY <2>2, <3>1 DEF ReceiverArmed
    <3> QED  BY <1>10, <3>2 DEF ReadEmpty, ReceiverArmed
  <2> QED  BY <2>1, <2>2
<1>11. CASE ReadWait
  BY <1>11, ReceiverKept DEF ReadWait, Running, rx_ring
<1>12. CASE ReadEnable
  BY <1>12 DEF ReadEnable, ReceiverArmed
<1>13. CASE WriteCopy \/ WritePublish \/ WriteFull
  BY <1>13, ReceiverKept DEF WriteCopy, WritePublish, WriteFull, Running, rx_ring
<1>14. CASE WriteEnable \/ WriteWait \/ CloseWait
  BY <1>14, ReceiverKept DEF WriteEnable, WriteWait, CloseWait, Running, rx_ring
<1>15. CASE UNCHANGED vars
  BY <1>15, ReceiverKept DEF vars, rx_ring, thread
<1> QED  BY <1>1, <1>2, <1>3, <1>4, <1>5, <1>7, <1>8, <1>9, <1>10, <1>11, <1>12,
            <1>13, <1>14, <1>15 DEF Next, Irq, Continue

\* No byte is left in the device with nobody to fetch it, for every length of
\* buffer and FIFO: receive interrupts are off only while rx_buf is full or a
\* reader is about to turn them on.
THEOREM ReceiverAlwaysArmed == Spec => []ReceiverArmed
<1>1. Init => TypeInv /\ ReceiverArmed  BY InitTypes DEF Init, ReceiverArmed
<1>2. TypeInv /\ ReceiverArmed /\ [Next]_vars => (TypeInv /\ ReceiverArmed)'
  BY StepTypes, StepReceiver
<1> QED  BY <1>1, <1>2, PTL DEF Spec

\* Steps that leave transmit interrupts, tx_buf's indices and the writer alone.
LEMMA TransmitterKept ==
  ASSUME TransmitterArmed, UNCHANGED <<tx_in, tx_out>>,
         "WE" \in irq_enable => "WE" \in irq_enable',
         \/ UNCHANGED op
         \/ op \notin {"write", "write_publish", "write_enable"}
  PROVE  TransmitterArmed'
  BY DEF TransmitterArmed

LEMMA StepTransmitter ==
  TypeInv /\ TransmitterArmed /\ [Next]_vars => TransmitterArmed'
<1> SUFFICES ASSUME TypeInv, TransmitterArmed, [Next]_vars PROVE TransmitterArmed'
  OBVIOUS
<1>1. ASSUME NEW b \in Bytes, HostSends(b) PROVE TransmitterArmed'
  BY <1>1, TransmitterKept DEF HostSends, tx_ring, thread
<1>2. CASE HostTakes \/ HostPolls \/ TimeoutCallback
  BY <1>2, TransmitterKept DEF HostTakes, HostPolls, TimeoutCallback, tx_ring, thread
<1>3. CASE IrqControl \/ IrqReceive \/ IrqReceived
  BY <1>3, TransmitterKept DEF IrqControl, IrqReceive, IrqReceived, tx_ring, thread
<1>4. CASE IrqTransmit
  \* There was something to send, and interrupts for it stay as they are.
  BY <1>4 DEF IrqTransmit, TransmitterArmed, thread
<1>5. CASE IrqTransmitted
  <2>1. CASE tx_out = tx_in
    BY <1>5, <2>1 DEF IrqTransmitted, TransmitterArmed, tx_ring
  <2>2. CASE space = 0
    BY <1>5, <2>2, TransmitterKept DEF IrqTransmitted, tx_ring, thread
  <2> QED  BY <1>5, <2>1, <2>2 DEF IrqTransmitted
<1>6. ASSUME NEW at, NEW count, NEW flag, Call(at, count, flag) PROVE TransmitterArmed'
  BY <1>6, TransmitterKept DEF Call, Running, tx_ring
<1>7. CASE Start
  <2>1. ASSUME NEW arg, IoctlTimeout(arg) PROVE TransmitterArmed'
    BY <2>1, TransmitterKept DEF IoctlTimeout, tx_ring
  <2>2. CASE IoctlConnected
    BY <2>2, TransmitterKept DEF IoctlConnected, tx_ring
  <2> QED  BY <1>6, <1>7, <2>1, <2>2 DEF Start, ReadCall, WriteCall, CloseCall
<1>8. CASE ReadCopy \/ ReadRelease \/ ReadEmpty
  BY <1>8, TransmitterKept DEF ReadCopy, ReadRelease, ReadEmpty, Running, tx_ring
<1>9. CASE ReadWait \/ ReadEnable
  BY <1>9, TransmitterKept DEF ReadWait, ReadEnable, Running, tx_ring
<1>10. CASE WriteCopy \/ WritePublish \/ WriteFull
  BY <1>10 DEF WriteCopy, WritePublish, WriteFull, TransmitterArmed
<1>11. CASE WriteEnable
  BY <1>11 DEF WriteEnable, TransmitterArmed
<1>12. CASE WriteWait \/ CloseWait
  BY <1>12, TransmitterKept DEF WriteWait, CloseWait, Running, tx_ring
<1>13. CASE UNCHANGED vars
  BY <1>13, TransmitterKept DEF vars, tx_ring, thread
<1> QED  BY <1>1, <1>2, <1>3, <1>4, <1>5, <1>7, <1>8, <1>9, <1>10, <1>11, <1>12, <1>13
         DEF Next, Irq, Continue

\* What is in tx_buf is never forgotten: transmit interrupts are on, or a writer
\* is about to turn them on.
THEOREM TransmitterAlwaysArmed == Spec => []TransmitterArmed
<1>1. Init => TypeInv /\ TransmitterArmed  BY InitTypes DEF Init, TransmitterArmed
<1>2. TypeInv /\ TransmitterArmed /\ [Next]_vars => (TypeInv /\ TransmitterArmed)'
  BY StepTypes, StepTransmitter
<1> QED  BY <1>1, <1>2, PTL DEF Spec

-----------------------------------------------------------------------------
(* Order. *)

\* The slots that a piece of length n may fill hold no byte of the ring.
LEMMA FreeSlots ==
  ASSUME NEW in \in Slots, NEW out \in Slots, NEW n \in Nat,
         in + n <= BUF_LEN, Filled(in, out) + n <= BUF_LEN - 1,
         NEW k \in 1 .. Filled(in, out)
  PROVE  Slot(out, k) < in \/ Slot(out, k) >= in + n
<1>1. k \in 1 .. BUF_LEN  BY FilledRange, UartConstants
<1>2. /\ out + k - 1 < BUF_LEN => Slot(out, k) = out + k - 1
      /\ out + k - 1 >= BUF_LEN => Slot(out, k) = out + k - 1 - BUF_LEN
  BY <1>1, SlotRange
<1> QED  BY <1>1, <1>2, UartConstants DEF Filled

LEMMA OldestSlot == ASSUME NEW out \in Slots PROVE Slot(out, 1) = out
<1>1. 1 \in 1 .. BUF_LEN /\ out + 1 - 1 = out  BY UartConstants
<1> QED  BY <1>1, SlotRange, UartConstants

LEMMA HeadFirst ==
  ASSUME NEW s \in Seq(Bytes), s # <<>>
  PROVE  /\ Head(s) \in Bytes /\ Tail(s) \in Seq(Bytes)
         /\ s = <<Head(s)>> \o Tail(s)
<1>1. /\ Head(s) \in Bytes /\ Tail(s) \in Seq(Bytes) /\ Len(Tail(s)) = Len(s) - 1
      /\ \A i \in 1 .. Len(Tail(s)) : Tail(s)[i] = s[i + 1]
  BY HeadTailProperties
<1>2. <<Head(s)>> \in Seq(Bytes) /\ Len(<<Head(s)>>) = 1 /\ <<Head(s)>>[1] = s[1]
  BY <1>1
<1> DEFINE h == <<Head(s)>>  t == Tail(s)
<1> HIDE DEF h, t
<1>3. h \in Seq(Bytes) /\ Len(h) = 1 /\ h[1] = s[1]  BY <1>2 DEF h
<1>4. /\ t \in Seq(Bytes) /\ Len(t) = Len(s) - 1
      /\ \A i \in 1 .. Len(t) : t[i] = s[i + 1]
  BY <1>1 DEF t
<1>5. Len(s) \in Nat /\ Len(s) > 0  BY EmptySeq, LenProperties
<1>6. /\ h \o t \in Seq(Bytes) /\ Len(h \o t) = Len(s)
      /\ \A i \in 1 .. Len(s) : (h \o t)[i] = IF i <= 1 THEN h[i] ELSE t[i - 1]
  <2>1. Len(h) + Len(t) = Len(s)  BY <1>3, <1>4, <1>5
  <2>2. /\ h \o t \in Seq(Bytes) /\ Len(h \o t) = Len(h) + Len(t)
        /\ \A i \in 1 .. Len(h) + Len(t) :
             (h \o t)[i] = IF i <= Len(h) THEN h[i] ELSE t[i - Len(h)]
    <3>1. h \in Seq(Bytes) /\ t \in Seq(Bytes)  BY <1>3, <1>4
    <3> QED  BY <3>1, ConcatProperties
  <2> DEFINE c == h \o t
  <2> HIDE DEF c
  <2>3. /\ c \in Seq(Bytes) /\ Len(c) = Len(s)
        /\ \A i \in 1 .. Len(s) : c[i] = IF i <= Len(h) THEN h[i] ELSE t[i - Len(h)]
    BY <2>1, <2>2 DEF c
  <2>4. Len(h) = 1  BY <1>3
  <2> QED  BY <2>3, <2>4 DEF c
<1>7. ASSUME NEW i \in 1 .. Len(s) PROVE s[i] = (h \o t)[i]
  <2>1. CASE i = 1  BY <2>1, <1>3, <1>6
  <2>2. CASE i # 1
    <3>1. i - 1 \in 1 .. Len(t) /\ (i - 1) + 1 = i /\ ~(i <= 1)  BY <2>2, <1>4, <1>5
    <3>2. t[i - 1] = s[i]  BY <1>4, <3>1
    <3>3. (h \o t)[i] = t[i - 1]  BY <1>6, <3>1
    <3> QED  BY <3>2, <3>3
  <2> QED  BY <2>1, <2>2
<1>8. s = h \o t  BY <1>6, <1>7, SeqEqual
<1> QED  BY <1>1, <1>8 DEF h, t

LEMMA TailOfConcat ==
  ASSUME NEW s \in Seq(Bytes), s # <<>>, NEW t \in Seq(Bytes)
  PROVE  Tail(s \o t) = Tail(s) \o t
<1>1. /\ Tail(s) \in Seq(Bytes) /\ Len(Tail(s)) = Len(s) - 1
      /\ \A i \in 1 .. Len(Tail(s)) : Tail(s)[i] = s[i + 1]
  BY HeadTailProperties
<1>2. Len(s) \in Nat /\ Len(s) > 0 /\ Len(t) \in Nat  BY EmptySeq, LenProperties
<1>3. /\ s \o t \in Seq(Bytes) /\ Len(s \o t) = Len(s) + Len(t)
      /\ \A i \in 1 .. Len(s) + Len(t) :
           (s \o t)[i] = IF i <= Len(s) THEN s[i] ELSE t[i - Len(s)]
  BY ConcatProperties
<1>4. s \o t # <<>>  BY <1>2, <1>3
<1> DEFINE u == Tail(s)  c == s \o t  l == Tail(c)  r == u \o t
<1>5. /\ l \in Seq(Bytes) /\ Len(l) = Len(s) + Len(t) - 1
      /\ \A i \in 1 .. Len(l) : l[i] = c[i + 1]
  BY <1>3, <1>4, HeadTailProperties
<1> HIDE DEF u
<1>6. u \in Seq(Bytes) /\ Len(u) = Len(s) - 1 /\ \A i \in 1 .. Len(u) : u[i] = s[i + 1]
  BY <1>1 DEF u
<1>7. /\ r \in Seq(Bytes) /\ Len(r) = Len(s) + Len(t) - 1
      /\ \A i \in 1 .. Len(r) : r[i] = IF i <= Len(u) THEN u[i] ELSE t[i - Len(u)]
  <2>1. Len(u) + Len(t) = Len(s) + Len(t) - 1  BY <1>2, <1>6
  <2>2. /\ r \in Seq(Bytes) /\ Len(r) = Len(u) + Len(t)
        /\ \A i \in 1 .. Len(u) + Len(t) : r[i] = IF i <= Len(u) THEN u[i] ELSE t[i - Len(u)]
    <3>1. u \in Seq(Bytes)  BY <1>6
    <3> QED  BY <3>1, ConcatProperties
  <2> HIDE DEF r
  <2> QED  BY <2>1, <2>2
<1>8. \A i \in 1 .. Len(s) + Len(t) :
        c[i] = IF i <= Len(s) THEN s[i] ELSE t[i - Len(s)]
  BY <1>3
<1> HIDE DEF c, l, r
<1>9. ASSUME NEW i \in 1 .. Len(l) PROVE l[i] = r[i]
  <2>1. i \in 1 .. Len(r) /\ i + 1 \in 1 .. Len(s) + Len(t) /\ l[i] = c[i + 1]
    BY <1>2, <1>5, <1>7
  <2>2. CASE i <= Len(u)
    <3>1. i + 1 <= Len(s) /\ i \in 1 .. Len(u)  BY <2>2, <1>2, <1>6
    <3>2. c[i + 1] = s[i + 1]  BY <2>1, <3>1, <1>8
    <3>3. r[i] = u[i]  BY <2>1, <2>2, <1>7
    <3> QED  BY <2>1, <3>1, <3>2, <3>3, <1>6
  <2>3. CASE i > Len(u)
    <3>1. ~(i + 1 <= Len(s)) /\ ~(i <= Len(u)) /\ i + 1 - Len(s) = i - Len(u)
      BY <2>3, <1>2, <1>6
    <3>2. c[i + 1] = t[i + 1 - Len(s)]  BY <2>1, <3>1, <1>8
    <3>3. r[i] = t[i - Len(u)]  BY <2>1, <3>1, <1>7
    <3> QED  BY <2>1, <3>1, <3>2, <3>3
  <2>4. i <= Len(u) \/ i > Len(u)  BY <1>2, <1>6
  <2> QED  BY <2>2, <2>3, <2>4
<1>10. l = r  BY <1>5, <1>7, <1>9, SeqEqual
<1> QED  BY <1>10 DEF l, r, c, u

\* A reader that is about to release holds the oldest bytes; what a writer is
\* about to publish is in free slots that tx_in will pass.
HeldOK ==
  op = "read_release" =>
    /\ Len(piece) <= Filled(rx_in, rx_out)
    /\ \A k \in 1 .. Len(piece) : piece[k] = Ring(rx_buf, rx_in, rx_out)[k]
PlacedOK ==
  op = "write_publish" =>
    /\ tx_in + Len(piece) <= BUF_LEN
    /\ Filled(tx_in, tx_out) + Len(piece) <= BUF_LEN - 1
    /\ \A k \in 1 .. Len(piece) : tx_buf[tx_in + k - 1] = piece[k]

RxRing == Ring(rx_buf, rx_in, rx_out)
TxRing == Ring(tx_buf, tx_in, tx_out)

LEMMA RingTypes ==
  ASSUME TypeInv
  PROVE  /\ hw_rx \in Seq(Bytes) /\ hw_tx \in Seq(Bytes) /\ piece \in Seq(Bytes)
         /\ rx_in \in Slots /\ rx_out \in Slots /\ rx_buf \in [Slots -> Bytes]
         /\ tx_in \in Slots /\ tx_out \in Slots /\ tx_buf \in [Slots -> Bytes]
         /\ RxRing \in Seq(Bytes) /\ Len(RxRing) = Filled(rx_in, rx_out)
         /\ TxRing \in Seq(Bytes) /\ Len(TxRing) = Filled(tx_in, tx_out)
         /\ Filled(rx_in, rx_out) \in 0 .. BUF_LEN - 1
         /\ Filled(tx_in, tx_out) \in 0 .. BUF_LEN - 1
<1>1. /\ hw_rx \in Seq(Bytes) /\ hw_tx \in Seq(Bytes) /\ piece \in Seq(Bytes)
      /\ rx_in \in Slots /\ rx_out \in Slots /\ rx_buf \in [Slots -> Bytes]
      /\ tx_in \in Slots /\ tx_out \in Slots /\ tx_buf \in [Slots -> Bytes]
  BY DEF TypeInv, DeviceOK, RingsOK, ThreadOK
<1>2. RxRing \in Seq(Bytes) /\ Len(RxRing) = Filled(rx_in, rx_out)
  BY <1>1, RingSeq DEF RxRing
<1>3. TxRing \in Seq(Bytes) /\ Len(TxRing) = Filled(tx_in, tx_out)
  BY <1>1, RingSeq DEF TxRing
<1>4. /\ Filled(rx_in, rx_out) \in 0 .. BUF_LEN - 1
      /\ Filled(tx_in, tx_out) \in 0 .. BUF_LEN - 1
  BY <1>1, FilledRange
<1> QED  BY <1>1, <1>2, <1>3, <1>4

\* The handler appends the device's oldest byte to the ring.
LEMMA ReceiveAppends ==
  ASSUME TypeInv, IrqReceive
  PROVE  /\ RxRing' = RxRing \o <<Head(hw_rx)>>
         /\ Filled(rx_in', rx_out') = Filled(rx_in, rx_out) + 1
<1> DEFINE b == Head(hw_rx)
<1>0. /\ hw_rx # <<>> /\ (rx_in + 1) % BUF_LEN # rx_out
      /\ rx_buf' = [rx_buf EXCEPT ![rx_in] = b]
      /\ rx_in' = (rx_in + 1) % BUF_LEN /\ rx_out' = rx_out
  BY DEF IrqReceive
<1>1. b \in Bytes  BY <1>0, RingTypes, HeadTailProperties
<1> HIDE DEF b
<1>2. /\ rx_in \in Slots /\ rx_out \in Slots /\ rx_in \in Nat
      /\ Filled(rx_in, rx_out) + 1 <= BUF_LEN - 1 /\ rx_in + 1 <= BUF_LEN
  <2>1. rx_in \in Slots /\ rx_out \in Slots  BY RingTypes
  <2>2. Filled(rx_in, rx_out) # BUF_LEN - 1  BY <1>0, <2>1, Full
  <2>3. Filled(rx_in, rx_out) \in 0 .. BUF_LEN - 1  BY <2>1, FilledRange
  <2> QED  BY <2>1, <2>2, <2>3, UartConstants
<1>3. /\ rx_buf' \in [Slots -> Bytes] /\ rx_buf'[rx_in] = b
      /\ \A s \in Slots : s # rx_in => rx_buf'[s] = rx_buf[s]
  BY <1>0, <1>1, <1>2, RingTypes
<1>4. ASSUME NEW k \in 1 .. Filled(rx_in, rx_out)
      PROVE  rx_buf'[Slot(rx_out, k)] = rx_buf[Slot(rx_out, k)]
  <2>1. Slot(rx_out, k) < rx_in \/ Slot(rx_out, k) >= rx_in + 1  BY <1>2, FreeSlots
  <2>2. Slot(rx_out, k) \in Slots  BY <1>2, RingTypes, RingSeq
  <2>3. Slot(rx_out, k) # rx_in  BY <1>2, <2>1, <2>2, UartConstants
  <2> QED  BY <1>3, <2>2, <2>3
<1>5. Ring(rx_buf', rx_in, rx_out) = RxRing  BY <1>2, <1>4, RingKept DEF RxRing
<1> DEFINE d == <<b>>
<1>6. d \in Seq(Bytes) /\ Len(d) = 1 /\ d[1] = b  BY <1>1
<1> HIDE DEF d
<1>7. \A k \in 1 .. Len(d) : rx_buf'[rx_in + k - 1] = d[k]
  <2>1. rx_in + 1 - 1 = rx_in  BY <1>2
  <2>2. rx_buf'[rx_in + 1 - 1] = d[1]  BY <2>1, <1>3, <1>6
  <2> QED  BY <2>2, <1>6
<1>8. Ring(rx_buf', (rx_in + Len(d)) % BUF_LEN, rx_out) = Ring(rx_buf', rx_in, rx_out) \o d
  <2>1. rx_in + Len(d) <= BUF_LEN /\ Filled(rx_in, rx_out) + Len(d) <= BUF_LEN - 1
    BY <1>2, <1>6
  <2> QED  BY <1>2, <1>3, <1>6, <1>7, <2>1, RingGrows
<1>9. RxRing' = RxRing \o d  BY <1>0, <1>5, <1>6, <1>8 DEF RxRing
<1>10. Filled(rx_in', rx_out') = Filled(rx_in, rx_out) + 1
  BY <1>0, <1>2, FilledGrows
<1> QED  BY <1>9, <1>10 DEF d, b

LEMMA StepHeld == TypeInv /\ HeldOK /\ [Next]_vars => HeldOK'
<1> SUFFICES ASSUME TypeInv, HeldOK, [Next]_vars PROVE HeldOK'
  OBVIOUS
<1>1. ASSUME UNCHANGED <<op, piece, rx_in, rx_out, rx_buf>> PROVE HeldOK'
  BY <1>1 DEF HeldOK
<1>2. ASSUME op' # "read_release" PROVE HeldOK'
  BY <1>2 DEF HeldOK
<1>3. CASE Irq \/ TimeoutCallback
  <2>1. CASE IrqReceive
    <3>1. UNCHANGED <<op, piece>>  BY <2>1 DEF IrqReceive, thread
    <3>2. CASE op = "read_release"
      <4> DEFINE b == <<Head(hw_rx)>>
      <4>1. b \in Seq(Bytes)
        BY <2>1, RingTypes, HeadTailProperties DEF IrqReceive
      <4>2. RxRing' = RxRing \o b /\ Filled(rx_in', rx_out') = Filled(rx_in, rx_out) + 1
        BY <2>1, ReceiveAppends
      <4> HIDE DEF b
      <4>3. /\ RxRing \in Seq(Bytes) /\ Len(RxRing) = Filled(rx_in, rx_out)
            /\ Filled(rx_in, rx_out) \in Nat /\ piece \in Seq(Bytes)
        BY RingTypes, UartConstants
      <4>4. \A k \in 1 .. Filled(rx_in, rx_out) : (RxRing \o b)[k] = RxRing[k]
        <5>1. \A i \in 1 .. Len(RxRing) + Len(b) :
                (RxRing \o b)[i] = IF i <= Len(RxRing) THEN RxRing[i] ELSE b[i - Len(RxRing)]
          BY <4>1, <4>3, ConcatProperties
        <5>2. Len(b) \in Nat  BY <4>1, LenProperties
        <5> QED  BY <4>3, <5>1, <5>2
      <4>5. /\ Len(piece) <= Filled(rx_in, rx_out) /\ Len(piece) \in Nat
            /\ \A k \in 1 .. Len(piece) : piece[k] = RxRing[k]
        BY <3>2, <4>3, LenProperties DEF HeldOK, RxRing
      <4>6. /\ Len(piece') <= Filled(rx_in', rx_out')
            /\ \A k \in 1 .. Len(piece') : piece'[k] = RxRing'[k]
        BY <3>1, <4>2, <4>3, <4>4, <4>5
      <4> QED  BY <4>6 DEF HeldOK, RxRing
    <3> QED  BY <1>2, <3>1, <3>2
  <2>2. CASE ~IrqReceive
    BY <1>1, <1>3, <2>2 DEF Irq, TimeoutCallback, IrqControl, IrqReceived, IrqTransmit,
                            IrqTransmitted, rx_ring, thread
  <2> QED  BY <2>1, <2>2
<1>4. CASE ReadCopy
  <2> DEFINE n == AtMost(Readable(rx_in, rx_out), left)
  <2>1. /\ n \in 1 .. left /\ n <= Filled(rx_in, rx_out) /\ rx_out + n <= BUF_LEN
        /\ Len(piece') = n /\ \A k \in 1 .. n : piece'[k] = rx_buf[rx_out + k - 1]
    BY <1>4, CopiedPiece
  <2>2. UNCHANGED <<rx_in, rx_out, rx_buf>>  BY <1>4 DEF ReadCopy, rx_ring
  <2> HIDE DEF n
  <2>3. ASSUME NEW k \in 1 .. n PROVE piece'[k] = RxRing[k]
    <3>1. n \in Nat /\ Filled(rx_in, rx_out) \in 0 .. BUF_LEN - 1 /\ rx_out \in Slots
      BY <2>1, RingTypes DEF TypeInv, ThreadOK
    <3>2. k \in 1 .. Filled(rx_in, rx_out) /\ k \in 1 .. BUF_LEN /\ rx_out + k - 1 < BUF_LEN
      BY <2>1, <3>1, UartConstants
    <3>3. Slot(rx_out, k) = rx_out + k - 1
      <4>1. rx_out + k - 1 < BUF_LEN => Slot(rx_out, k) = rx_out + k - 1
        BY <3>1, <3>2, SlotRange
      <4> QED  BY <3>2, <4>1
    <3>4. RxRing[k] = rx_buf[Slot(rx_out, k)]
      <4>1. rx_buf \in [Slots -> Bytes] /\ rx_in \in Slots /\ rx_out \in Slots
        BY RingTypes
      <4> QED  BY <3>2, <4>1, RingSeq DEF RxRing
    <3> QED  BY <2>1, <3>3, <3>4
  <2> QED  BY <2>1, <2>2, <2>3 DEF HeldOK, RxRing
<1>5. CASE Continue /\ ~ReadCopy
  BY <1>2, <1>5 DEF Continue, Return, Running, ReadRelease, ReadEmpty, ReadWait, ReadEnable,
     WriteCopy, WritePublish, WriteFull, WriteEnable, WriteWait, CloseWait
<1>6. CASE Start
  BY <1>2, <1>6 DEF Start, ReadCall, WriteCall, CloseCall, Call, IoctlTimeout,
     IoctlConnected, Running
<1>7. ASSUME NEW b \in Bytes, HostSends(b) PROVE HeldOK'
  BY <1>1, <1>7 DEF HostSends, rx_ring, thread
<1>8. CASE HostTakes \/ HostPolls \/ UNCHANGED vars
  BY <1>1, <1>8 DEF HostTakes, HostPolls, vars, rx_ring, thread
<1> QED  BY <1>3, <1>4, <1>5, <1>6, <1>7, <1>8 DEF Next

\* The handler moves on past the oldest byte of tx_buf.
LEMMA TransmitShrinks ==
  ASSUME TypeInv, IrqTransmit
  PROVE  /\ TxRing = <<tx_buf[tx_out]>> \o TxRing'
         /\ Filled(tx_in', tx_out') = Filled(tx_in, tx_out) - 1
<1> DEFINE d == <<tx_buf[tx_out]>>
<1>0. /\ tx_out # tx_in /\ tx_out' = (tx_out + 1) % BUF_LEN
      /\ tx_in' = tx_in /\ tx_buf' = tx_buf
  BY DEF IrqTransmit
<1>1. tx_in \in Slots /\ tx_out \in Slots /\ tx_buf \in [Slots -> Bytes]  BY RingTypes
<1>2. d \in Seq(Bytes) /\ Len(d) = 1 /\ d[1] = tx_buf[tx_out]  BY <1>1
<1> HIDE DEF d
<1>3. Filled(tx_in, tx_out) \in Nat /\ Filled(tx_in, tx_out) >= 1
  <2>1. Filled(tx_in, tx_out) \in 0 .. BUF_LEN - 1 /\ Filled(tx_in, tx_out) # 0
    BY <1>0, <1>1, FilledRange
  <2> QED  BY <2>1, UartConstants
<1>4. TxRing[1] = tx_buf[tx_out]
  <2>1. TxRing[1] = tx_buf[Slot(tx_out, 1)]
    <3>1. 1 \in 1 .. Filled(tx_in, tx_out)  BY <1>3
    <3> QED  BY <1>1, <3>1, RingSeq DEF TxRing
  <2> QED  BY <1>1, <2>1, OldestSlot
<1>5. TxRing = d \o Ring(tx_buf, tx_in, (tx_out + Len(d)) % BUF_LEN)
  <2>1. Len(d) <= Filled(tx_in, tx_out) /\ \A k \in 1 .. Len(d) : d[k] = TxRing[k]
    BY <1>2, <1>3, <1>4
  <2> QED  BY <1>1, <1>2, <2>1, RingShrinks DEF TxRing
<1>6. TxRing = d \o TxRing'  BY <1>0, <1>2, <1>5 DEF TxRing
<1>7. Filled(tx_in', tx_out') = Filled(tx_in, tx_out) - 1
  BY <1>0, <1>1, <1>3, FilledShrinks
<1> QED  BY <1>6, <1>7 DEF d

LEMMA StepPlaced == TypeInv /\ PlacedOK /\ [Next]_vars => PlacedOK'
<1> SUFFICES ASSUME TypeInv, PlacedOK, [Next]_vars PROVE PlacedOK'
  OBVIOUS
<1>1. ASSUME UNCHANGED <<op, piece, tx_in, tx_out, tx_buf>> PROVE PlacedOK'
  BY <1>1 DEF PlacedOK
<1>2. ASSUME op' # "write_publish" PROVE PlacedOK'
  BY <1>2 DEF PlacedOK
<1>3. CASE Irq \/ TimeoutCallback
  <2>1. CASE IrqTransmit
    <3>1. UNCHANGED <<op, piece, tx_in, tx_buf>>  BY <2>1 DEF IrqTransmit, thread
    <3>2. Filled(tx_in', tx_out') = Filled(tx_in, tx_out) - 1  BY <2>1, TransmitShrinks
    <3>3. /\ Filled(tx_in, tx_out) \in Int /\ Len(piece) \in Int /\ BUF_LEN \in Int
          /\ tx_in' = tx_in
      BY <3>1, RingTypes, LenProperties, UartConstants
    <3>4. CASE op = "write_publish"
      <4>1. Filled(tx_in, tx_out) + Len(piece) <= BUF_LEN - 1  BY <3>4 DEF PlacedOK
      <4>2. Filled(tx_in', tx_out') + Len(piece) <= BUF_LEN - 1  BY <3>2, <3>3, <4>1
      <4> QED  BY <3>1, <3>4, <4>2 DEF PlacedOK
    <3> QED  BY <1>2, <3>1, <3>4
  <2>2. CASE ~IrqTransmit
    BY <1>1, <1>3, <2>2 DEF Irq, TimeoutCallback, IrqControl, IrqReceive, IrqReceived,
                            IrqTransmitted, tx_ring, thread
  <2> QED  BY <2>1, <2>2
<1>4. CASE WriteCopy
  <2>1. UNCHANGED <<tx_in, tx_out>>  BY <1>4 DEF WriteCopy
  <2> QED  BY <1>4, <2>1, GivenPiece DEF PlacedOK
<1>5. CASE Continue /\ ~WriteCopy
  BY <1>2, <1>5 DEF Continue, Return, Running, ReadCopy, ReadRelease, ReadEmpty, ReadWait,
     ReadEnable, WritePublish, WriteFull, WriteEnable, WriteWait, CloseWait
<1>6. CASE Start
  BY <1>2, <1>6 DEF Start, ReadCall, WriteCall, CloseCall, Call, IoctlTimeout,
     IoctlConnected, Running
<1>7. ASSUME NEW b \in Bytes, HostSends(b) PROVE PlacedOK'
  BY <1>1, <1>7 DEF HostSends, tx_ring, thread
<1>8. CASE HostTakes \/ HostPolls \/ UNCHANGED vars
  BY <1>1, <1>8 DEF HostTakes, HostPolls, vars, tx_ring, thread
<1> QED  BY <1>3, <1>4, <1>5, <1>6, <1>7, <1>8 DEF Next

LEMMA StepReceivesInOrder ==
  ASSUME TypeInv, HeldOK, [Next]_vars
  PROVE  \/ \E b \in Bytes : HostSends(b) /\ Incoming' = Append(Incoming, b)
         \/ ReadRelease /\ Incoming = piece \o Incoming'
         \/ UNCHANGED Incoming
<1>0. /\ hw_rx \in Seq(Bytes) /\ RxRing \in Seq(Bytes) /\ piece \in Seq(Bytes)
      /\ Incoming = RxRing \o hw_rx /\ Incoming' = RxRing' \o hw_rx'
  BY RingTypes DEF Incoming, RxRing
<1>1. ASSUME UNCHANGED <<rx_in, rx_out, rx_buf, hw_rx>> PROVE UNCHANGED Incoming
  BY <1>1 DEF Incoming
<1>2. ASSUME NEW b \in Bytes, HostSends(b) PROVE Incoming' = Append(Incoming, b)
  <2>1. RxRing' = RxRing /\ hw_rx' = Append(hw_rx, b)
    BY <1>2 DEF HostSends, rx_ring, RxRing
  <2>2. <<b>> \in Seq(Bytes)  OBVIOUS
  <2>3. /\ Append(hw_rx, b) = hw_rx \o <<b>>
        /\ Append(RxRing \o hw_rx, b) = (RxRing \o hw_rx) \o <<b>>
    BY <1>0, AppendIsConcat, ConcatProperties
  <2>4. RxRing \o (hw_rx \o <<b>>) = (RxRing \o hw_rx) \o <<b>>
    BY <1>0, <2>2, ConcatAssociative
  <2> QED  BY <1>0, <2>1, <2>3, <2>4
<1>3. CASE IrqReceive
  <2>1. RxRing' = RxRing \o <<Head(hw_rx)>>  BY <1>3, ReceiveAppends
  <2>2. hw_rx # <<>> /\ hw_rx' = Tail(hw_rx)  BY <1>3 DEF IrqReceive
  <2>3. /\ <<Head(hw_rx)>> \in Seq(Bytes) /\ Tail(hw_rx) \in Seq(Bytes)
        /\ hw_rx = <<Head(hw_rx)>> \o Tail(hw_rx)
    BY <1>0, <2>2, HeadFirst
  <2>4. (RxRing \o <<Head(hw_rx)>>) \o Tail(hw_rx) = RxRing \o (<<Head(hw_rx)>> \o Tail(hw_rx))
    BY <1>0, <2>3, ConcatAssociative
  <2> QED  BY <1>0, <2>1, <2>2, <2>3, <2>4
<1>4. CASE ReadRelease
  <2>1. /\ op = "read_release" /\ rx_out' = (rx_out + Len(piece)) % BUF_LEN
        /\ UNCHANGED <<rx_in, rx_buf, hw_rx>>
    BY <1>4 DEF ReadRelease, Running, device
  <2>2. /\ Len(piece) <= Filled(rx_in, rx_out)
        /\ \A k \in 1 .. Len(piece) : piece[k] = Ring(rx_buf, rx_in, rx_out)[k]
    BY <2>1 DEF HeldOK
  <2>3. RxRing = piece \o RxRing'
    <3>1. rx_buf \in [Slots -> Bytes] /\ rx_in \in Slots /\ rx_out \in Slots
      BY RingTypes
    <3>2. RxRing = piece \o Ring(rx_buf, rx_in, (rx_out + Len(piece)) % BUF_LEN)
      BY <1>0, <2>2, <3>1, RingShrinks DEF RxRing
    <3> QED  BY <2>1, <3>2 DEF RxRing
  <2>4. RxRing' \in Seq(Bytes)
    <3>1. rx_out' \in Slots
      <4>1. Len(piece) \in 0 .. BUF_LEN
        BY UartConstants, LenProperties DEF TypeInv, ThreadOK
      <4> QED  BY <2>1, <4>1, Wrap, RingTypes
    <3> QED  BY <2>1, <3>1, RingTypes, RingSeq DEF RxRing
  <2>5. (piece \o RxRing') \o hw_rx = piece \o (RxRing' \o hw_rx)
    BY <1>0, <2>4, ConcatAssociative
  <2> QED  BY <1>0, <1>4, <2>1, <2>3, <2>5
<1>5. CASE (Irq \/ TimeoutCallback) /\ ~IrqReceive
  BY <1>1, <1>5 DEF Irq, TimeoutCallback, IrqControl, IrqReceived, IrqTransmit,
                    IrqTransmitted, rx_ring, device
<1>6. CASE Continue /\ ~ReadRelease
  <2>1. CASE ReadCopy \/ ReadEmpty \/ ReadWait \/ ReadEnable
    BY <1>1, <2>1 DEF ReadCopy, ReadEmpty, ReadWait, ReadEnable, rx_ring, device
  <2>2. CASE WriteCopy \/ WritePublish \/ WriteFull
    BY <1>1, <2>2 DEF WriteCopy, WritePublish, WriteFull, rx_ring, device
  <2>3. CASE WriteEnable \/ WriteWait \/ CloseWait
    BY <1>1, <2>3 DEF WriteEnable, WriteWait, CloseWait, rx_ring, device
  <2> QED  BY <1>6, <2>1, <2>2, <2>3 DEF Continue
<1>7. CASE Start
  BY <1>1, <1>7 DEF Start, ReadCall, WriteCall, CloseCall, Call, IoctlTimeout,
     IoctlConnected, rx_ring, device
<1>8. CASE HostTakes \/ HostPolls \/ UNCHANGED vars
  BY <1>1, <1>8 DEF HostTakes, HostPolls, vars, rx_ring, device
<1> QED  BY <1>2, <1>3, <1>4, <1>5, <1>6, <1>7, <1>8 DEF Next

\* Whatever the handler does between a reader's copy and its release, the bytes
\* come out as the host sent them: none lost, doubled, or out of turn.
THEOREM ReceivePathIsFifo == Spec => ReceivesInOrder
<1> DEFINE Step == \/ \E b \in Bytes : HostSends(b) /\ Incoming' = Append(Incoming, b)
                   \/ ReadRelease /\ Incoming = piece \o Incoming'
                   \/ UNCHANGED Incoming
<1>1. Init => TypeInv /\ HeldOK  BY InitTypes DEF Init, HeldOK
<1>2. TypeInv /\ HeldOK /\ [Next]_vars => (TypeInv /\ HeldOK)'
  BY StepTypes, StepHeld
<1>3. TypeInv /\ HeldOK /\ [Next]_vars => [Step]_vars
  BY StepReceivesInOrder
<1>4. Spec => [][Step]_vars
  <2> HIDE DEF Step
  <2> QED  BY <1>1, <1>2, <1>3, PTL DEF Spec
<1> QED  BY <1>4 DEF ReceivesInOrder

LEMMA StepTransmitsInOrder ==
  ASSUME TypeInv, PlacedOK, [Next]_vars
  PROVE  \/ WritePublish /\ Outgoing' = Outgoing \o piece
         \/ HostTakes /\ Outgoing' = Tail(Outgoing)
         \/ UNCHANGED Outgoing
<1>0. /\ hw_tx \in Seq(Bytes) /\ TxRing \in Seq(Bytes) /\ piece \in Seq(Bytes)
      /\ Outgoing = hw_tx \o TxRing /\ Outgoing' = hw_tx' \o TxRing'
  BY RingTypes DEF Outgoing, TxRing
<1>1. ASSUME UNCHANGED <<tx_in, tx_out, tx_buf, hw_tx>> PROVE UNCHANGED Outgoing
  BY <1>1 DEF Outgoing
<1>2. CASE HostTakes
  <2>1. TxRing' = TxRing /\ hw_tx # <<>> /\ hw_tx' = Tail(hw_tx)
    BY <1>2 DEF HostTakes, tx_ring, TxRing
  <2>2. Tail(hw_tx \o TxRing) = Tail(hw_tx) \o TxRing  BY <1>0, <2>1, TailOfConcat
  <2> QED  BY <1>0, <1>2, <2>1, <2>2
<1>3. CASE IrqTransmit
  <2>1. tx_buf[tx_out] \in Bytes  BY RingTypes
  <2>2. TxRing = <<tx_buf[tx_out]>> \o TxRing'  BY <1>3, TransmitShrinks
  <2>3. hw_tx' = hw_tx \o <<tx_buf[tx_out]>>
    \* The room counted when the control register was read is still there.
    <3>1. Len(hw_tx) < TxDepth
      <4>1. space > 0 /\ space \in Int /\ space <= TxDepth - Len(hw_tx)
        BY <1>3, UartConstants DEF IrqTransmit, TypeInv, HandlerOK
      <4>2. Len(hw_tx) \in Int /\ TxDepth \in Int  BY <1>0, LenProperties, UartConstants
      <4> QED  BY <4>1, <4>2
    <3> QED  BY <1>0, <1>3, <2>1, <3>1, AppendIsConcat DEF IrqTransmit
  <2>4. TxRing' \in Seq(Bytes) /\ <<tx_buf[tx_out]>> \in Seq(Bytes)
    <3>1. tx_out \in Slots /\ tx_in \in Slots /\ tx_buf \in [Slots -> Bytes]
      BY RingTypes
    <3>2. tx_out' = (tx_out + 1) % BUF_LEN /\ UNCHANGED <<tx_in, tx_buf>>
      BY <1>3 DEF IrqTransmit
    <3>3. tx_out' \in Slots  BY <3>1, <3>2, NextIndex
    <3>4. TxRing' \in Seq(Bytes)  BY <3>1, <3>2, <3>3, RingSeq DEF TxRing
    <3> QED  BY <2>1, <3>4
  <2>5. (hw_tx \o <<tx_buf[tx_out]>>) \o TxRing' = hw_tx \o (<<tx_buf[tx_out]>> \o TxRing')
    BY <1>0, <2>4, ConcatAssociative
  <2> QED  BY <1>0, <2>2, <2>3, <2>5
<1>4. CASE WritePublish
  <2>1. /\ op = "write_publish" /\ tx_in' = (tx_in + Len(piece)) % BUF_LEN
        /\ UNCHANGED <<tx_out, tx_buf, hw_tx>>
    BY <1>4 DEF WritePublish, Running, device
  <2>2. /\ tx_in + Len(piece) <= BUF_LEN
        /\ Filled(tx_in, tx_out) + Len(piece) <= BUF_LEN - 1
        /\ \A k \in 1 .. Len(piece) : tx_buf[tx_in + k - 1] = piece[k]
    BY <2>1 DEF PlacedOK
  <2>3. TxRing' = TxRing \o piece
    <3>1. tx_buf \in [Slots -> Bytes] /\ tx_in \in Slots /\ tx_out \in Slots
      BY RingTypes
    <3>2. Ring(tx_buf, (tx_in + Len(piece)) % BUF_LEN, tx_out) = TxRing \o piece
      BY <1>0, <2>2, <3>1, RingGrows DEF TxRing
    <3> QED  BY <2>1, <3>2 DEF TxRing
  <2>4. hw_tx \o (TxRing \o piece) = (hw_tx \o TxRing) \o piece
    BY <1>0, ConcatAssociative
  <2> QED  BY <1>0, <1>4, <2>1, <2>3, <2>4
<1>5. CASE WriteCopy
  \* The writer fills free slots only.
  <2> DEFINE n == AtMost(Writable(tx_in, tx_out), left)
  <2>1. /\ n \in 1 .. left
        /\ Filled(tx_in, tx_out) + n <= BUF_LEN - 1 /\ tx_in + n <= BUF_LEN
        /\ \A s \in Slots : s < tx_in \/ s >= tx_in + n => tx_buf'[s] = tx_buf[s]
    BY <1>5, GivenPiece
  <2>2. UNCHANGED <<tx_in, tx_out, hw_tx>>  BY <1>5 DEF WriteCopy, device
  <2> HIDE DEF n
  <2>3. n \in Nat /\ tx_in \in Slots /\ tx_out \in Slots
    BY <2>1, RingTypes DEF TypeInv, ThreadOK
  <2>4. ASSUME NEW k \in 1 .. Filled(tx_in, tx_out)
        PROVE  tx_buf'[Slot(tx_out, k)] = tx_buf[Slot(tx_out, k)]
    <3>1. Slot(tx_out, k) < tx_in \/ Slot(tx_out, k) >= tx_in + n  BY <2>1, <2>3, FreeSlots
    <3>2. Slot(tx_out, k) \in Slots  BY <2>3, RingTypes, RingSeq
    <3> QED  BY <2>1, <3>1, <3>2
  <2>5. TxRing' = TxRing  BY <2>2, <2>3, <2>4, RingKept DEF TxRing
  <2> QED  BY <1>0, <2>2, <2>5
<1>6. CASE (Irq \/ TimeoutCallback) /\ ~IrqTransmit
  BY <1>1, <1>6 DEF Irq, TimeoutCallback, IrqControl, IrqReceive, IrqReceived,
                    IrqTransmitted, tx_ring, device
<1>7. CASE Continue /\ ~WriteCopy /\ ~WritePublish
  <2>1. CASE ReadCopy \/ ReadRelease \/ ReadEmpty \/ ReadWait \/ ReadEnable
    BY <1>1, <2>1 DEF ReadCopy, ReadRelease, ReadEmpty, ReadWait, ReadEnable, tx_ring, device
  <2>2. CASE WriteFull \/ WriteEnable \/ WriteWait \/ CloseWait
    BY <1>1, <2>2 DEF WriteFull, WriteEnable, WriteWait, CloseWait, tx_ring, device
  <2> QED  BY <1>7, <2>1, <2>2 DEF Continue
<1>8. CASE Start
  BY <1>1, <1>8 DEF Start, ReadCall, WriteCall, CloseCall, Call, IoctlTimeout,
     IoctlConnected, tx_ring, device
<1>9. ASSUME NEW b \in Bytes, HostSends(b) PROVE UNCHANGED Outgoing
  BY <1>1, <1>9 DEF HostSends, tx_ring
<1>10. CASE HostPolls \/ UNCHANGED vars
  BY <1>1, <1>10 DEF HostPolls, vars, tx_ring, device
<1> QED  BY <1>2, <1>3, <1>4, <1>5, <1>6, <1>7, <1>8, <1>9, <1>10 DEF Next

\* Bytes reach the host as they were written, though the handler empties tx_buf
\* while a writer fills it.
THEOREM TransmitPathIsFifo == Spec => TransmitsInOrder
<1> DEFINE Step == \/ WritePublish /\ Outgoing' = Outgoing \o piece
                   \/ HostTakes /\ Outgoing' = Tail(Outgoing)
                   \/ UNCHANGED Outgoing
<1>1. Init => TypeInv /\ PlacedOK  BY InitTypes DEF Init, PlacedOK
<1>2. TypeInv /\ PlacedOK /\ [Next]_vars => (TypeInv /\ PlacedOK)'
  BY StepTypes, StepPlaced
<1>3. TypeInv /\ PlacedOK /\ [Next]_vars => [Step]_vars
  BY StepTransmitsInOrder
<1>4. Spec => [][Step]_vars
  <2> HIDE DEF Step
  <2> QED  BY <1>1, <1>2, <1>3, PTL DEF Spec
<1> QED  BY <1>4 DEF TransmitsInOrder
=============================================================================
