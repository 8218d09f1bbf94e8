-------------------------- MODULE AvalonI2cProofs --------------------------
(***************************************************************************)
(* Theorems about AvalonI2c, for every depth of the FIFOs and every set of *)
(* sizes a caller may ask for.                                             *)
(*                                                                         *)
(* A transaction is with the thread (OwnedInv), with the interrupt handler *)
(* (HandedInv) or with nobody (FreeInv). Whoever has it, it is sound or    *)
(* broken. While it is sound, what the target has acknowledged, the        *)
(* command the core is playing, the transmit FIFO and the commands still   *)
(* to write are consecutive parts of one list, CommandAt(call, 1 ..), and  *)
(* what was received is the buffer followed by the receive FIFO. Once the  *)
(* bus has been refused or lost it is broken: both FIFOs are empty and a   *)
(* flag is up, which is where the driver finds out. This holds as long as  *)
(* no wait has given up (late = 0).                                        *)
(*                                                                         *)
(* Around that invariant: types (Types), what the place of the thread says *)
(* of its call (StageInv), what the core does at rest (LineInv) and who    *)
(* turned it off (OffInv).                                                 *)
(***************************************************************************)
EXTENDS AvalonI2c, SequenceTheorems, TLAPS

(* The types of the core, of the handler and of the thread.                *)
Bits == {0, 1}
Stages == {"tx", "rx", "query"}
Statuses == {"success", "busy", "nack", "arb_lost", "timeout", "bad_arg"}
Mishaps == {"none", "nack", "arb_lost", "overrun"}
Handlers == {"none", "drain", "wait"}
PCs == {"ready", "begin", "write", "check", "drain", "read", "wait", "arm",
        "end", "done", "abort"}
States == {"idle", "pre_idle", "pre_start", "address", "bus_hold", "tx_byte",
           "rx_byte", "gen_stop"}
Commanded == [val : Int, sta : BOOLEAN, sto : BOOLEAN]
Device ==
  [en : Bits, txthd : {"empty", "not_full"}, rxthd : {"one", "full"},
   iser : SUBSET {"tx_ready", "rx_ready"}, nack : Bits, arb : Bits,
   tx : Seq(Commanded), rx : Seq(Int), fsm : States, cmd : Commanded,
   rw : Int, sent : Nat]
Transactions ==
  [busy : 0 .. 2, size : Nat, buffer : Seq(Int), call : Calls \cup {NoCall}]

CoreTypes ==
  /\ dev \in Device
  /\ Len(dev.tx) <= Depth /\ Len(dev.rx) <= Depth
  /\ took \in Seq(Int) /\ mishap \in Mishaps
HandlerTypes ==
  irq \in Transactions /\ handler \in Handlers /\ registered \in Bits /\ late \in Bits
\* The call and which half of it is being run.
Staged ==
  /\ op \in Calls /\ stage \in {"tx", "rx"}
  /\ stage = "tx" => op.kind # "rx"
  /\ stage = "rx" => op.kind # "tx"
ThreadTypes ==
  /\ pc \in PCs /\ op \in Calls \cup {NoCall} /\ stage \in Stages
  /\ status \in Statuses /\ todo \in Seq(Commanded) /\ buffer \in Seq(Int)
  /\ pc \in {"write", "check", "drain"} => todo # <<>>
  /\ pc \notin {"ready", "done", "abort"} \/ (pc = "done" /\ stage # "query") => Staged
  /\ pc = "abort" => stage = "query"
Types == CoreTypes /\ HandlerTypes /\ ThreadTypes

-----------------------------------------------------------------------------
(* The bus side of a call: its commands, counted over both of its halves,  *)
(* and how far the core is through them.                                   *)
\* Commands of the transmit half, of the receive half, and of the call; where
\* a half starts and ends; bytes the target acknowledges.
LenTx(o) == IF o.kind = "rx" THEN 0 ELSE o.n + 1
LenRx(o) == IF o.kind = "tx" THEN 0 ELSE o.m + 1
LenAll(o) == LenTx(o) + LenRx(o)
StartOf(o, s) == IF s = "tx" THEN 0 ELSE LenTx(o)
EndOf(o, s) == IF s = "tx" THEN LenTx(o) ELSE LenAll(o)
Acks(o) == IF o.kind = "tx" THEN LenTx(o) ELSE LenTx(o) + 1

\* The i-th command of a call.
CommandAt(o, i) ==
  IF i <= LenTx(o)
  THEN [val |-> IF i = 1 THEN Write ELSE i - 1, sta |-> FALSE,
        sto |-> i = LenTx(o) /\ o.kind = "tx"]
  ELSE [val |-> IF i = LenTx(o) + 1 THEN Read ELSE 0,
        sta |-> i = LenTx(o) + 1 /\ o.kind = "tx_rx",
        sto |-> i = LenAll(o)]

\* Commands the core has taken out of the FIFO, those that are in it besides,
\* and bytes received.
Stopped == dev.fsm \in {"pre_idle", "idle"}
InFlight == dev.fsm \in {"address", "tx_byte", "rx_byte"}
Fetched(o) ==
  IF Stopped THEN LenAll(o) ELSE Len(took) + dev.sent + (IF InFlight THEN 1 ELSE 0)
WrittenSoFar(o) == Fetched(o) + Len(dev.tx)
Received(o) == IF Stopped THEN o.m ELSE dev.sent

\* The state of the core agrees with how much has been played.
Position(o) ==
  /\ Len(took) <= Acks(o)
  /\ dev.sent > 0 => Len(took) = LenTx(o) + 1
  /\ dev.fsm = "pre_start" => Len(took) = 0
  /\ dev.fsm = "address" => Len(took) = 0 \/ Len(took) = LenTx(o)
  /\ dev.fsm = "tx_byte" => Len(took) > 0 /\ Len(took) < LenTx(o)
  /\ dev.fsm = "rx_byte" => Len(took) = LenTx(o) + 1
  /\ dev.fsm = "bus_hold" => Len(took) > 0 /\ Fetched(o) < LenAll(o)
  /\ dev.fsm \in {"bus_hold", "tx_byte", "rx_byte"}
       => dev.rw = (IF Len(took) <= LenTx(o) THEN Write ELSE Read)
  /\ dev.fsm \in {"gen_stop", "pre_idle", "idle"} => Len(took) = Acks(o)
  /\ dev.fsm = "gen_stop" => Fetched(o) = LenAll(o)
  /\ WrittenSoFar(o) <= LenAll(o)

\* All that was and will be played is the call's list of commands, in order.
Playing(o) ==
  /\ Position(o)
  /\ \A i \in 1 .. Len(took) : took[i] = CommandAt(o, i).val
  /\ InFlight => dev.cmd = CommandAt(o, Fetched(o))
  /\ \A i \in 1 .. Len(dev.tx) : dev.tx[i] = CommandAt(o, Fetched(o) + i)

\* Buffer and FIFO hold what the target sent, unless the FIFO ran over.
Receiving(o, b) ==
  /\ Len(b) + Len(dev.rx) <= Received(o)
  /\ Len(b) + Len(dev.rx) = Received(o) =>
       /\ \A i \in 1 .. Len(b) : b[i] = i
       /\ \A i \in 1 .. Len(dev.rx) : dev.rx[i] = Len(b) + i

Refused == mishap \in {"nack", "arb_lost"}
Sound(o, b) == ~Refused /\ ~Flagged(dev) /\ Playing(o) /\ Receiving(o, b)
Broken ==
  /\ Refused
  /\ dev.tx = <<>> /\ dev.rx = <<>> /\ dev.fsm \in {"gen_stop", "pre_idle"}

-----------------------------------------------------------------------------
(* Lemmas about the operators.                                             *)
\* The numbers of a call.
LEMMA CallIs ==
  ASSUME NEW o \in Calls
  PROVE  /\ o.kind \in {"tx", "rx", "tx_rx"} /\ o.ints \in Bits
         /\ o.n \in Nat /\ o.m \in Nat /\ o # NoCall
         /\ o.kind = "tx" => o.n > 0 /\ o.m = 0
         /\ o.kind = "rx" => o.n = 0 /\ o.m > 0
         /\ o.kind = "tx_rx" => o.n > 0 /\ o.m > 0
         /\ LenTx(o) \in Nat /\ LenRx(o) \in Nat /\ LenAll(o) \in Nat
         /\ LenTx(o) # 1 /\ LenRx(o) # 1 /\ LenAll(o) = LenTx(o) + LenRx(o)
         /\ o.kind = "tx" => LenTx(o) = o.n + 1 /\ LenRx(o) = 0
         /\ o.kind = "rx" => LenTx(o) = 0 /\ LenRx(o) = o.m + 1
         /\ o.kind = "tx_rx" => LenTx(o) = o.n + 1 /\ LenRx(o) = o.m + 1
<1>1. \A n \in Sizes : n \in Nat /\ n > 0
  BY I2cConstants
<1>2. o.kind \in {"tx", "rx", "tx_rx"} /\ o # NoCall
  BY DEF Calls, NoCall
<1>3. /\ o.ints \in Bits /\ o.n \in Nat /\ o.m \in Nat
      /\ o.kind = "tx" => o.n > 0 /\ o.m = 0
      /\ o.kind = "rx" => o.n = 0 /\ o.m > 0
      /\ o.kind = "tx_rx" => o.n > 0 /\ o.m > 0
  BY <1>1 DEF Calls, Bits
<1> QED  BY <1>2, <1>3 DEF LenTx, LenRx, LenAll

\* The commands of a half, as the driver lists them, are those of the call
\* from where the half starts.
LEMMA CommandsAre ==
  ASSUME NEW o \in Calls, NEW s \in {"tx", "rx"},
         s = "tx" => o.kind # "rx", s = "rx" => o.kind # "tx"
  PROVE  LET c == Commands(o, s)
         IN  /\ c \in Seq(Commanded) /\ c # <<>>
             /\ StartOf(o, s) + Len(c) = EndOf(o, s)
             /\ \A i \in 1 .. Len(c) : c[i] = CommandAt(o, StartOf(o, s) + i)
             /\ s = "tx" => \A i \in 1 .. Len(c) : c[i].val # 0
<1> DEFINE size == IF s = "tx" THEN o.n ELSE o.m
           Byte(i) == [val |-> IF s = "tx" THEN i ELSE 0, sta |-> FALSE,
                       sto |-> i = size /\ Stop(o, s)]
           a == <<[val |-> IF s = "tx" THEN Write ELSE Read,
                   sta |-> Restart(o, s), sto |-> FALSE]>>
           b == [i \in 1 .. size |-> Byte(i)]
           c == Commands(o, s)
<1>1. c = a \o b
  BY DEF Commands
<1>2. /\ a \in Seq(Commanded) /\ Len(a) = 1
      /\ a[1] = [val |-> IF s = "tx" THEN Write ELSE Read,
                 sta |-> Restart(o, s), sto |-> FALSE]
  BY DEF Commanded, Write, Read, Restart
<1>3. size \in Nat /\ size > 0
  BY CallIs
<1>4. b \in Seq(Commanded) /\ Len(b) = size
  <2>1. \A i \in 1 .. size : Byte(i) \in Commanded
    BY DEF Commanded, Stop
  <2> HIDE DEF Byte
  <2>2. b \in [1 .. size -> Commanded]
    BY <2>1
  <2> HIDE DEF b, size
  <2> QED  BY <1>3, <2>2
<1> HIDE DEF a, size, c
<1>5. /\ c \in Seq(Commanded) /\ Len(c) = size + 1
      /\ c[1] = a[1] /\ \A i \in 2 .. size + 1 : c[i] = Byte(i - 1)
  <2>1. /\ a \o b \in Seq(Commanded) /\ Len(a \o b) = Len(a) + Len(b)
        /\ \A i \in 1 .. Len(a) + Len(b) :
             (a \o b)[i] = IF i <= Len(a) THEN a[i] ELSE b[i - Len(a)]
    BY <1>2, <1>4, ConcatProperties
  <2>2. \A i \in 1 .. size + 1 : c[i] = IF i <= 1 THEN a[i] ELSE b[i - 1]
    <3> HIDE DEF b
    <3> QED  BY <1>1, <1>2, <1>3, <1>4, <2>1
  <2>3. \A i \in 2 .. size + 1 : i - 1 \in 1 .. size /\ c[i] = b[i - 1]
    <3> HIDE DEF b
    <3> QED  BY <1>3, <2>2
  <2>4. \A j \in 1 .. size : b[j] = Byte(j)
    OBVIOUS
  <2>5. \A i \in 2 .. size + 1 : c[i] = Byte(i - 1)
    <3> HIDE DEF b, Byte
    <3> QED  BY <2>3, <2>4
  <2>6. c[1] = a[1]
    <3> HIDE DEF b
    <3> QED  BY <1>3, <2>2
  <2> HIDE DEF b, Byte
  <2> QED  BY <1>1, <1>2, <1>3, <1>4, <2>1, <2>5, <2>6
<1> HIDE DEF b
<1>6. c # <<>>
  BY <1>3, <1>5, EmptySeq
<1>7. CASE s = "tx"
  <2>1. size = o.n /\ LenTx(o) = size + 1 /\ StartOf(o, s) = 0 /\ EndOf(o, s) = size + 1
    BY <1>7, CallIs DEF size, LenTx, StartOf, EndOf
  <2>2. c[1] = CommandAt(o, 1) /\ c[1].val # 0
    <3>1. c[1] = [val |-> Write, sta |-> Restart(o, s), sto |-> FALSE]
      BY <1>2, <1>5, <1>7
    <3>2. Restart(o, s) = FALSE /\ (1 = LenTx(o) /\ o.kind = "tx") = FALSE /\ 1 <= LenTx(o)
      BY <1>3, <1>7, <2>1 DEF Restart
    <3>3. CommandAt(o, 1) = [val |-> Write, sta |-> FALSE, sto |-> FALSE]
      BY <3>2 DEF CommandAt
    <3>4. c[1] = CommandAt(o, 1)
      BY <3>1, <3>2, <3>3, Zenon
    <3>5. c[1].val # 0
      BY <3>3, <3>4 DEF Write
    <3> QED  BY <3>4, <3>5
  <2>3. ASSUME NEW i \in 2 .. size + 1 PROVE c[i] = CommandAt(o, i) /\ c[i].val # 0
    <3>1. c[i] = Byte(i - 1) /\ i <= LenTx(o) /\ i # 1
      BY <1>3, <1>5, <2>1
    <3>2. (i - 1 = size) = (i = LenTx(o))
      BY <1>3, <2>1
    <3>3. Stop(o, s) = (o.kind = "tx")
      BY <1>7, CallIs DEF Stop
    <3>4. CommandAt(o, i) = [val |-> i - 1, sta |-> FALSE,
                             sto |-> i = LenTx(o) /\ o.kind = "tx"]
      BY <3>1, Zenon DEF CommandAt
    <3>5. Byte(i - 1) = [val |-> i - 1, sta |-> FALSE,
                         sto |-> i = LenTx(o) /\ o.kind = "tx"]
      BY <1>7, <3>2, <3>3, Zenon
    <3>6. i - 1 # 0
      BY <1>3
    <3> HIDE DEF Byte
    <3> QED  BY <3>1, <3>4, <3>5, <3>6
  <2>4. ASSUME NEW i \in 1 .. Len(c)
        PROVE  c[i] = CommandAt(o, StartOf(o, s) + i) /\ c[i].val # 0
    <3>1. StartOf(o, s) + i = i /\ (i = 1 \/ i \in 2 .. size + 1)
      BY <1>3, <1>5, <2>1
    <3> QED  BY <2>2, <2>3, <3>1
  <2> QED  BY <1>3, <1>5, <1>6, <2>1, <2>4 DEF c
<1>8. CASE s = "rx"
  <2>1. /\ size = o.m /\ LenRx(o) = size + 1 /\ StartOf(o, s) = LenTx(o)
        /\ EndOf(o, s) = LenTx(o) + size + 1 /\ LenTx(o) \in Nat
        /\ LenAll(o) = LenTx(o) + size + 1
    BY <1>8, CallIs DEF size, LenRx, StartOf, EndOf, LenAll
  <2>2. c[1] = CommandAt(o, LenTx(o) + 1)
    <3>1. ~(LenTx(o) + 1 <= LenTx(o)) /\ LenTx(o) + 1 # LenAll(o)
      BY <1>3, <2>1
    <3>2. Restart(o, s) = (o.kind = "tx_rx")
      BY <1>8 DEF Restart
    <3>3. c[1] = [val |-> Read, sta |-> o.kind = "tx_rx", sto |-> FALSE]
      BY <1>2, <1>5, <1>8, <3>2, Zenon
    <3>4. /\ (LenTx(o) + 1 = LenAll(o)) = FALSE
          /\ (LenTx(o) + 1 = LenTx(o) + 1 /\ o.kind = "tx_rx") = (o.kind = "tx_rx")
      BY <3>1
    <3>5. CommandAt(o, LenTx(o) + 1) =
            [val |-> Read, sta |-> LenTx(o) + 1 = LenTx(o) + 1 /\ o.kind = "tx_rx",
             sto |-> LenTx(o) + 1 = LenAll(o)]
      BY <3>1, Zenon DEF CommandAt
    <3> QED  BY <3>3, <3>4, <3>5, Zenon
  <2>3. ASSUME NEW i \in 2 .. size + 1 PROVE c[i] = CommandAt(o, LenTx(o) + i)
    <3>1. c[i] = Byte(i - 1)
      BY <1>5
    <3>2. /\ ~(LenTx(o) + i <= LenTx(o)) /\ LenTx(o) + i # LenTx(o) + 1
          /\ i - 1 = size <=> LenTx(o) + i = LenAll(o)
      BY <1>3, <2>1
    <3>3. Stop(o, s)
      BY <1>8 DEF Stop
    <3> QED  BY <1>8, <3>1, <3>2, <3>3 DEF CommandAt
  <2>4. ASSUME NEW i \in 1 .. Len(c) PROVE c[i] = CommandAt(o, StartOf(o, s) + i)
    <3>1. i = 1 \/ i \in 2 .. size + 1
      BY <1>3, <1>5
    <3> QED  BY <2>1, <2>2, <2>3, <3>1
  <2>5. StartOf(o, s) + Len(c) = EndOf(o, s)
    BY <1>3, <1>5, <2>1
  <2> QED  BY <1>5, <1>6, <1>8, <2>4, <2>5 DEF c
<1> QED  BY <1>7, <1>8

\* Where the address, the start and the stop bits are.
LEMMA CommandFields ==
  ASSUME NEW o \in Calls, NEW i \in 1 .. LenAll(o)
  PROVE  /\ CommandAt(o, i).sta <=> (i = LenTx(o) + 1 /\ o.kind = "tx_rx")
         /\ CommandAt(o, i).sto <=> i = LenAll(o)
         /\ i = 1 /\ LenTx(o) > 0 => CommandAt(o, i).val = Write
         /\ i = LenTx(o) + 1 => CommandAt(o, i).val = Read
         /\ i > LenTx(o) + 1 => CommandAt(o, i).val = 0
<1>1. CASE i <= LenTx(o)
  <2>1. (i = LenTx(o) /\ o.kind = "tx") <=> i = LenAll(o)
    BY <1>1, CallIs
  <2>2. CommandAt(o, i) = [val |-> IF i = 1 THEN Write ELSE i - 1, sta |-> FALSE,
                           sto |-> i = LenTx(o) /\ o.kind = "tx"]
    BY <1>1, Zenon DEF CommandAt
  <2>3. i # LenTx(o) + 1 /\ ~(i > LenTx(o) + 1)
    BY <1>1, CallIs
  <2>4. CommandAt(o, i).sta = FALSE /\ CommandAt(o, i).val = IF i = 1 THEN Write ELSE i - 1
    BY <2>2
  <2>5. CASE i = LenAll(o)
    <3>1. CommandAt(o, i) = [val |-> IF i = 1 THEN Write ELSE i - 1, sta |-> FALSE,
                             sto |-> TRUE]
      BY <2>1, <2>2, <2>5, Zenon
    <3> QED  BY <2>3, <2>4, <2>5, <3>1
  <2>6. CASE i # LenAll(o)
    <3>1. CommandAt(o, i) = [val |-> IF i = 1 THEN Write ELSE i - 1, sta |-> FALSE,
                             sto |-> FALSE]
      BY <2>1, <2>2, <2>6, Zenon
    <3> QED  BY <2>3, <2>4, <2>6, <3>1
  <2> QED  BY <2>5, <2>6
<1>2. CASE ~(i <= LenTx(o))
  <2>1. CommandAt(o, i) = [val |-> IF i = LenTx(o) + 1 THEN Read ELSE 0,
                           sta |-> i = LenTx(o) + 1 /\ o.kind = "tx_rx",
                           sto |-> i = LenAll(o)]
    BY <1>2, Zenon DEF CommandAt
  <2>2. ~(i = 1 /\ LenTx(o) > 0) /\ LenTx(o) \in Nat
    BY <1>2, CallIs
  <2>3. CommandAt(o, i).val = IF i = LenTx(o) + 1 THEN Read ELSE 0
    BY <2>1
  <2>4. i > LenTx(o) + 1 => i # LenTx(o) + 1
    BY CallIs
  <2> DEFINE again == i = LenTx(o) + 1 /\ o.kind = "tx_rx"
             last == i = LenAll(o)
  <2>5. ASSUME NEW a \in BOOLEAN, NEW l \in BOOLEAN, again <=> a, last <=> l
        PROVE  CommandAt(o, i).sta = a /\ CommandAt(o, i).sto = l
    <3>1. CommandAt(o, i) = [val |-> IF i = LenTx(o) + 1 THEN Read ELSE 0,
                             sta |-> a, sto |-> l]
      BY <2>1, <2>5, Zenon
    <3> QED  BY <3>1
  <2>6. CASE again /\ last
    <3>1. CommandAt(o, i).sta = TRUE /\ CommandAt(o, i).sto = TRUE
      BY <2>5, <2>6, Zenon
    <3> QED  BY <2>2, <2>3, <2>4, <2>6, <3>1
  <2>7. CASE again /\ ~last
    <3>1. CommandAt(o, i).sta = TRUE /\ CommandAt(o, i).sto = FALSE
      BY <2>5, <2>7, Zenon
    <3> QED  BY <2>2, <2>3, <2>4, <2>7, <3>1
  <2>8. CASE ~again /\ last
    <3>1. CommandAt(o, i).sta = FALSE /\ CommandAt(o, i).sto = TRUE
      BY <2>5, <2>8, Zenon
    <3> QED  BY <2>2, <2>3, <2>4, <2>8, <3>1
  <2>9. CASE ~again /\ ~last
    <3>1. CommandAt(o, i).sta = FALSE /\ CommandAt(o, i).sto = FALSE
      BY <2>5, <2>9, Zenon
    <3> QED  BY <2>2, <2>3, <2>4, <2>9, <3>1
  <2> QED  BY <2>6, <2>7, <2>8, <2>9
<1> QED  BY <1>1, <1>2

\* What the target sends, byte by byte.
LEMMA UpToIs ==
  ASSUME NEW n \in Nat
  PROVE  /\ UpTo(n) \in Seq(Int) /\ Len(UpTo(n)) = n
         /\ \A i \in 1 .. n : UpTo(n)[i] = i
<1>1. UpTo(n) \in [1 .. n -> Int] /\ \A i \in 1 .. n : UpTo(n)[i] = i
  BY DEF UpTo
<1> QED  BY <1>1

\* What the target must have acknowledged, byte by byte.
LEMMA PlayedIs ==
  ASSUME NEW o \in Calls
  PROVE  /\ Played(o) \in Seq(Int) /\ Len(Played(o)) = Acks(o) /\ Acks(o) \in Nat
         /\ \A i \in 1 .. Acks(o) : Played(o)[i] = CommandAt(o, i).val
<1> DEFINE a == IF o.kind = "rx" THEN <<>> ELSE <<Write>> \o UpTo(o.n)
           b == IF o.kind = "tx" THEN <<>> ELSE <<Read>>
<1>1. Played(o) = a \o b
  BY DEF Played
<1>2. /\ <<Write>> \in Seq(Int) /\ Len(<<Write>>) = 1 /\ <<Write>>[1] = Write
      /\ <<Read>> \in Seq(Int) /\ Len(<<Read>>) = 1 /\ <<Read>>[1] = Read
      /\ <<>> \in Seq(Int) /\ Len(<<>>) = 0
  BY EmptySeq DEF Write, Read
<1>3. /\ o.n \in Nat /\ LenTx(o) \in Nat
      /\ o.kind # "rx" => LenTx(o) = o.n + 1
      /\ o.kind = "rx" => LenTx(o) = 0
  BY CallIs
<1>4. /\ a \in Seq(Int) /\ Len(a) = LenTx(o)
      /\ \A i \in 1 .. LenTx(o) : a[i] = IF i = 1 THEN Write ELSE i - 1
  <2>1. CASE o.kind = "rx"
    BY <1>2, <1>3, <2>1
  <2>2. CASE o.kind # "rx"
    <3> DEFINE u == UpTo(o.n)  w == <<Write>>
    <3>1. u \in Seq(Int) /\ Len(u) = o.n /\ \A i \in 1 .. o.n : u[i] = i
      BY <1>3, UpToIs
    <3>2. w \in Seq(Int) /\ Len(w) = 1 /\ w[1] = Write
      BY <1>2
    <3>3. a = w \o u
      BY <2>2
    <3> HIDE DEF u, w, a
    <3>4. /\ w \o u \in Seq(Int) /\ Len(w \o u) = Len(w) + Len(u)
          /\ \A i \in 1 .. Len(w) + Len(u) :
               (w \o u)[i] = IF i <= Len(w) THEN w[i] ELSE u[i - Len(w)]
      BY <3>1, <3>2, ConcatProperties
    <3>5. \A i \in 1 .. o.n + 1 : a[i] = IF i <= 1 THEN w[i] ELSE u[i - 1]
      BY <1>3, <3>1, <3>2, <3>3, <3>4
    <3>6. ASSUME NEW i \in 1 .. LenTx(o) PROVE a[i] = IF i = 1 THEN Write ELSE i - 1
      <4>1. CASE i = 1
        BY <1>3, <2>2, <3>2, <3>5, <4>1
      <4>2. CASE i # 1
        <5>1. i - 1 \in 1 .. o.n /\ ~(i <= 1) /\ i \in 1 .. o.n + 1
          BY <1>3, <2>2, <4>2
        <5> QED  BY <3>1, <3>5, <4>2, <5>1
      <4> QED  BY <4>1, <4>2
    <3> QED  BY <1>3, <2>2, <3>1, <3>2, <3>3, <3>4, <3>6
  <2> QED  BY <2>1, <2>2
<1>5. /\ b \in Seq(Int) /\ Len(b) = Acks(o) - LenTx(o) /\ Acks(o) \in Nat
      /\ Acks(o) \in {LenTx(o), LenTx(o) + 1}
      /\ Acks(o) = LenTx(o) + 1 => b[1] = Read
  <2>1. CASE o.kind = "tx"
    <3>1. b = <<>> /\ Acks(o) = LenTx(o)
      BY <2>1 DEF Acks
    <3> QED  BY <1>2, <1>3, <3>1
  <2>2. CASE o.kind # "tx"
    <3>1. b = <<Read>> /\ Acks(o) = LenTx(o) + 1
      BY <2>2 DEF Acks
    <3> HIDE DEF b
    <3>2. b \in Seq(Int) /\ Len(b) = 1 /\ b[1] = Read
      BY <1>2, <3>1
    <3> QED  BY <1>3, <3>1, <3>2
  <2> QED  BY <2>1, <2>2
<1> HIDE DEF a, b
<1>6. /\ a \o b \in Seq(Int) /\ Len(a \o b) = Len(a) + Len(b)
      /\ \A i \in 1 .. Len(a) + Len(b) :
           (a \o b)[i] = IF i <= Len(a) THEN a[i] ELSE b[i - Len(a)]
  BY <1>4, <1>5, ConcatProperties
<1>7. ASSUME NEW i \in 1 .. Acks(o) PROVE Played(o)[i] = CommandAt(o, i).val
  <2>1. Played(o)[i] = IF i <= LenTx(o) THEN a[i] ELSE b[i - LenTx(o)]
    BY <1>1, <1>3, <1>4, <1>5, <1>6
  <2>2. CASE i <= LenTx(o)
    BY <1>3, <1>4, <2>1, <2>2 DEF CommandAt
  <2>3. CASE ~(i <= LenTx(o))
    <3>1. i = LenTx(o) + 1 /\ i - LenTx(o) = 1 /\ Acks(o) = LenTx(o) + 1
      BY <1>3, <1>5, <2>3
    <3> QED  BY <1>5, <2>1, <2>3, <3>1 DEF CommandAt
  <2> QED  BY <2>2, <2>3
<1>8. Len(Played(o)) = Acks(o)
  BY <1>1, <1>3, <1>4, <1>5, <1>6
<1> QED  BY <1>1, <1>5, <1>6, <1>7, <1>8

\* Where the core goes from PRE_IDLE.
LEMMA SettledIs ==
  ASSUME NEW d \in Device
  PROVE  /\ Settled(d) \in Device
         /\ Settled(d) = [d EXCEPT !.fsm = Settled(d).fsm]
         /\ d.fsm # "pre_idle" => Settled(d) = d
         /\ d.fsm = "pre_idle" /\ d.tx # <<>> => Settled(d).fsm = "pre_start"
         /\ d.fsm = "pre_idle" /\ d.tx = <<>>
              => Settled(d).fsm = IF d.en = 0 THEN "idle" ELSE "pre_idle"
  BY DEF Settled, Device, States, Bits

\* A FIFO, when its first entry is taken out and when one is put in.
LEMMA OutOfFifo ==
  ASSUME NEW S, NEW s \in Seq(S), s # <<>>
  PROVE  /\ Head(s) \in S /\ Head(s) = s[1]
         /\ Tail(s) \in Seq(S) /\ Len(Tail(s)) = Len(s) - 1 /\ Len(s) \in Nat \ {0}
         /\ \A i \in 1 .. Len(s) - 1 : Tail(s)[i] = s[i + 1]
  BY HeadTailProperties, EmptySeq, LenProperties

LEMMA IntoFifo ==
  ASSUME NEW S, NEW s \in Seq(S), NEW e \in S
  PROVE  /\ Append(s, e) \in Seq(S) /\ Len(Append(s, e)) = Len(s) + 1
         /\ Len(s) \in Nat /\ Append(s, e)[Len(s) + 1] = e
         /\ \A i \in 1 .. Len(s) : Append(s, e)[i] = s[i]
  BY AppendProperties, LenProperties

\* No command, no transaction and an empty FIFO have their types.
LEMMA Nothings ==
  /\ NoCmd \in Commanded /\ NoIrq \in Transactions
  /\ <<>> \in Seq(Commanded) /\ <<>> \in Seq(Int) /\ Len(<<>>) = 0
<1>1. <<>> \in Seq(Commanded) /\ <<>> \in Seq(Int) /\ Len(<<>>) = 0
  BY EmptySeq
<1>2. NoCmd \in Commanded
  BY DEF NoCmd, Commanded
<1>3. NoIrq \in Transactions
  BY <1>1 DEF NoIrq, Transactions
<1> QED  BY <1>1, <1>2, <1>3

\* What the driver does to the registers, field by field.
LEMMA ClearedIs ==
  ASSUME NEW d \in Device
  PROVE  /\ Cleared(d) \in Device /\ ~Flagged(Cleared(d))
         /\ Cleared(d) = [d EXCEPT !.nack = 0, !.arb = 0]
         /\ Cleared(d).nack = 0 /\ Cleared(d).arb = 0 /\ Cleared(d).en = d.en
         /\ Cleared(d).tx = d.tx /\ Cleared(d).rx = d.rx /\ Cleared(d).fsm = d.fsm
         /\ Cleared(d).cmd = d.cmd /\ Cleared(d).rw = d.rw /\ Cleared(d).sent = d.sent
<1>1. Cleared(d) = [d EXCEPT !.nack = 0, !.arb = 0]
  BY DEF Cleared
<1>2. Cleared(d) \in Device
  BY <1>1 DEF Device, Bits
<1>3. /\ Cleared(d).nack = 0 /\ Cleared(d).arb = 0 /\ Cleared(d).en = d.en
      /\ Cleared(d).tx = d.tx /\ Cleared(d).rx = d.rx /\ Cleared(d).fsm = d.fsm
      /\ Cleared(d).cmd = d.cmd /\ Cleared(d).rw = d.rw /\ Cleared(d).sent = d.sent
  BY <1>1 DEF Device
<1> QED  BY <1>1, <1>2, <1>3 DEF Flagged

LEMMA EnabledIs ==
  ASSUME NEW d \in Device
  PROVE  /\ Cleared(Enabled(d)) \in Device /\ ~Flagged(Cleared(Enabled(d)))
         /\ Cleared(Enabled(d)).en = 1
         /\ Cleared(Enabled(d)).tx = d.tx /\ Cleared(Enabled(d)).rx = d.rx
         /\ Cleared(Enabled(d)).iser = d.iser /\ Cleared(Enabled(d)).sent = d.sent
         /\ Cleared(Enabled(d)).fsm = IF d.fsm = "idle" THEN "pre_start" ELSE d.fsm
<1> DEFINE e == Enabled(d)
<1>1. /\ e \in Device /\ e.en = 1 /\ e.tx = d.tx /\ e.rx = d.rx /\ e.iser = d.iser
      /\ e.sent = d.sent /\ e.fsm = IF d.fsm = "idle" THEN "pre_start" ELSE d.fsm
  BY DEF Enabled, Device, Bits, States
<1> HIDE DEF e
<1>2. /\ Cleared(e) \in Device /\ ~Flagged(Cleared(e))
      /\ Cleared(e) = [e EXCEPT !.nack = 0, !.arb = 0]
  BY <1>1, ClearedIs
<1>3. /\ Cleared(e).en = 1 /\ Cleared(e).tx = e.tx /\ Cleared(e).rx = e.rx
      /\ Cleared(e).iser = e.iser /\ Cleared(e).sent = e.sent /\ Cleared(e).fsm = e.fsm
  BY <1>1, <1>2 DEF Device
<1> QED  BY <1>1, <1>2, <1>3 DEF e

LEMMA DisabledIs ==
  ASSUME NEW d \in Device
  PROVE  /\ Disabled(d) \in Device
         /\ Disabled(d).en = 0
         /\ Disabled(d).tx = d.tx /\ Disabled(d).rx = d.rx /\ Disabled(d).iser = d.iser
         /\ Disabled(d).nack = d.nack /\ Disabled(d).arb = d.arb /\ Disabled(d).sent = d.sent
         /\ d.fsm = "pre_idle" /\ d.tx = <<>> => Disabled(d).fsm = "idle"
         /\ d.fsm # "pre_idle" => Disabled(d).fsm = d.fsm
<1> DEFINE e == [d EXCEPT !.en = 0]
<1>1. /\ e \in Device /\ e.en = 0 /\ e.tx = d.tx /\ e.rx = d.rx /\ e.iser = d.iser
      /\ e.nack = d.nack /\ e.arb = d.arb /\ e.fsm = d.fsm /\ e.sent = d.sent
  BY DEF Device, Bits
<1>2. Disabled(d) = Settled(e)
  BY DEF Disabled
<1> HIDE DEF e
<1>3. /\ Settled(e) \in Device /\ Settled(e) = [e EXCEPT !.fsm = Settled(e).fsm]
      /\ e.fsm # "pre_idle" => Settled(e) = e
      /\ e.fsm = "pre_idle" /\ e.tx = <<>> => Settled(e).fsm = IF e.en = 0 THEN "idle" ELSE "pre_idle"
  BY <1>1, SettledIs
<1> QED  BY <1>1, <1>2, <1>3 DEF Device

LEMMA PushedIs ==
  ASSUME NEW d \in Device, NEW c \in Commanded
  PROVE  /\ Pushed(d, c) \in Device
         /\ Pushed(d, c).en = d.en /\ Pushed(d, c).iser = d.iser
         /\ Pushed(d, c).nack = d.nack /\ Pushed(d, c).arb = d.arb
         /\ Pushed(d, c).rx = d.rx /\ Pushed(d, c).cmd = d.cmd
         /\ Pushed(d, c).rw = d.rw /\ Pushed(d, c).sent = d.sent
         /\ Flagged(d) => Pushed(d, c) = d
         /\ ~Flagged(d) => Pushed(d, c).tx = Append(d.tx, c)
         /\ ~Flagged(d) /\ d.fsm # "pre_idle" => Pushed(d, c).fsm = d.fsm
         /\ ~Flagged(d) /\ d.fsm = "pre_idle" => Pushed(d, c).fsm = "pre_start"
<1> DEFINE e == [d EXCEPT !.tx = Append(d.tx, c)]
<1>1. Append(d.tx, c) \in Seq(Commanded) /\ Append(d.tx, c) # <<>>
  <2>1. d.tx \in Seq(Commanded)
    BY DEF Device
  <2>2. Append(d.tx, c) \in Seq(Commanded) /\ Len(Append(d.tx, c)) = Len(d.tx) + 1
        /\ Len(d.tx) \in Nat
    BY <2>1, IntoFifo
  <2> QED  BY <2>2, Nothings
<1>2. e \in Device /\ e.tx = Append(d.tx, c) /\ e.fsm = d.fsm
  BY <1>1 DEF Device
<1>3. Pushed(d, c) = IF Flagged(d) THEN d ELSE Settled(e)
  BY DEF Pushed
<1> HIDE DEF e
<1>4. /\ Settled(e) \in Device /\ Settled(e) = [e EXCEPT !.fsm = Settled(e).fsm]
      /\ e.fsm # "pre_idle" => Settled(e) = e
      /\ e.fsm = "pre_idle" /\ e.tx # <<>> => Settled(e).fsm = "pre_start"
  BY <1>2, SettledIs
<1>5. CASE Flagged(d)
  BY <1>3, <1>5
<1>6. CASE ~Flagged(d)
  <2>1. Pushed(d, c) = Settled(e) /\ Settled(e).tx = Append(d.tx, c)
    BY <1>2, <1>3, <1>4, <1>6 DEF Device
  <2>2. /\ Settled(e).en = d.en /\ Settled(e).iser = d.iser
        /\ Settled(e).nack = d.nack /\ Settled(e).arb = d.arb
        /\ Settled(e).rx = d.rx /\ Settled(e).cmd = d.cmd
        /\ Settled(e).rw = d.rw /\ Settled(e).sent = d.sent
    <3>1. /\ e.en = d.en /\ e.iser = d.iser /\ e.nack = d.nack /\ e.arb = d.arb
          /\ e.rx = d.rx /\ e.cmd = d.cmd /\ e.rw = d.rw /\ e.sent = d.sent
      BY DEF e, Device
    <3> QED  BY <1>2, <1>4, <3>1 DEF Device
  <2>3. Settled(e).fsm = IF d.fsm = "pre_idle" THEN "pre_start" ELSE d.fsm
    BY <1>1, <1>2, <1>4
  <2> QED  BY <1>4, <1>6, <2>1, <2>2, <2>3
<1> QED  BY <1>5, <1>6

-----------------------------------------------------------------------------
(* Types.                                                                  *)
LEMMA CoreTypeStep ==
  ASSUME CoreTypes,
         CoreStarts \/ CoreContinues \/ CoreIsAcknowledged \/ CoreIsRefused
           \/ CoreLosesTheBus \/ CoreReceives \/ CoreStops
  PROVE  CoreTypes'
<1>0. /\ dev \in Device /\ Len(dev.tx) <= Depth /\ Len(dev.rx) <= Depth
      /\ dev.tx \in Seq(Commanded) /\ dev.rx \in Seq(Int)
      /\ took \in Seq(Int) /\ mishap \in Mishaps /\ Depth \in Nat \ {0}
  BY I2cConstants DEF CoreTypes, Device
<1>1. CASE CoreStarts
  <2>1. /\ Head(dev.tx) \in Commanded /\ Tail(dev.tx) \in Seq(Commanded)
        /\ Len(Tail(dev.tx)) <= Depth
    BY <1>0, <1>1, OutOfFifo DEF CoreStarts
  <2> QED  BY <1>0, <1>1, <2>1 DEF CoreStarts, CoreTypes, Device, States
<1>2. CASE CoreContinues
  <2>1. /\ Head(dev.tx) \in Commanded /\ Tail(dev.tx) \in Seq(Commanded)
        /\ Len(Tail(dev.tx)) <= Depth
    BY <1>0, <1>2, OutOfFifo DEF CoreContinues
  <2> QED  BY <1>0, <1>2, <2>1 DEF CoreContinues, CoreTypes, Device, States
<1>3. CASE CoreIsAcknowledged
  <2>1. dev.cmd.val \in Int /\ After(dev.cmd) \in States
    BY <1>0 DEF Device, Commanded, After, States
  <2>2. Append(took, dev.cmd.val) \in Seq(Int)
    BY <1>0, <2>1, IntoFifo
  <2> QED  BY <1>0, <1>3, <2>1, <2>2 DEF CoreIsAcknowledged, CoreTypes, Device
<1>4. CASE CoreIsRefused
  <2>1. dev' \in Device /\ dev'.tx = <<>> /\ dev'.rx = <<>>
    BY <1>0, <1>4, Nothings DEF CoreIsRefused, Device, States, Bits
  <2>2. took' = took /\ mishap' = "nack"
    BY <1>4 DEF CoreIsRefused
  <2> QED  BY <1>0, <2>1, <2>2, Nothings DEF CoreTypes, Mishaps
<1>5. CASE CoreLosesTheBus
  <2> DEFINE d == [dev EXCEPT !.fsm = "pre_idle", !.arb = 1, !.tx = <<>>, !.rx = <<>>,
                              !.cmd = NoCmd, !.sent = 0]
  <2>1. d \in Device /\ d.tx = <<>> /\ d.rx = <<>>
    BY <1>0, Nothings DEF Device, States, Bits
  <2>2. dev' = Settled(d) /\ took' = took /\ mishap' = "arb_lost"
    BY <1>5 DEF CoreLosesTheBus
  <2> HIDE DEF d
  <2>3. Settled(d) \in Device /\ Settled(d).tx = <<>> /\ Settled(d).rx = <<>>
    BY <2>1, SettledIs DEF Device
  <2> QED  BY <1>0, <2>2, <2>3, Nothings DEF CoreTypes, Mishaps
<1>6. CASE CoreReceives
  <2>1. /\ dev.sent + 1 \in Nat /\ Append(dev.rx, dev.sent + 1) \in Seq(Int)
        /\ Len(Append(dev.rx, dev.sent + 1)) = Len(dev.rx) + 1
        /\ Len(dev.rx) \in Nat /\ After(dev.cmd) \in States
    BY <1>0, IntoFifo DEF Device, After, States
  <2>2. CASE Flagged(dev) \/ Len(dev.rx) = Depth
    <3>1. dev' = [dev EXCEPT !.fsm = After(dev.cmd), !.sent = dev.sent + 1]
      BY <1>6, <2>2 DEF CoreReceives
    <3> QED  BY <1>0, <1>6, <2>1, <3>1 DEF CoreReceives, CoreTypes, Device, Mishaps
  <2>3. CASE ~(Flagged(dev) \/ Len(dev.rx) = Depth)
    <3>1. dev' = [dev EXCEPT !.fsm = After(dev.cmd), !.sent = dev.sent + 1,
                             !.rx = Append(dev.rx, dev.sent + 1)]
      BY <1>6, <2>3 DEF CoreReceives
    <3>2. Len(dev.rx) + 1 <= Depth
      BY <1>0, <2>1, <2>3
    <3> QED  BY <1>0, <1>6, <2>1, <3>1, <3>2 DEF CoreReceives, CoreTypes, Device, Mishaps
  <2> QED  BY <2>2, <2>3
<1>7. CASE CoreStops
  <2> DEFINE d == [dev EXCEPT !.fsm = "pre_idle", !.cmd = NoCmd, !.sent = 0]
  <2>1. d \in Device /\ d.tx = dev.tx /\ d.rx = dev.rx
    BY <1>0, Nothings DEF Device, States, Bits
  <2>2. dev' = Settled(d) /\ took' = took /\ mishap' = mishap
    BY <1>7 DEF CoreStops
  <2> HIDE DEF d
  <2>3. Settled(d) \in Device /\ Settled(d).tx = dev.tx /\ Settled(d).rx = dev.rx
    BY <2>1, SettledIs DEF Device
  <2> QED  BY <1>0, <2>2, <2>3 DEF CoreTypes, Mishaps
<1> QED  BY <1>1, <1>2, <1>3, <1>4, <1>5, <1>6, <1>7

LEMMA ThreadTypeStep ==
  ASSUME Types, Thread
  PROVE  Types'
<1> USE DEF Runs, Ends
<1>0. /\ dev \in Device /\ Len(dev.tx) <= Depth /\ Len(dev.rx) <= Depth
      /\ dev.tx \in Seq(Commanded) /\ dev.rx \in Seq(Int)
      /\ took \in Seq(Int) /\ mishap \in Mishaps /\ Depth \in Nat \ {0}
      /\ HandlerTypes /\ ThreadTypes /\ irq \in Transactions
      /\ <<>> \in Seq(Commanded) /\ <<>> \in Seq(Int) /\ Len(<<>>) = 0
  BY I2cConstants, Nothings DEF Types, CoreTypes, Device, HandlerTypes
<1>1. CASE RegisterHandler
  <2>1. irq' \in Transactions
    <3>1. irq \in Transactions /\ irq' = [irq EXCEPT !.busy = 0]
      BY <1>0, <1>1 DEF RegisterHandler
    <3> QED  BY <3>1 DEF Transactions
  <2>2. ThreadTypes'
    BY <1>0, <1>1 DEF RegisterHandler, ThreadTypes, Staged, thread
  <2>3. /\ registered' = 1 /\ 1 \in Bits
        /\ UNCHANGED <<dev, took, mishap, late, handler>>
    BY <1>1 DEF RegisterHandler, core, Bits
  <2> QED
    BY <1>0, <2>1, <2>2, <2>3 DEF Types, CoreTypes, HandlerTypes
<1>2. CASE Call
  <2>1. stage' \in Stages
    BY <1>2 DEF Call, FirstStage, Stages
  <2>2. /\ pc' = "begin" /\ op' \in Calls /\ todo' = <<>> /\ status' = "success"
        /\ buffer' = <<>> /\ stage' = FirstStage(op')
    BY <1>2 DEF Call
  <2>3. ThreadTypes'
    <3>1. Staged'
      BY <2>2, CallIs DEF Staged, FirstStage
    <3> QED  BY <1>0, <2>1, <2>2, <3>1 DEF ThreadTypes, Staged, PCs, Statuses
  <2> QED
    BY <1>0, <1>2, <2>3 DEF Call, Types, CoreTypes, HandlerTypes, core
<1>3. CASE Begin
  <2>1. Staged
    BY <1>0, <1>3 DEF Begin, ThreadTypes, Staged
  <2>2. Commands(op, stage) \in Seq(Commanded) /\ Commands(op, stage) # <<>>
    BY <2>1, CommandsAre DEF Staged
  <2>3. UNCHANGED <<late, handler, registered, op, stage, buffer>>
    BY <1>3 DEF Begin
  <2>4. /\ pc' \in {"end", "write"} /\ status' \in Statuses /\ todo' \in Seq(Commanded)
        /\ pc' = "write" => todo' # <<>>
        /\ irq' \in Transactions /\ took' \in Seq(Int) /\ mishap' \in Mishaps
        /\ dev' \in Device /\ dev'.tx = dev.tx /\ dev'.rx = dev.rx
    <3>1. CASE UNCHANGED <<core, irq>>
      BY <1>0, <1>3, <2>2, <3>1, Nothings
         DEF Begin, Enable, core, ThreadTypes, Staged, Statuses, Mishaps
    <3>2. CASE dev' = Cleared(Enabled(dev)) /\ Enable /\ dev.en # 1
      BY <1>0, <2>2, <3>2, EnabledIs, Nothings DEF Enable, ThreadTypes, Staged, Mishaps
    <3> QED  BY <1>3, <3>1, <3>2 DEF Begin, Enable, core
  <2>5. ThreadTypes' /\ HandlerTypes'
    BY <1>0, <2>1, <2>3, <2>4 DEF ThreadTypes, Staged, HandlerTypes, PCs, Staged
  <2> QED  BY <1>0, <2>4, <2>5 DEF Types, CoreTypes
<1>4. CASE CmdWrite
  <2>1. todo # <<>> /\ Head(todo) \in Commanded
    BY <1>0, <1>4, OutOfFifo DEF CmdWrite, ThreadTypes, Staged
  <2>2. CASE TxReady /\ dev' = Pushed(dev, Head(todo)) /\ pc' = "check"
             /\ UNCHANGED <<took, mishap, late, status>>
    <3>1. /\ dev' \in Device /\ dev'.rx = dev.rx
          /\ dev'.tx = dev.tx \/ dev'.tx = Append(dev.tx, Head(todo))
      <4>1. /\ dev' \in Device /\ dev'.rx = dev.rx
            /\ Flagged(dev) => dev' = dev
            /\ ~Flagged(dev) => dev'.tx = Append(dev.tx, Head(todo))
        BY <1>0, <2>1, <2>2, PushedIs
      <4> QED  BY <4>1
    <3>2. Len(dev.tx) <= Depth - 1
      BY <1>0, <2>2 DEF TxReady
    <3>3. Len(dev'.tx) <= Depth
      BY <1>0, <2>1, <3>1, <3>2, IntoFifo
    <3> QED
      BY <1>0, <1>4, <2>1, <2>2, <3>1, <3>3
         DEF CmdWrite, Types, CoreTypes, HandlerTypes, ThreadTypes, Staged, PCs
  <2>3. CASE GivesUp /\ status' = "timeout" /\ pc' = "wait" /\ UNCHANGED core
    BY <1>0, <1>4, <2>3
       DEF CmdWrite, GivesUp, Types, CoreTypes, HandlerTypes, ThreadTypes, Staged, core, PCs, Statuses, Bits
  <2> QED  BY <1>4, <2>2, <2>3 DEF CmdWrite
<1>5. CASE Check
  <2>1. todo # <<>> /\ todo' = Tail(todo) /\ todo' \in Seq(Commanded)
    BY <1>0, <1>5, OutOfFifo DEF Check, ThreadTypes, Staged
  <2>2. status' \in Statuses
    BY <1>5 DEF Check, Statuses
  <2>3. /\ pc' \in {"wait", "read", "end", "arm", "drain", "write"}
        /\ pc' \in {"write", "drain"} => todo' # <<>>
    BY <1>5 DEF Check, Written
  <2>4. ThreadTypes'
    BY <1>0, <1>5, <2>1, <2>2, <2>3 DEF Check, ThreadTypes, Staged, PCs
  <2> QED
    BY <1>0, <1>5, <2>4 DEF Check, Types, CoreTypes, HandlerTypes, core
<1>6. CASE Drain
  <2>1. CASE dev.rx = <<>>
    BY <1>0, <1>6, <2>1 DEF Drain, Types, CoreTypes, HandlerTypes, ThreadTypes, Staged, PCs
  <2>2. CASE dev.rx # <<>>
    <3>1. /\ Head(dev.rx) \in Int /\ Tail(dev.rx) \in Seq(Int)
          /\ Len(Tail(dev.rx)) <= Depth
      BY <1>0, <2>2, OutOfFifo
    <3>2. Append(buffer, Head(dev.rx)) \in Seq(Int)
      BY <1>0, <3>1, IntoFifo DEF ThreadTypes, Staged
    <3>3. dev' \in Device /\ dev'.tx = dev.tx /\ dev'.rx = Tail(dev.rx)
      BY <1>0, <1>6, <2>2, <3>1 DEF Drain, Device
    <3> QED
      BY <1>0, <1>6, <2>2, <3>1, <3>2, <3>3
         DEF Drain, Types, CoreTypes, HandlerTypes, ThreadTypes, Staged
  <2> QED  BY <2>1, <2>2
<1>7. CASE RxRead
  <2>1. CASE /\ Len(buffer) < Size /\ dev.rx # <<>>
             /\ buffer' = Append(buffer, Head(dev.rx)) /\ dev' = [dev EXCEPT !.rx = Tail(@)]
             /\ UNCHANGED <<pc, late, status>>
    <3>1. /\ Head(dev.rx) \in Int /\ Tail(dev.rx) \in Seq(Int)
          /\ Len(Tail(dev.rx)) <= Depth
      BY <1>0, <2>1, OutOfFifo
    <3>2. Append(buffer, Head(dev.rx)) \in Seq(Int)
      BY <1>0, <3>1, IntoFifo DEF ThreadTypes, Staged
    <3>3. dev' \in Device /\ dev'.tx = dev.tx /\ dev'.rx = Tail(dev.rx)
      BY <1>0, <2>1, <3>1 DEF Device
    <3> QED
      BY <1>0, <1>7, <2>1, <3>1, <3>2, <3>3
         DEF RxRead, Types, CoreTypes, HandlerTypes, ThreadTypes, Staged
  <2>2. CASE /\ Len(buffer) < Size /\ dev.rx = <<>> /\ GivesUp
             /\ buffer' = Append(buffer, 0) /\ status' = "timeout" /\ pc' = "wait"
             /\ UNCHANGED dev
    <3>1. buffer' \in Seq(Int)
      BY <1>0, <2>2, IntoFifo DEF ThreadTypes, Staged
    <3> QED
      BY <1>0, <1>7, <2>2, <3>1
         DEF RxRead, GivesUp, Types, CoreTypes, HandlerTypes, ThreadTypes, Staged, PCs, Statuses, Bits
  <2>3. CASE /\ Len(buffer) >= Size /\ pc' = "wait"
             /\ UNCHANGED <<dev, late, status, buffer>>
    BY <1>0, <1>7, <2>3 DEF RxRead, Types, CoreTypes, HandlerTypes, ThreadTypes, Staged, PCs
  <2> QED  BY <1>7, <2>1, <2>2, <2>3 DEF RxRead
<1>8. CASE WaitIdle
  <2>1. dev' \in Device /\ dev'.tx = dev.tx /\ dev'.rx = dev.rx
    BY <1>0, <1>8, DisabledIs DEF WaitIdle
  <2>2. status' \in Statuses /\ late' \in Bits
    BY <1>0, <1>8 DEF WaitIdle, GivesUp, ThreadTypes, Staged, HandlerTypes, Statuses, Bits
  <2> QED
    BY <1>0, <1>8, <2>1, <2>2 DEF WaitIdle, Types, CoreTypes, HandlerTypes, ThreadTypes, Staged, PCs
<1>9. CASE Arm
  <2>1. dev' \in Device /\ dev'.tx = dev.tx /\ dev'.rx = dev.rx
    <3>1. /\ Cleared(dev) \in Device
          /\ Cleared(dev).tx = dev.tx /\ Cleared(dev).rx = dev.rx
      BY <1>0, ClearedIs
    <3> DEFINE e == Cleared(dev)
    <3>2. /\ e.iser \cup {"tx_ready"} \in SUBSET {"tx_ready", "rx_ready"}
          /\ e.iser \cup {"rx_ready"} \in SUBSET {"tx_ready", "rx_ready"}
      BY <3>1 DEF Device
    <3>3. \/ dev' = [e EXCEPT !.txthd = "empty", !.iser = e.iser \cup {"tx_ready"}]
          \/ dev' = [e EXCEPT !.rxthd = "one", !.iser = e.iser \cup {"rx_ready"}]
      BY <1>9 DEF Arm
    <3> HIDE DEF e
    <3>4. e \in Device /\ e.tx = dev.tx /\ e.rx = dev.rx
      BY <3>1 DEF e
    <3> QED  BY <3>2, <3>3, <3>4 DEF Device
  <2>2. irq' \in Transactions
    BY <1>0, <1>9, CallIs DEF Arm, Transactions, ThreadTypes, Staged
  <2> QED
    BY <1>0, <1>9, <2>1, <2>2 DEF Arm, Types, CoreTypes, HandlerTypes, ThreadTypes, Staged, PCs
<1>10. CASE Wrapper
  <2>1. Staged /\ UNCHANGED <<core, late, irq, handler, registered, op, todo>>
    BY <1>0, <1>10 DEF Wrapper, ThreadTypes
  <2>2. CASE /\ pc' = "begin" /\ stage' \in {FirstStage(op), "rx"}
             /\ stage' = "rx" => op.kind # "tx"
             /\ status' = "success" /\ buffer' = <<>>
    <3>1. Staged'
      BY <2>1, <2>2, CallIs DEF Staged, FirstStage
    <3>2. stage' \in Stages
      BY <3>1 DEF Staged, Stages
    <3> QED
      BY <1>0, <2>1, <2>2, <3>1, <3>2
         DEF Types, CoreTypes, HandlerTypes, ThreadTypes, core, PCs, Statuses
  <2>3. CASE pc' = "done" /\ UNCHANGED <<stage, status, buffer>>
    BY <1>0, <2>1, <2>3 DEF Types, CoreTypes, HandlerTypes, ThreadTypes, Staged, core, PCs
  <2>4. FirstStage(op) = "rx" => op.kind # "tx"
    BY DEF FirstStage
  <2> QED  BY <1>10, <2>2, <2>3, <2>4 DEF Wrapper, Try
<1>11. CASE Return
  BY <1>0, <1>11
     DEF Return, Types, CoreTypes, HandlerTypes, ThreadTypes, Staged, core, PCs, Statuses, Stages
<1>12. CASE Query
  <2>1. dev' \in Device /\ dev'.tx = dev.tx /\ dev'.rx = dev.rx
    BY <1>0, <1>12 DEF Query, Device
  <2>2. pc' \in {"done", "abort"} /\ stage' = "query" /\ "query" \in Stages /\ status' \in Statuses
    BY <1>12 DEF Query, Stages, Statuses
  <2> QED
    BY <1>0, <1>12, <2>1, <2>2 DEF Query, Types, CoreTypes, HandlerTypes, ThreadTypes, Staged, PCs
<1>13. CASE Abort
  <2> DEFINE d == [dev EXCEPT !.rx = <<>>]
  <2>1. d \in Device /\ d.tx = dev.tx /\ d.rx = <<>>
    BY <1>0 DEF Device
  <2>2. dev' = Disabled(d)
    BY <1>13 DEF Abort
  <2> HIDE DEF d
  <2>3. dev' \in Device /\ dev'.tx = dev.tx /\ dev'.rx = <<>>
    BY <2>1, <2>2, DisabledIs
  <2>4. late' \in Bits /\ status' \in Statuses
    BY <1>0, <1>13 DEF Abort, GivesUp, HandlerTypes, ThreadTypes, Staged, Bits, Statuses
  <2>5. ThreadTypes'
    BY <1>0, <1>13, <2>4 DEF Abort, ThreadTypes, Staged, PCs
  <2>6. HandlerTypes'
    BY <1>0, <1>13, <2>4, Nothings DEF Abort, HandlerTypes
  <2>7. CoreTypes'
    BY <1>0, <1>13, <2>3, Nothings DEF Abort, CoreTypes
  <2> QED  BY <2>5, <2>6, <2>7 DEF Types
<1> QED
  BY <1>1, <1>2, <1>3, <1>4, <1>5, <1>6, <1>7, <1>8, <1>9, <1>10, <1>11, <1>12, <1>13 DEF Thread

LEMMA HandlerTypeStep ==
  ASSUME Types, Handler
  PROVE  Types'
<1>0. /\ dev \in Device /\ Len(dev.tx) <= Depth /\ Len(dev.rx) <= Depth
      /\ dev.tx \in Seq(Commanded) /\ dev.rx \in Seq(Int)
      /\ took \in Seq(Int) /\ mishap \in Mishaps /\ Depth \in Nat \ {0}
      /\ irq \in Transactions /\ handler \in Handlers /\ late \in Bits
      /\ registered \in Bits /\ Cleared(dev) \in Device
      /\ Cleared(dev).tx = dev.tx /\ Cleared(dev).rx = dev.rx
  <2>1. /\ dev \in Device /\ Len(dev.tx) <= Depth /\ Len(dev.rx) <= Depth
        /\ took \in Seq(Int) /\ mishap \in Mishaps /\ Depth \in Nat \ {0}
        /\ irq \in Transactions /\ handler \in Handlers /\ late \in Bits
        /\ registered \in Bits
    BY I2cConstants DEF Types, CoreTypes, HandlerTypes
  <2>2. dev.tx \in Seq(Commanded) /\ dev.rx \in Seq(Int)
    BY <2>1 DEF Device
  <2> QED  BY <2>1, <2>2, ClearedIs
<1>1. ThreadTypes' /\ UNCHANGED <<registered, took, mishap>>
  BY DEF Types, ThreadTypes, Staged, Handler, thread, Interrupt, HandlerReads,
         HandlerRearms, HandlerHasAll, HandlerFinishes, core
<1>2. CASE Interrupt
  <2>1. dev' \in Device /\ dev'.tx = dev.tx /\ dev'.rx = dev.rx
    BY <1>0, <1>2 DEF Interrupt, Device
  <2> QED
    BY <1>0, <1>1, <1>2, <2>1 DEF Interrupt, Types, CoreTypes, HandlerTypes, Handlers
<1>3. CASE HandlerReads
  <2>1. /\ Head(dev.rx) \in Int /\ Tail(dev.rx) \in Seq(Int)
        /\ Len(Tail(dev.rx)) <= Depth
    BY <1>0, <1>3, OutOfFifo DEF HandlerReads
  <2>2. dev' \in Device /\ dev'.tx = dev.tx /\ dev'.rx = Tail(dev.rx)
    BY <1>0, <1>3, <2>1 DEF HandlerReads, Device
  <2>3. irq' \in Transactions
    <3>1. irq.buffer \in Seq(Int) /\ irq.size - 1 \in Nat
      BY <1>0, <1>3 DEF HandlerReads, Transactions
    <3>2. Append(irq.buffer, Head(dev.rx)) \in Seq(Int)
      BY <2>1, <3>1, IntoFifo
    <3> QED  BY <1>0, <1>3, <3>1, <3>2 DEF HandlerReads, Transactions
  <2> QED
    BY <1>0, <1>1, <1>3, <2>1, <2>2, <2>3 DEF HandlerReads, Types, CoreTypes, HandlerTypes
<1>4. CASE HandlerRearms
  <2>1. dev' \in Device /\ dev'.tx = dev.tx /\ dev'.rx = dev.rx
    BY <1>0, <1>4 DEF HandlerRearms, Device
  <2> QED
    BY <1>0, <1>1, <1>4, <2>1 DEF HandlerRearms, Types, CoreTypes, HandlerTypes, Handlers
<1>5. CASE HandlerHasAll
  BY <1>0, <1>1, <1>5 DEF HandlerHasAll, core, Types, CoreTypes, HandlerTypes, Handlers
<1>6. CASE HandlerFinishes
  <2>1. dev' \in Device /\ dev'.tx = dev.tx /\ dev'.rx = dev.rx
    BY <1>0, <1>6, DisabledIs DEF HandlerFinishes
  <2>2. irq' \in Transactions
    <3>1. irq' = [irq EXCEPT !.busy = 0]
      BY <1>6 DEF HandlerFinishes
    <3> QED  BY <1>0, <3>1 DEF Transactions
  <2> QED
    BY <1>0, <1>1, <1>6, <2>1, <2>2
       DEF HandlerFinishes, GivesUp, Types, CoreTypes, HandlerTypes, Handlers, Bits
<1> QED  BY <1>2, <1>3, <1>4, <1>5, <1>6 DEF Handler

LEMMA TypeStep ==
  ASSUME Types, [Next]_vars
  PROVE  Types'
<1>1. CASE Core
  <2>1. CoreTypes'
    BY <1>1, CoreTypeStep DEF Core, Types
  <2> QED
    BY <1>1, <2>1 DEF Core, Types, HandlerTypes, ThreadTypes, Staged, thread
<1>2. CASE Thread
  BY <1>2, ThreadTypeStep
<1>3. CASE Handler
  BY <1>3, HandlerTypeStep
<1>4. CASE UNCHANGED vars
  BY <1>4 DEF vars, Types, CoreTypes, HandlerTypes, ThreadTypes, Staged, core, thread
<1> QED  BY <1>1, <1>2, <1>3, <1>4 DEF Next

LEMMA InitTypes == Init => Types
<1> SUFFICES ASSUME Init PROVE Types
  OBVIOUS
<1>1. dev \in Device /\ dev.tx = <<>> /\ dev.rx = <<>>
  BY Nothings DEF Init, Device, Bits, States, Write
<1>2. CoreTypes
  BY <1>1, Nothings, I2cConstants DEF Init, CoreTypes, Mishaps
<1>3. HandlerTypes /\ ThreadTypes
  BY Nothings DEF Init, HandlerTypes, ThreadTypes, Handlers, Bits, PCs, Statuses, Stages
<1> QED  BY <1>2, <1>3 DEF Types

(* Every register, FIFO and variable of the driver keeps its type; neither *)
(* FIFO holds more than it is deep, whatever the driver writes and the     *)
(* target sends (altera_avalon_i2c_fifo.v, and the driver's waits for      *)
(* room).                                                                  *)
THEOREM TypeCorrect == Spec => []TypeOK
<1>1. Types => TypeOK
  BY DEF Types, TypeOK, CoreTypes, HandlerTypes, ThreadTypes, Device, Bits,
         Transactions, Handlers, PCs, Stages, Statuses, Mishaps
<1> QED  BY <1>1, InitTypes, TypeStep, PTL DEF Spec

-----------------------------------------------------------------------------
(* What the core does to a transaction.                                    *)

CoreStep ==
  CoreStarts \/ CoreContinues \/ CoreIsAcknowledged \/ CoreIsRefused
    \/ CoreLosesTheBus \/ CoreReceives \/ CoreStops

\* The counters of the core are numbers.
LEMMA Numbers ==
  ASSUME CoreTypes, NEW o \in Calls
  PROVE  /\ Len(took) \in Nat /\ dev.sent \in Nat /\ Len(dev.tx) \in Nat
         /\ Len(dev.rx) \in Nat /\ Acks(o) \in Nat /\ Fetched(o) \in Nat
         /\ Acks(o) = IF o.kind = "tx" THEN LenTx(o) ELSE LenTx(o) + 1
<1>1. /\ Len(took) \in Nat /\ dev.sent \in Nat /\ Len(dev.tx) \in Nat
      /\ Len(dev.rx) \in Nat
  BY LenProperties DEF CoreTypes, Device
<1> QED  BY <1>1, CallIs DEF Acks, Fetched

\* Every step of the core on a sound transaction, other than a refusal or a
\* lost bus, leaves it sound and takes no command away.
LEMMA StartsSound ==
  ASSUME CoreTypes, NEW o \in Calls, NEW b \in Seq(Int), Sound(o, b), CoreStarts
  PROVE  Sound(o, b)' /\ WrittenSoFar(o)' = WrittenSoFar(o)
<1> DEFINE t == Len(took)  f == Fetched(o)
<1>0. /\ t \in Nat /\ dev.sent \in Nat /\ Len(dev.tx) \in Nat /\ LenTx(o) \in Nat
      /\ LenAll(o) \in Nat /\ f \in Nat
  BY Numbers, CallIs
<1>1. /\ dev.fsm = "pre_start" /\ dev.tx # <<>> /\ dev.tx \in Seq(Commanded)
      /\ took' = took /\ mishap' = mishap
  BY DEF CoreStarts, CoreTypes, Device
<1>2. /\ dev'.fsm = "address" /\ dev'.cmd = Head(dev.tx) /\ dev'.tx = Tail(dev.tx)
      /\ dev'.sent = dev.sent /\ dev'.rw = dev.rw /\ dev'.rx = dev.rx
      /\ dev'.nack = dev.nack /\ dev'.arb = dev.arb
  BY DEF CoreStarts, CoreTypes, Device
<1>3. /\ Head(dev.tx) = dev.tx[1] /\ Len(Tail(dev.tx)) = Len(dev.tx) - 1
      /\ Len(dev.tx) > 0
      /\ \A i \in 1 .. Len(dev.tx) - 1 : Tail(dev.tx)[i] = dev.tx[i + 1]
  BY <1>1, OutOfFifo
<1>4. t = 0 /\ dev.sent = 0 /\ f = 0
  BY <1>0, <1>1 DEF Sound, Playing, Position, Fetched, Stopped, InFlight
<1>5. Fetched(o)' = 1 /\ WrittenSoFar(o)' = WrittenSoFar(o)
  BY <1>0, <1>1, <1>2, <1>3, <1>4 DEF Fetched, Stopped, InFlight, WrittenSoFar
<1>6. Position(o)'
  BY <1>0, <1>1, <1>2, <1>4, <1>5 DEF Sound, Playing, Position
<1>7. Playing(o)'
  <2>1. dev.tx[1] = CommandAt(o, 1)
    BY <1>0, <1>3, <1>4 DEF Sound, Playing
  <2>2. ASSUME NEW i \in 1 .. Len(dev.tx) - 1
        PROVE  Tail(dev.tx)[i] = CommandAt(o, 1 + i)
    <3>1. i + 1 \in 1 .. Len(dev.tx) /\ f + (i + 1) = 1 + i
      BY <1>0, <1>4
    <3> QED  BY <1>3, <3>1 DEF Sound, Playing
  <2> QED
    BY <1>1, <1>2, <1>3, <1>4, <1>5, <1>6, <2>1, <2>2 DEF Sound, Playing
<1>8. Receiving(o, b)'
  BY <1>1, <1>2 DEF Sound, Receiving, Received, Stopped
<1> QED  BY <1>1, <1>2, <1>5, <1>7, <1>8 DEF Sound, Refused, Flagged

LEMMA ContinuesSound ==
  ASSUME CoreTypes, NEW o \in Calls, NEW b \in Seq(Int), Sound(o, b), CoreContinues
  PROVE  Sound(o, b)' /\ WrittenSoFar(o)' = WrittenSoFar(o)
<1> DEFINE t == Len(took)  f == Fetched(o)
<1>0. /\ t \in Nat /\ dev.sent \in Nat /\ Len(dev.tx) \in Nat /\ LenTx(o) \in Nat
      /\ LenAll(o) \in Nat /\ f \in Nat /\ Len(dev.rx) \in Nat
      /\ f + Len(dev.tx) <= LenAll(o)
  BY Numbers, CallIs DEF Sound, Playing, Position, WrittenSoFar
<1> DEFINE c == Head(dev.tx)
<1>1. /\ dev.fsm = "bus_hold" /\ dev.tx # <<>> /\ dev.tx \in Seq(Commanded)
      /\ took' = took /\ mishap' = mishap
  BY DEF CoreContinues, CoreTypes, Device
<1>2. /\ dev'.fsm = IF c.sta THEN "address"
                    ELSE IF dev.rw = Write THEN "tx_byte" ELSE "rx_byte"
      /\ dev'.cmd = c /\ dev'.tx = Tail(dev.tx)
      /\ dev'.sent = dev.sent /\ dev'.rw = dev.rw /\ dev'.rx = dev.rx
      /\ dev'.nack = dev.nack /\ dev'.arb = dev.arb
  BY DEF CoreContinues, CoreTypes, Device
<1>3. /\ c = dev.tx[1] /\ Len(Tail(dev.tx)) = Len(dev.tx) - 1
      /\ Len(dev.tx) > 0
      /\ \A i \in 1 .. Len(dev.tx) - 1 : Tail(dev.tx)[i] = dev.tx[i + 1]
  BY <1>1, OutOfFifo
<1>4. f = t + dev.sent /\ f < LenAll(o) /\ t > 0
  BY <1>0, <1>1 DEF Sound, Playing, Position, Fetched, Stopped, InFlight
<1>5. c = CommandAt(o, f + 1) /\ f + 1 \in 1 .. LenAll(o)
  <2>1. 1 \in 1 .. Len(dev.tx)
    BY <1>0, <1>3
  <2>2. dev.tx[1] = CommandAt(o, f + 1)
    BY <2>1 DEF Sound, Playing
  <2>3. f + 1 \in 1 .. LenAll(o)
    <3> HIDE DEF f
    <3> QED  BY <1>0, <1>4
  <2> QED  BY <1>3, <2>2, <2>3
<1> HIDE DEF c
<1>6. c.sta <=> (f + 1 = LenTx(o) + 1 /\ o.kind = "tx_rx")
  BY <1>5, CommandFields
<1>7. /\ dev'.fsm = "address" => t = LenTx(o) /\ dev.sent = 0
      /\ dev'.fsm = "tx_byte" => t < LenTx(o) /\ dev.rw = Write
      /\ dev'.fsm = "rx_byte" => t = LenTx(o) + 1 /\ dev.rw = Read
      /\ dev'.fsm \in {"address", "tx_byte", "rx_byte"}
  <2>1. /\ dev.sent > 0 => t = LenTx(o) + 1
        /\ dev.rw = (IF t <= LenTx(o) THEN Write ELSE Read)
        /\ t <= Acks(o)
    BY <1>1 DEF Sound, Playing, Position
  <2>2. CASE c.sta
    <3>1. f = LenTx(o)
      BY <1>0, <1>6, <2>2
    <3>2. t = LenTx(o) /\ dev.sent = 0
      BY <1>0, <1>4, <2>1, <3>1
    <3> QED  BY <1>2, <2>2, <3>2
  <2>3. CASE ~c.sta /\ t <= LenTx(o)
    <3>1. t # LenTx(o)
      <4> SUFFICES ASSUME t = LenTx(o) PROVE FALSE
        OBVIOUS
      <4>1. f = LenTx(o) /\ f + 1 = LenTx(o) + 1
        <5>1. /\ t \in Nat /\ dev.sent \in Nat /\ f = t + dev.sent /\ t = LenTx(o)
              /\ dev.sent > 0 => t = LenTx(o) + 1
          BY <1>0, <1>4, <2>1
        <5> HIDE DEF t, f
        <5> QED  BY <5>1
      <4>2. o.kind = "tx_rx"
        <5>1. LenTx(o) < LenAll(o)
          BY <1>4, <4>1
        <5>2. LenRx(o) # 0 /\ LenTx(o) > 0
          BY <1>0, <1>4, <5>1, CallIs
        <5> QED  BY <5>2, CallIs
      <4> QED  BY <1>6, <2>3, <4>1, <4>2
    <3> QED  BY <1>0, <1>2, <2>1, <2>3, <3>1
  <2>4. CASE ~c.sta /\ ~(t <= LenTx(o))
    <3>1. Acks(o) \in {LenTx(o), LenTx(o) + 1}
      BY DEF Acks
    <3>2. t = LenTx(o) + 1
      <4> HIDE DEF t
      <4> QED  BY <1>0, <2>1, <2>4, <3>1
    <3>3. dev.rw = Read /\ Read # Write
      BY <2>1, <2>4 DEF Read, Write
    <3> QED  BY <1>2, <2>4, <3>2, <3>3
  <2> QED  BY <2>2, <2>3, <2>4
<1>8. Fetched(o)' = f + 1 /\ WrittenSoFar(o)' = WrittenSoFar(o)
  <2>1. Fetched(o)' = f + 1
    BY <1>0, <1>1, <1>2, <1>4, <1>7 DEF Fetched, Stopped, InFlight
  <2> QED  BY <1>0, <1>2, <1>3, <2>1 DEF WrittenSoFar
<1>9. Position(o)'
  <2>1. /\ t <= Acks(o)
        /\ dev.sent > 0 => t = LenTx(o) + 1
        /\ dev.rw = (IF t <= LenTx(o) THEN Write ELSE Read)
    BY <1>1 DEF Sound, Playing, Position
  <2>2. WrittenSoFar(o)' <= LenAll(o)
    BY <1>0, <1>8 DEF WrittenSoFar
  <2>3. took' = took /\ dev'.sent = dev.sent /\ dev'.rw = dev.rw
    BY <1>1, <1>2
  <2>4. /\ dev'.fsm \notin {"pre_start", "bus_hold", "gen_stop", "pre_idle", "idle"}
        /\ dev'.fsm = "address" => t = LenTx(o)
        /\ dev'.fsm = "tx_byte" => t < LenTx(o) /\ t <= LenTx(o)
        /\ dev'.fsm = "rx_byte" => t = LenTx(o) + 1 /\ ~(t <= LenTx(o))
    BY <1>0, <1>7
  <2>6. dev'.rw = (IF t <= LenTx(o) THEN Write ELSE Read)
    BY <2>1, <2>3
  <2>7. Len(took)' = t
    BY <2>3
  <2>8. dev'.sent > 0 => t = LenTx(o) + 1
    BY <2>1, <2>3
  <2> HIDE DEF t, f
  <2> QED  BY <1>4, <2>1, <2>2, <2>4, <2>6, <2>7, <2>8 DEF Position
<1>10. Playing(o)'
  <2>1. ASSUME NEW i \in 1 .. Len(dev.tx) - 1
        PROVE  Tail(dev.tx)[i] = CommandAt(o, (f + 1) + i)
    <3>1. i + 1 \in 1 .. Len(dev.tx) /\ f + (i + 1) = (f + 1) + i
      BY <1>0
    <3> QED  BY <1>3, <3>1 DEF Sound, Playing
  <2> QED
    BY <1>1, <1>2, <1>3, <1>5, <1>8, <1>9, <2>1 DEF Sound, Playing
<1>11. Receiving(o, b)'
  BY <1>1, <1>2, <1>7 DEF Sound, Receiving, Received, Stopped
<1> QED  BY <1>1, <1>2, <1>8, <1>10, <1>11 DEF Sound, Refused, Flagged

LEMMA AcknowledgedSound ==
  ASSUME CoreTypes, NEW o \in Calls, NEW b \in Seq(Int), Sound(o, b), CoreIsAcknowledged
  PROVE  Sound(o, b)' /\ WrittenSoFar(o)' = WrittenSoFar(o)
<1> DEFINE t == Len(took)  f == Fetched(o)
<1>0. /\ t \in Nat /\ dev.sent \in Nat /\ Len(dev.tx) \in Nat /\ LenTx(o) \in Nat
      /\ LenAll(o) \in Nat /\ f \in Nat /\ Len(dev.rx) \in Nat
      /\ f + Len(dev.tx) <= LenAll(o)
  BY Numbers, CallIs DEF Sound, Playing, Position, WrittenSoFar
<1>1. /\ dev.fsm \in {"address", "tx_byte"} /\ took' = Append(took, dev.cmd.val)
      /\ mishap' = mishap
  BY DEF CoreIsAcknowledged
<1>2. /\ dev'.fsm = After(dev.cmd) /\ dev'.cmd = dev.cmd /\ dev'.tx = dev.tx
      /\ dev'.rw = IF dev.fsm = "address" THEN dev.cmd.val ELSE dev.rw
      /\ dev'.sent = IF dev.fsm = "address" THEN 0 ELSE dev.sent
      /\ dev'.rx = dev.rx /\ dev'.nack = dev.nack /\ dev'.arb = dev.arb
  BY DEF CoreIsAcknowledged, CoreTypes, Device
<1>3. /\ Len(took') = t + 1 /\ took'[t + 1] = dev.cmd.val
      /\ \A i \in 1 .. t : took'[i] = took[i]
  <2>1. took \in Seq(Int) /\ dev.cmd.val \in Int
    BY DEF CoreTypes, Device, Commanded
  <2> QED  BY <1>1, <2>1, IntoFifo
<1>4. dev.sent = 0 /\ f = t + 1 /\ f \in 1 .. LenAll(o)
  <2>1. dev.sent = 0
    BY <1>0, <1>1 DEF Sound, Playing, Position
  <2>2. f = t + 1
    BY <1>0, <1>1, <2>1 DEF Fetched, Stopped, InFlight
  <2>3. f \in 1 .. LenAll(o)
    <3>1. ASSUME NEW x \in Nat, NEW y \in Nat, NEW z \in Nat, NEW l \in Nat,
                 x = y + 1, x + z <= l
          PROVE  x \in 1 .. l
      BY <3>1
    <3> HIDE DEF t, f
    <3> QED  BY <1>0, <2>2, <3>1
  <2> QED  BY <2>1, <2>2, <2>3
<1>5. dev.cmd = CommandAt(o, f)
  BY <1>1 DEF Sound, Playing, InFlight
<1>6. /\ dev.cmd.sto <=> f = LenAll(o)
      /\ f = 1 /\ LenTx(o) > 0 => dev.cmd.val = Write
      /\ f = LenTx(o) + 1 => dev.cmd.val = Read
  BY <1>4, <1>5, CommandFields
<1>7. /\ f = LenAll(o) => dev'.fsm = "gen_stop"
      /\ f # LenAll(o) => dev'.fsm = "bus_hold"
  BY <1>2, <1>6 DEF After
<1>8. f <= Acks(o)
  <2>1. t = 0 \/ t = LenTx(o) \/ t < LenTx(o)
    BY <1>1 DEF Sound, Playing, Position
  <2>2. LenTx(o) \in Nat /\ LenRx(o) \in Nat /\ LenAll(o) = LenTx(o) + LenRx(o)
    BY CallIs
  <2>3. o.kind = "tx" => LenRx(o) = 0 /\ LenTx(o) > 0
    BY CallIs
  <2>4. Acks(o) = IF o.kind = "tx" THEN LenTx(o) ELSE LenTx(o) + 1
    BY DEF Acks
  <2>5. t \in Nat /\ f = t + 1 /\ f <= LenAll(o)
    BY <1>0, <1>4
  <2> HIDE DEF t, f
  <2>6. CASE o.kind = "tx"
    BY <2>2, <2>3, <2>4, <2>5, <2>6
  <2>7. CASE o.kind # "tx"
    BY <2>1, <2>2, <2>4, <2>5, <2>7
  <2> QED  BY <2>6, <2>7
<1>9. dev'.rw = (IF f <= LenTx(o) THEN Write ELSE Read)
  <2>1. CASE dev.fsm = "tx_byte"
    <3>1. f <= LenTx(o) /\ dev.rw = (IF t <= LenTx(o) THEN Write ELSE Read) /\ t <= LenTx(o)
      BY <1>0, <1>4, <2>1 DEF Sound, Playing, Position
    <3> QED  BY <1>2, <2>1, <3>1
  <2>2. CASE dev.fsm = "address" /\ t = 0 /\ LenTx(o) > 0
    BY <1>0, <1>2, <1>4, <1>6, <2>2
  <2>3. CASE dev.fsm = "address" /\ t = LenTx(o)
    BY <1>0, <1>2, <1>4, <1>6, <2>3
  <2> QED  BY <1>0, <1>1, <2>1, <2>2, <2>3 DEF Sound, Playing, Position
<1>10. dev'.sent = 0
  BY <1>2, <1>4
<1>11. Fetched(o)' = f /\ WrittenSoFar(o)' = WrittenSoFar(o)
  <2>1. Fetched(o)' = f
    BY <1>0, <1>3, <1>4, <1>7, <1>10 DEF Fetched, Stopped, InFlight
  <2> QED  BY <1>2, <2>1 DEF WrittenSoFar
<1>12. Position(o)'
  <2>1. f = LenAll(o) => f = Acks(o)
    BY <1>0, <1>8, CallIs, Numbers
  <2>2. WrittenSoFar(o)' <= LenAll(o)
    BY <1>0, <1>11 DEF WrittenSoFar
  <2>3. f # LenAll(o) => f < LenAll(o)
    BY <1>0, <1>4
  <2>4. /\ Len(took)' = f /\ dev'.fsm \in {"gen_stop", "bus_hold"}
        /\ Fetched(o)' = f /\ f > 0 /\ ~(dev'.sent > 0)
        /\ dev'.fsm = "gen_stop" => f = LenAll(o)
        /\ dev'.fsm = "bus_hold" => f # LenAll(o)
    <3> HIDE DEF t, f
    <3> QED  BY <1>0, <1>3, <1>4, <1>7, <1>10, <1>11
  <2> HIDE DEF f
  <2> QED  BY <1>8, <1>9, <2>1, <2>2, <2>3, <2>4 DEF Position
<1>13. Playing(o)'
  <2>1. ASSUME NEW i \in 1 .. t + 1 PROVE took'[i] = CommandAt(o, i).val
    <3>1. i = f \/ i \in 1 .. t
      BY <1>0, <1>4
    <3> QED  BY <1>3, <1>4, <1>5, <3>1 DEF Sound, Playing
  <2> QED  BY <1>2, <1>3, <1>7, <1>11, <1>12, <2>1 DEF Sound, Playing, InFlight
<1>14. Receiving(o, b)'
  BY <1>1, <1>2, <1>4, <1>7, <1>10 DEF Sound, Receiving, Received, Stopped
<1> QED  BY <1>1, <1>2, <1>11, <1>13, <1>14 DEF Sound, Refused, Flagged

LEMMA ReceivesSound ==
  ASSUME CoreTypes, NEW o \in Calls, NEW b \in Seq(Int), Sound(o, b), CoreReceives
  PROVE  Sound(o, b)' /\ WrittenSoFar(o)' = WrittenSoFar(o)
<1> DEFINE t == Len(took)  f == Fetched(o)
<1>0. /\ t \in Nat /\ dev.sent \in Nat /\ Len(dev.tx) \in Nat /\ LenTx(o) \in Nat
      /\ LenAll(o) \in Nat /\ f \in Nat /\ Len(dev.rx) \in Nat
      /\ f + Len(dev.tx) <= LenAll(o)
  BY Numbers, CallIs DEF Sound, Playing, Position, WrittenSoFar
<1>1. dev.fsm = "rx_byte" /\ took' = took /\ mishap' \in {mishap, "overrun"}
  BY DEF CoreReceives
<1>2. /\ dev'.fsm = After(dev.cmd) /\ dev'.cmd = dev.cmd /\ dev'.tx = dev.tx
      /\ dev'.rw = dev.rw /\ dev'.sent = dev.sent + 1
      /\ dev'.nack = dev.nack /\ dev'.arb = dev.arb
      /\ dev'.rx = dev.rx \/ dev'.rx = Append(dev.rx, dev.sent + 1)
  <2>1. CASE dev' = [dev EXCEPT !.fsm = After(dev.cmd), !.sent = @ + 1]
    BY <2>1 DEF CoreTypes, Device
  <2>2. CASE dev' = [dev EXCEPT !.fsm = After(dev.cmd), !.sent = @ + 1,
                                !.rx = Append(@, dev.sent + 1)]
    BY <2>2 DEF CoreTypes, Device
  <2> QED  BY <2>1, <2>2 DEF CoreReceives
<1>3. t = LenTx(o) + 1 /\ f = t + dev.sent + 1 /\ f \in 1 .. LenAll(o)
  <2>1. t = LenTx(o) + 1
    BY <1>1 DEF Sound, Playing, Position
  <2>2. f = t + dev.sent + 1
    BY <1>0, <1>1 DEF Fetched, Stopped, InFlight
  <2> QED  BY <1>0, <2>1, <2>2
<1>4. dev.cmd = CommandAt(o, f)
  BY <1>1 DEF Sound, Playing, InFlight
<1>5. /\ f = LenAll(o) => dev'.fsm = "gen_stop"
      /\ f # LenAll(o) => dev'.fsm = "bus_hold"
  BY <1>2, <1>3, <1>4, CommandFields DEF After
<1>6. Fetched(o)' = f /\ WrittenSoFar(o)' = WrittenSoFar(o)
  <2>1. Fetched(o)' = f
    BY <1>0, <1>1, <1>2, <1>3, <1>5 DEF Fetched, Stopped, InFlight
  <2> QED  BY <1>2, <2>1 DEF WrittenSoFar
<1>7. Position(o)'
  <2>1. t = Acks(o) /\ t <= Acks(o)
    BY <1>0, <1>3, CallIs, Numbers
  <2>2. WrittenSoFar(o)' <= LenAll(o)
    BY <1>0, <1>6 DEF WrittenSoFar
  <2>3. f # LenAll(o) => f < LenAll(o)
    BY <1>0, <1>3
  <2>4. dev.rw = (IF t <= LenTx(o) THEN Write ELSE Read)
    BY <1>1 DEF Sound, Playing, Position
  <2> QED
    BY <1>0, <1>1, <1>2, <1>3, <1>5, <1>6, <2>1, <2>2, <2>3, <2>4 DEF Position
<1>8. Playing(o)'
  BY <1>1, <1>2, <1>5, <1>6, <1>7 DEF Sound, Playing, InFlight
<1>9. Receiving(o, b)'
  <2>1. Received(o) = dev.sent /\ Received(o)' = dev.sent + 1
    BY <1>1, <1>2, <1>5 DEF Received, Stopped
  <2>2. Len(b) \in Nat /\ Len(b) + Len(dev.rx) <= dev.sent
    BY <2>1, LenProperties DEF Sound, Receiving
  <2>3. CASE dev'.rx = dev.rx
    <3>1. Len(b) + Len(dev'.rx) < dev.sent + 1
      BY <1>0, <2>2, <2>3
    <3> QED  BY <1>0, <2>1, <2>2, <2>3, <3>1 DEF Receiving
  <2>4. CASE dev'.rx = Append(dev.rx, dev.sent + 1)
    <3>1. /\ Len(dev'.rx) = Len(dev.rx) + 1 /\ dev'.rx[Len(dev.rx) + 1] = dev.sent + 1
          /\ \A i \in 1 .. Len(dev.rx) : dev'.rx[i] = dev.rx[i]
      <4>1. dev.rx \in Seq(Int) /\ dev.sent + 1 \in Int
        BY <1>0 DEF CoreTypes, Device
      <4> QED  BY <2>4, <4>1, IntoFifo
    <3>2. Len(b) + Len(dev'.rx) <= dev.sent + 1
      BY <1>0, <2>2, <3>1
    <3>3. ASSUME Len(b) + Len(dev'.rx) = dev.sent + 1
          PROVE  /\ \A i \in 1 .. Len(b) : b[i] = i
                 /\ \A i \in 1 .. Len(dev'.rx) : dev'.rx[i] = Len(b) + i
      <4>1. Len(b) + Len(dev.rx) = dev.sent
        <5>1. /\ Len(b) \in Nat /\ Len(dev.rx) \in Nat /\ dev.sent \in Nat
              /\ Len(b) + (Len(dev.rx) + 1) = dev.sent + 1
          BY <1>0, <2>2, <3>1, <3>3
        <5> QED  BY <5>1
      <4>2. /\ \A i \in 1 .. Len(b) : b[i] = i
            /\ \A i \in 1 .. Len(dev.rx) : dev.rx[i] = Len(b) + i
        BY <2>1, <4>1 DEF Sound, Receiving
      <4>3. ASSUME NEW i \in 1 .. Len(dev'.rx) PROVE dev'.rx[i] = Len(b) + i
        <5>1. i \in 1 .. Len(dev.rx) \/ i = Len(dev.rx) + 1
          BY <1>0, <3>1
        <5>2. Len(b) + (Len(dev.rx) + 1) = dev.sent + 1
          BY <1>0, <2>2, <4>1
        <5> QED  BY <3>1, <4>2, <5>1, <5>2
      <4> QED  BY <4>2, <4>3
    <3> QED  BY <2>1, <3>2, <3>3 DEF Receiving
  <2> QED  BY <1>2, <2>3, <2>4
<1> QED  BY <1>1, <1>2, <1>6, <1>8, <1>9 DEF Sound, Refused, Flagged

LEMMA StopsSound ==
  ASSUME CoreTypes, NEW o \in Calls, NEW b \in Seq(Int), Sound(o, b), CoreStops,
         dev.en = 1
  PROVE  /\ Sound(o, b)' /\ WrittenSoFar(o)' = WrittenSoFar(o)
         /\ dev'.en = 1 /\ dev'.iser = dev.iser /\ dev'.fsm = "pre_idle" /\ dev'.tx = <<>>
<1> DEFINE t == Len(took)  f == Fetched(o)
<1>0. /\ t \in Nat /\ dev.sent \in Nat /\ Len(dev.tx) \in Nat /\ LenTx(o) \in Nat
      /\ LenAll(o) \in Nat /\ f \in Nat /\ Len(dev.rx) \in Nat
      /\ f + Len(dev.tx) <= LenAll(o)
  BY Numbers, CallIs DEF Sound, Playing, Position, WrittenSoFar
<1> DEFINE d == [dev EXCEPT !.fsm = "pre_idle", !.cmd = NoCmd, !.sent = 0]
<1>1. dev.fsm = "gen_stop" /\ took' = took /\ mishap' = mishap /\ dev' = Settled(d)
  BY DEF CoreStops
<1>2. f = t + dev.sent /\ f = LenAll(o) /\ t = Acks(o) /\ Len(dev.tx) = 0
  <2>1. f = t + dev.sent
    BY <1>0, <1>1 DEF Fetched, Stopped, InFlight
  <2>2. f = LenAll(o) /\ t = Acks(o)
    BY <1>1 DEF Sound, Playing, Position
  <2> QED  BY <1>0, <2>1, <2>2
<1>3. dev.tx = <<>>
  BY <1>2, EmptySeq DEF CoreTypes, Device
<1>4. /\ dev'.fsm = "pre_idle" /\ dev'.tx = dev.tx /\ dev'.rx = dev.rx /\ dev'.sent = 0
      /\ dev'.nack = dev.nack /\ dev'.arb = dev.arb /\ dev'.en = 1 /\ dev'.iser = dev.iser
  <2>1. /\ d \in Device /\ d.fsm = "pre_idle" /\ d.tx = dev.tx /\ d.rx = dev.rx
        /\ d.sent = 0 /\ d.nack = dev.nack /\ d.arb = dev.arb /\ d.en = 1
        /\ d.iser = dev.iser
    BY Nothings DEF CoreTypes, Device, States
  <2> HIDE DEF d
  <2>2. /\ Settled(d) = [d EXCEPT !.fsm = Settled(d).fsm]
        /\ Settled(d).fsm = IF d.en = 0 THEN "idle" ELSE "pre_idle"
    BY <1>3, <2>1, SettledIs
  <2> QED  BY <1>1, <2>1, <2>2 DEF Device
<1>5. Fetched(o)' = f /\ WrittenSoFar(o)' = WrittenSoFar(o)
  BY <1>2, <1>4 DEF Fetched, Stopped, WrittenSoFar
<1>6. Position(o)'
  BY <1>0, <1>1, <1>2, <1>4, <1>5 DEF Sound, Playing, Position, WrittenSoFar
<1>7. Playing(o)'
  BY <1>1, <1>2, <1>4, <1>5, <1>6 DEF Sound, Playing, InFlight
<1>8. Receiving(o, b)'
  <2>1. dev.sent > 0 => t = LenTx(o) + 1
    BY DEF Sound, Playing, Position
  <2>2. t + dev.sent = LenTx(o) + LenRx(o) /\ t = Acks(o)
    BY <1>2, CallIs
  <2>3. dev.sent = o.m
    <3>1. CASE o.kind = "tx"
      <4>1. t = LenTx(o) /\ LenRx(o) = 0 /\ o.m = 0
        BY <2>2, <3>1, CallIs, Numbers
      <4> HIDE DEF t
      <4> QED  BY <1>0, <2>1, <2>2, <4>1
    <3>2. CASE o.kind # "tx"
      <4>1. t = LenTx(o) + 1 /\ LenRx(o) = o.m + 1 /\ o.m \in Nat
        BY <2>2, <3>2, CallIs, Numbers
      <4> HIDE DEF t
      <4> QED  BY <1>0, <2>2, <4>1
    <3> QED  BY <3>1, <3>2
  <2> QED  BY <1>1, <1>4, <2>3 DEF Sound, Receiving, Received, Stopped
<1> QED  BY <1>1, <1>3, <1>4, <1>5, <1>7, <1>8 DEF Sound, Refused, Flagged

\* The bus is refused or lost: the flag is up, both FIFOs are empty and the
\* core is on its way to the idle state, where only the driver takes it out.
LEMMA RefusedBreaks ==
  ASSUME CoreTypes, dev.en = 1, CoreIsRefused \/ CoreLosesTheBus
  PROVE  Broken' /\ Flagged(dev)'
<1>1. CASE CoreIsRefused
  <2>1. /\ dev'.fsm = "gen_stop" /\ dev'.nack = 1 /\ dev'.tx = <<>> /\ dev'.rx = <<>>
        /\ mishap' = "nack"
    BY <1>1 DEF CoreIsRefused, CoreTypes, Device
  <2> QED  BY <2>1 DEF Broken, Refused, Flagged
<1>2. CASE CoreLosesTheBus
  <2> DEFINE d == [dev EXCEPT !.fsm = "pre_idle", !.arb = 1, !.tx = <<>>, !.rx = <<>>,
                              !.cmd = NoCmd, !.sent = 0]
  <2>1. /\ d \in Device /\ d.fsm = "pre_idle" /\ d.tx = <<>> /\ d.rx = <<>>
        /\ d.arb = 1 /\ d.en = 1
    BY Nothings DEF CoreTypes, Device, States, Bits
  <2>2. dev' = Settled(d) /\ mishap' = "arb_lost"
    BY <1>2 DEF CoreLosesTheBus
  <2> HIDE DEF d
  <2>3. /\ Settled(d) = [d EXCEPT !.fsm = Settled(d).fsm]
        /\ Settled(d).fsm = IF d.en = 0 THEN "idle" ELSE "pre_idle"
    BY <2>1, SettledIs
  <2>4. /\ dev'.fsm = "pre_idle" /\ dev'.tx = <<>> /\ dev'.rx = <<>> /\ dev'.arb = 1
    BY <2>1, <2>2, <2>3 DEF Device
  <2> QED  BY <2>2, <2>4 DEF Broken, Refused, Flagged
<1> QED  BY <1>1, <1>2

\* A broken transaction stays broken, its flag up, until the driver clears it.
LEMMA StaysBroken ==
  ASSUME CoreTypes, dev.en = 1, Broken, CoreStep
  PROVE  Broken' /\ (Flagged(dev) => Flagged(dev)')
<1>1. CoreStops
  BY DEF CoreStep, Broken, CoreStarts, CoreContinues, CoreIsAcknowledged, CoreIsRefused,
         CoreLosesTheBus, CoreReceives
<1> DEFINE d == [dev EXCEPT !.fsm = "pre_idle", !.cmd = NoCmd, !.sent = 0]
<1>2. /\ d \in Device /\ d.fsm = "pre_idle" /\ d.tx = <<>> /\ d.rx = <<>>
      /\ d.nack = dev.nack /\ d.arb = dev.arb /\ d.en = 1
  BY Nothings DEF CoreTypes, Device, States, Bits, Broken
<1>3. dev' = Settled(d) /\ mishap' = mishap
  BY <1>1 DEF CoreStops
<1> HIDE DEF d
<1>4. /\ Settled(d) = [d EXCEPT !.fsm = Settled(d).fsm]
      /\ Settled(d).fsm = IF d.en = 0 THEN "idle" ELSE "pre_idle"
  BY <1>2, SettledIs
<1>5. /\ dev'.fsm = "pre_idle" /\ dev'.tx = <<>> /\ dev'.rx = <<>>
      /\ dev'.nack = dev.nack /\ dev'.arb = dev.arb
  BY <1>2, <1>3, <1>4 DEF Device
<1> QED  BY <1>3, <1>5 DEF Broken, Refused, Flagged

\* Only the driver enables and disables the core; enabled, it never rests in
\* the idle state, and it waits in PRE_IDLE only for a command.
LineInv ==
  /\ dev.en = 1 => dev.fsm # "idle"
  /\ dev.fsm = "pre_idle" => dev.tx = <<>>
  /\ dev.fsm \in {"idle", "pre_idle", "pre_start"} => dev.sent = 0

LEMMA CoreLine ==
  ASSUME CoreTypes, LineInv, CoreStep
  PROVE  LineInv' /\ dev'.en = dev.en /\ dev'.iser = dev.iser /\ dev.fsm # "idle"
<1>0. dev \in Device /\ dev.sent \in Nat
  BY DEF CoreTypes, Device
<1>1. CASE CoreStarts
  <2>1. /\ dev'.fsm = "address" /\ dev'.sent = dev.sent /\ dev'.en = dev.en
        /\ dev'.iser = dev.iser /\ dev.fsm = "pre_start"
    BY <1>0, <1>1 DEF CoreStarts, Device
  <2> QED  BY <2>1 DEF LineInv
<1>2. CASE CoreContinues \/ CoreIsAcknowledged \/ CoreIsRefused \/ CoreReceives
  <2>1. /\ dev'.fsm \in {"address", "tx_byte", "rx_byte", "gen_stop", "bus_hold"}
        /\ dev'.en = dev.en /\ dev'.iser = dev.iser
        /\ dev.fsm \in {"address", "tx_byte", "rx_byte", "bus_hold"}
    <3>1. CASE CoreContinues
      BY <1>0, <3>1 DEF CoreContinues, Device
    <3>2. CASE CoreIsAcknowledged
      BY <1>0, <3>2 DEF CoreIsAcknowledged, Device, After
    <3>3. CASE CoreIsRefused
      BY <1>0, <3>3 DEF CoreIsRefused, Device
    <3>4. CASE CoreReceives
      BY <1>0, <3>4 DEF CoreReceives, Device, After
    <3> QED  BY <1>2, <3>1, <3>2, <3>3, <3>4
  <2> QED  BY <2>1 DEF LineInv
<1>3. CASE CoreLosesTheBus \/ CoreStops
  <2>1. PICK d \in Device :
          /\ d.fsm = "pre_idle" /\ d.sent = 0 /\ d.en = dev.en /\ d.iser = dev.iser
          /\ dev' = Settled(d)
    <3>1. CASE CoreLosesTheBus
      <4> DEFINE d == [dev EXCEPT !.fsm = "pre_idle", !.arb = 1, !.tx = <<>>, !.rx = <<>>,
                                  !.cmd = NoCmd, !.sent = 0]
      <4>1. /\ d \in Device /\ d.fsm = "pre_idle" /\ d.sent = 0 /\ d.en = dev.en
            /\ d.iser = dev.iser
        BY <1>0, Nothings DEF Device, States, Bits
      <4>2. dev' = Settled(d)
        BY <3>1 DEF CoreLosesTheBus
      <4> HIDE DEF d
      <4> QED  BY <4>1, <4>2
    <3>2. CASE CoreStops
      <4> DEFINE d == [dev EXCEPT !.fsm = "pre_idle", !.cmd = NoCmd, !.sent = 0]
      <4>1. /\ d \in Device /\ d.fsm = "pre_idle" /\ d.sent = 0 /\ d.en = dev.en
            /\ d.iser = dev.iser
        BY <1>0, Nothings DEF Device, States
      <4>2. dev' = Settled(d)
        BY <3>2 DEF CoreStops
      <4> HIDE DEF d
      <4> QED  BY <4>1, <4>2
    <3> QED  BY <1>3, <3>1, <3>2
  <2>2. /\ Settled(d) = [d EXCEPT !.fsm = Settled(d).fsm]
        /\ d.tx # <<>> => Settled(d).fsm = "pre_start"
        /\ d.tx = <<>> => Settled(d).fsm = IF d.en = 0 THEN "idle" ELSE "pre_idle"
    BY <2>1, SettledIs
  <2>3. /\ dev'.en = dev.en /\ dev'.iser = dev.iser /\ dev'.sent = 0 /\ dev'.tx = d.tx
        /\ d.tx # <<>> => dev'.fsm = "pre_start"
        /\ d.tx = <<>> => dev'.fsm = IF dev.en = 0 THEN "idle" ELSE "pre_idle"
    BY <2>1, <2>2 DEF Device
  <2>4. dev.fsm # "idle"
    BY <1>3 DEF CoreLosesTheBus, CoreStops
  <2> QED  BY <2>3, <2>4 DEF LineInv
<1> QED  BY <1>1, <1>2, <1>3 DEF CoreStep

\* The steps of the core together: sound goes on, or breaks with a flag.
LEMMA CoreKeeps ==
  ASSUME CoreTypes, LineInv, dev.en = 1, CoreStep, NEW o \in Calls, NEW b \in Seq(Int),
         Broken \/ Sound(o, b)
  PROVE  /\ Broken' \/ (Sound(o, b)' /\ WrittenSoFar(o)' = WrittenSoFar(o))
         /\ Broken /\ Flagged(dev) => Broken' /\ Flagged(dev)'
         /\ Sound(o, b) /\ Broken' => Flagged(dev)'
<1>1. CASE Broken
  <2>1. ~Sound(o, b)
    BY <1>1 DEF Sound, Broken
  <2> QED  BY <1>1, <2>1, StaysBroken
<1>2. CASE Sound(o, b)
  <2>1. CASE CoreIsRefused \/ CoreLosesTheBus
    BY <1>2, <2>1, RefusedBreaks DEF Sound
  <2>2. CASE ~(CoreIsRefused \/ CoreLosesTheBus)
    <3>1. Sound(o, b)' /\ WrittenSoFar(o)' = WrittenSoFar(o)
      BY <1>2, <2>2, StartsSound, ContinuesSound, AcknowledgedSound, ReceivesSound,
         StopsSound DEF CoreStep
    <3>2. ~Broken' /\ ~Broken
      BY <1>2, <3>1 DEF Sound, Broken
    <3> QED  BY <3>1, <3>2
  <2> QED  BY <2>1, <2>2
<1> QED  BY <1>1, <1>2

\* What the place of the thread says about its call.
StageInv ==
  /\ pc \notin {"write", "check", "drain"} => todo = <<>> \/ (pc = "wait" /\ status # "success")
  /\ stage = "tx" => \A i \in 1 .. Len(todo) : todo[i].val # 0
  /\ pc \in {"drain", "read"} => stage = "rx" /\ Polled
  /\ stage = "tx" \/ pc = "begin" \/ (~Polled /\ stage # "query") => buffer = <<>>
  /\ pc \in {"ready", "begin", "write", "drain", "read", "arm"} => status = "success"
  /\ pc = "arm" => ~Polled /\ Stop(op, stage)
  /\ pc = "wait" /\ status = "success" =>
       /\ Polled /\ Stop(op, stage)
       /\ stage = "rx" => Len(buffer) >= op.m
  /\ pc = "done" /\ stage = "tx" /\ op.kind = "tx_rx" => status \in Retried
  /\ status = "bad_arg" => ~Polled /\ registered = 0
  /\ late = 0 /\ stage # "query" => status # "timeout"

LEMMA CoreStage ==
  ASSUME StageInv, UNCHANGED <<late, irq, handler, registered, thread>>
  PROVE  StageInv'
BY DEF StageInv, thread, Polled

LEMMA ThreadStage ==
  ASSUME Types, StageInv, Thread
  PROVE  StageInv'
<1> USE DEF Runs, Ends
<1>0. /\ ThreadTypes /\ HandlerTypes /\ todo \in Seq(Commanded) /\ buffer \in Seq(Int)
      /\ op \in Calls \cup {NoCall} /\ stage \in Stages /\ Len(<<>>) = 0
  BY Nothings DEF Types, ThreadTypes
<1>1. CASE RegisterHandler
  BY <1>1 DEF RegisterHandler, StageInv, thread, Polled
<1>2. CASE Call
  <2>1. /\ pc' = "begin" /\ todo' = <<>> /\ status' = "success" /\ buffer' = <<>>
    BY <1>2 DEF Call
  <2> QED  BY <1>0, <2>1 DEF StageInv
<1>3. CASE Begin
  <2>1. Staged /\ UNCHANGED <<late, registered, op, stage, buffer>> /\ pc = "begin"
    BY <1>0, <1>3 DEF Begin, ThreadTypes
  <2>2. buffer = <<>> /\ todo = <<>> /\ status = "success"
    BY <2>1 DEF StageInv
  <2>3. \/ pc' = "write" /\ todo' = Commands(op, stage) /\ status' = "success"
        \/ /\ pc' = "end" /\ todo' = <<>> /\ status' \in {"bad_arg", "busy"}
           /\ status' = "bad_arg" => ~Polled /\ registered = 0
    BY <1>3, <2>2 DEF Begin, Enable
  <2>4. stage = "tx" => \A i \in 1 .. Len(todo') : todo'[i].val # 0
    BY <1>0, <2>1, <2>3, CommandsAre DEF Staged
  <2> QED  BY <2>1, <2>2, <2>3, <2>4 DEF StageInv, Polled, Staged
<1>4. CASE CmdWrite
  <2>1. pc = "write" /\ UNCHANGED <<registered, op, stage, todo, buffer>>
    BY <1>4 DEF CmdWrite
  <2>2. \/ pc' = "check" /\ UNCHANGED <<late, status>>
        \/ pc' = "wait" /\ status' = "timeout" /\ late' = 1
    BY <1>4 DEF CmdWrite, GivesUp
  <2> QED  BY <2>1, <2>2 DEF StageInv, Polled
<1>5. CASE Check
  <2>1. /\ pc = "check" /\ UNCHANGED <<late, registered, op, stage, buffer>>
        /\ todo' = Tail(todo) /\ Staged /\ todo # <<>>
    BY <1>0, <1>5 DEF Check, ThreadTypes
  <2>2. /\ status' \in {"arb_lost", "nack", "success"}
        /\ status' # "success" => pc' = "wait"
        /\ status' = "success" /\ todo' = <<>> => pc' = Written
        /\ status' = "success" /\ todo' # <<>> =>
             pc' = IF Polled /\ Head(todo).val = 0 THEN "drain" ELSE "write"
    BY <1>5 DEF Check
  <2>3. /\ Head(todo) = todo[1] /\ Len(todo) \in Nat \ {0} /\ Len(Tail(todo)) = Len(todo) - 1
        /\ \A i \in 1 .. Len(todo) - 1 : Tail(todo)[i] = todo[i + 1]
    BY <1>0, <2>1, OutOfFifo
  <2>4. stage = "tx" => Head(todo).val # 0 /\ \A i \in 1 .. Len(todo') : todo'[i].val # 0
    <3>1. SUFFICES ASSUME stage = "tx"
                   PROVE  Head(todo).val # 0 /\ \A i \in 1 .. Len(todo') : todo'[i].val # 0
      OBVIOUS
    <3>2. \A i \in 1 .. Len(todo) : todo[i].val # 0
      BY <3>1 DEF StageInv
    <3>3. ASSUME NEW i \in 1 .. Len(todo) - 1 PROVE Tail(todo)[i].val # 0
      <4>1. i + 1 \in 1 .. Len(todo)
        BY <2>3
      <4> QED  BY <2>3, <3>2, <4>1
    <3>4. 1 \in 1 .. Len(todo)
      BY <2>3
    <3> QED  BY <2>1, <2>3, <3>2, <3>3, <3>4
  <2>5. /\ pc' \in {"wait", "read", "end", "arm", "drain", "write"}
        /\ pc' \in {"drain", "read"} => stage = "rx" /\ Polled
        /\ pc' \in {"drain", "write"} => todo' # <<>> /\ status' = "success"
        /\ pc' \in {"read", "end", "arm"} => todo' = <<>> /\ status' = "success"
        /\ pc' = "arm" => ~Polled /\ Stop(op, stage)
        /\ pc' = "wait" /\ status' = "success"
             => Polled /\ Stop(op, stage) /\ stage # "rx" /\ todo' = <<>>
    BY <2>1, <2>2, <2>4 DEF Written, Staged
  <2>6. Polled' = Polled /\ Stop(op, stage)' = Stop(op, stage)
    BY <2>1 DEF Polled
  <2>7. stage = "tx" \/ (~Polled /\ stage # "query") => buffer = <<>>
    BY DEF StageInv
  <2> QED  BY <2>1, <2>2, <2>4, <2>5, <2>6, <2>7 DEF StageInv
<1>6. CASE Drain
  <2>1. /\ pc = "drain" /\ pc' \in {"write", "drain"}
        /\ UNCHANGED <<late, registered, op, stage, todo, status>>
    BY <1>6 DEF Drain
  <2>2. stage = "rx" /\ Polled /\ status = "success"
    BY <2>1 DEF StageInv
  <2> QED  BY <2>1, <2>2 DEF StageInv, Polled
<1>7. CASE RxRead
  <2>1. /\ pc = "read" /\ UNCHANGED <<registered, op, stage, todo>>
        /\ \/ pc' = "read" /\ UNCHANGED <<late, status>>
           \/ pc' = "wait" /\ status' = "timeout" /\ late' = 1
           \/ pc' = "wait" /\ UNCHANGED <<late, status, buffer>> /\ Len(buffer) >= Size
    BY <1>7 DEF RxRead, GivesUp
  <2>2. stage = "rx" /\ Polled /\ status = "success" /\ todo = <<>>
    BY <2>1 DEF StageInv
  <2>3. Size = op.m /\ Stop(op, stage)
    BY <2>2 DEF Size, Stop
  <2>4. Stop(op, stage)' = Stop(op, stage)
    BY <2>1
  <2> QED  BY <1>0, <2>1, <2>2, <2>3, <2>4 DEF StageInv, Polled
<1>8. CASE WaitIdle
  <2>1. /\ pc = "wait" /\ pc' = "end" /\ todo' = <<>>
        /\ UNCHANGED <<registered, op, stage, buffer>>
        /\ status' \in {"nack", "timeout", status}
        /\ status' = "timeout" => status = "timeout" \/ late' = 1
        /\ late' = late \/ late' = 1
    BY <1>8 DEF WaitIdle, GivesUp
  <2>2. Staged
    BY <1>0, <2>1 DEF ThreadTypes
  <2> QED  BY <1>0, <2>1, <2>2 DEF StageInv, Polled, Staged
<1>9. CASE Arm
  <2>1. pc = "arm" /\ pc' = "end" /\ UNCHANGED <<late, registered, op, stage, todo, status, buffer>>
    BY <1>9 DEF Arm
  <2> QED  BY <2>1 DEF StageInv, Polled
<1>10. CASE Wrapper
  <2>1. /\ pc = "end" /\ UNCHANGED <<late, registered, op, todo>>
        /\ \/ pc' = "begin" /\ status' = "success" /\ buffer' = <<>>
           \/ /\ status \in Retried \/ op.kind # "tx_rx" \/ stage = "rx"
              /\ pc' = "done" /\ UNCHANGED <<stage, status, buffer>>
    BY <1>10 DEF Wrapper, Try
  <2>2. todo = <<>>
    BY <2>1 DEF StageInv
  <2> QED  BY <1>0, <2>1, <2>2 DEF StageInv, Polled
<1>11. CASE Return
  <2>1. /\ pc = "done" /\ pc' = "ready" /\ status' = "success" /\ buffer' = <<>>
        /\ UNCHANGED <<late, registered, todo>>
    BY <1>11 DEF Return
  <2>2. todo = <<>>
    BY <2>1 DEF StageInv
  <2> QED  BY <1>0, <2>1, <2>2 DEF StageInv
<1>12. CASE Query
  <2>1. /\ pc = "ready" /\ pc' \in {"done", "abort"} /\ stage' = "query"
        /\ status' \in {"nack", "busy", "success"} /\ UNCHANGED <<late, registered, todo, op>>
    BY <1>12 DEF Query
  <2>2. todo = <<>>
    BY <2>1 DEF StageInv
  <2> QED  BY <1>0, <2>1, <2>2 DEF StageInv
<1>13. CASE Abort
  <2>1. /\ pc = "abort" /\ pc' = "done" /\ UNCHANGED <<registered, stage, todo, op, buffer>>
        /\ status' \in {status, "timeout"}
    BY <1>13 DEF Abort
  <2>2. stage = "query" /\ todo = <<>>
    BY <1>0, <2>1 DEF StageInv, ThreadTypes
  <2> QED  BY <1>0, <2>1, <2>2 DEF StageInv, Polled
<1> QED
  BY <1>1, <1>2, <1>3, <1>4, <1>5, <1>6, <1>7, <1>8, <1>9, <1>10, <1>11, <1>12, <1>13 DEF Thread

LEMMA StageStep ==
  ASSUME Types, StageInv, [Next]_vars
  PROVE  StageInv'
<1>1. CASE Core \/ UNCHANGED vars
  BY <1>1, CoreStage DEF Core, vars
<1>2. CASE Thread
  BY <1>2, ThreadStage
<1>3. CASE Handler
  <2>1. UNCHANGED <<registered, thread>> /\ (late' = 0 => late = 0)
    <3>1. late' = late \/ late' = 1
      BY <1>3 DEF Handler, Interrupt, HandlerReads, HandlerRearms, HandlerHasAll,
                  HandlerFinishes, GivesUp
    <3> QED  BY <1>3, <3>1 DEF Handler
  <2> QED  BY <2>1 DEF StageInv, thread, Polled
<1> QED  BY <1>1, <1>2, <1>3 DEF Next

\* After a polled call the core is off; a combined call is between its halves
\* when its transmit has ended well.
Halfway == pc = "end" /\ stage = "tx" /\ op.kind = "tx_rx" /\ status = "success"
OffInv ==
  pc \in {"end", "done"} /\ Polled /\ stage # "query" /\ status # "busy" /\ ~Halfway
    => dev.en = 0

LEMMA OffStep ==
  ASSUME Types, StageInv, LineInv, OffInv, [Next]_vars
  PROVE  OffInv'
<1> USE DEF Runs, Ends
<1>0. dev \in Device /\ ThreadTypes
  BY DEF Types, CoreTypes
<1>1. CASE Core
  <2>1. dev'.en = dev.en
    BY <1>1, CoreLine DEF Core, CoreStep, Types
  <2> QED  BY <1>1, <2>1 DEF Core, OffInv, Halfway, Polled, thread
<1>2. CASE Thread
  <2>1. CASE Begin
    <3>1. /\ pc = "begin" /\ UNCHANGED <<op, stage>>
          /\ \/ pc' = "write"
             \/ pc' = "end" /\ status' = "busy"
             \/ pc' = "end" /\ ~Polled
      BY <2>1 DEF Begin, Enable
    <3> QED  BY <3>1 DEF OffInv, Polled
  <2>2. CASE Check
    <3>1. UNCHANGED <<op, stage>> /\ pc' \notin {"done"}
      BY <2>2 DEF Check, Written
    <3>2. pc' = "end" => stage = "tx" /\ op.kind = "tx_rx" /\ status' = "success"
      BY <2>2 DEF Check, Written, Stop
    <3> QED  BY <3>1, <3>2 DEF OffInv, Halfway
  <2>3. CASE WaitIdle
    <3>1. dev'.en = 0
      BY <1>0, <2>3, DisabledIs DEF WaitIdle
    <3> QED  BY <3>1 DEF OffInv
  <2>4. CASE Arm
    <3>1. ~Polled /\ UNCHANGED op
      BY <2>4 DEF Arm, StageInv
    <3> QED  BY <3>1 DEF OffInv, Polled
  <2>5. CASE Wrapper
    <3>1. /\ pc = "end" /\ UNCHANGED <<core, op>>
          /\ \/ pc' = "begin"
             \/ /\ status \in Retried \/ op.kind # "tx_rx" \/ stage = "rx"
                /\ pc' = "done" /\ UNCHANGED <<stage, status>>
      BY <2>5 DEF Wrapper, Try
    <3>2. ~("success" \in Retried)
      BY DEF Retried
    <3> QED  BY <3>1, <3>2 DEF OffInv, Halfway, Polled, core
  <2>6. CASE Query \/ Abort
    <3>1. stage' = "query"
      BY <1>0, <2>6 DEF Query, Abort, ThreadTypes
    <3> QED  BY <3>1 DEF OffInv
  <2>7. CASE RegisterHandler \/ Call \/ CmdWrite \/ Drain \/ RxRead \/ Return
    <3>1. pc' \notin {"end", "done"}
      BY <2>7 DEF RegisterHandler, Call, CmdWrite, Drain, RxRead, Return, thread
    <3> QED  BY <3>1 DEF OffInv
  <2> QED  BY <1>2, <2>1, <2>2, <2>3, <2>4, <2>5, <2>6, <2>7 DEF Thread
<1>3. CASE Handler
  <2>1. UNCHANGED thread
    BY <1>3 DEF Handler
  <2>2. dev.en = 0 => dev'.en = 0
    <3>1. CASE Interrupt \/ HandlerRearms
      <4>1. Cleared(dev) \in Device /\ Cleared(dev).en = dev.en
        BY <1>0, ClearedIs
      <4> QED  BY <3>1, <4>1 DEF Interrupt, HandlerRearms, Device
    <3>2. CASE HandlerReads \/ HandlerHasAll
      BY <1>0, <3>2 DEF HandlerReads, HandlerHasAll, Device, core
    <3>3. CASE HandlerFinishes
      BY <1>0, <3>3, DisabledIs DEF HandlerFinishes
    <3> QED  BY <1>3, <3>1, <3>2, <3>3 DEF Handler
  <2> QED  BY <2>1, <2>2 DEF OffInv, Halfway, Polled, thread
<1>4. CASE UNCHANGED vars
  BY <1>4 DEF vars, OffInv, Halfway, Polled, core, thread
<1> QED  BY <1>1, <1>2, <1>3, <1>4 DEF Next

-----------------------------------------------------------------------------
(* While no wait has given up, a transaction is with the thread, with the  *)
(* handler, or nowhere.                                                    *)

\* The thread has the core: it writes the commands, reads, or waits.
Owned ==
  \/ pc \in {"write", "check", "drain", "read", "wait", "arm"}
  \/ Halfway
  \/ pc = "begin" /\ Restart(op, stage) /\ (Polled \/ registered = 1)

\* The commands still to be written are the next ones of the call; while the
\* flags are looked at, the first of them has been written already.
Ahead == IF pc = "check" THEN 1 ELSE 0
TodoInv ==
  /\ WrittenSoFar(op) + Len(todo) - Ahead
       = (IF pc = "begin" THEN LenTx(op) ELSE EndOf(op, stage))
  /\ \A i \in 1 + Ahead .. Len(todo) : todo[i] = CommandAt(op, WrittenSoFar(op) + i - Ahead)

OwnedInv ==
  Owned =>
    /\ dev.en = 1 /\ dev.iser = {} /\ handler = "none" /\ irq = NoIrq
    /\ Polled \/ registered = 1
    /\ (Broken /\ Flagged(dev)) \/ (Sound(op, buffer) /\ TodoInv)
    /\ pc = "wait" /\ status # "success" => Flagged(dev)

\* The handler has it, until irq.busy is 0 again.
HandedInv ==
  irq.busy # 0 =>
    /\ ~Owned /\ dev.en = 1 /\ registered = 1 /\ irq.call \in Calls
    /\ irq.busy = 1 <=> irq.call.kind = "tx"
    /\ irq.busy = 1 => irq.buffer = <<>>
    /\ irq.busy = 2 => irq.size + Len(irq.buffer) = irq.call.m
    /\ handler = "drain" => irq.busy = 2
    /\ handler = "wait" /\ irq.busy = 2 => irq.size = 0
    /\ handler # "none" \/ pc = "abort" => dev.iser = {}
    /\ pc = "abort" => handler = "none"
    /\ Broken \/ (Sound(irq.call, irq.buffer)
                    /\ WrittenSoFar(irq.call) = LenAll(irq.call))

\* Nobody has it: the core is off, idle and empty.
FreeInv ==
  ~Owned /\ irq.busy = 0 =>
    /\ dev.en = 0 /\ dev.fsm = "idle" /\ dev.tx = <<>> /\ dev.rx = <<>>
    /\ dev.iser = {} /\ handler = "none"

\* What a finished call has got.
DoneInv ==
  /\ pc \in {"end", "done"} /\ ~Owned /\ Polled /\ stage # "query" /\ status = "success"
       /\ dev.arb = 0
       => /\ took = Played(op)
          /\ op.kind # "tx" => buffer = UpTo(op.m)
  /\ irq.call # NoCall /\ irq.busy = 0 /\ mishap = "none"
       => /\ took = Played(irq.call)
          /\ irq.call.kind # "tx" => irq.buffer = UpTo(irq.call.m)

Phases ==
  /\ OwnedInv /\ HandedInv /\ FreeInv /\ DoneInv
  /\ registered = 0 => irq = NoIrq
PhaseInv == late = 0 => Phases

IndInv == Types /\ StageInv /\ LineInv /\ OffInv /\ PhaseInv

LEMMA LineStep ==
  ASSUME Types, LineInv, [Next]_vars
  PROVE  LineInv'
<1>0. dev \in Device /\ CoreTypes /\ ThreadTypes
  BY DEF Types, CoreTypes
<1>1. CASE Core
  BY <1>0, <1>1, CoreLine DEF Core, CoreStep
<1>2. ASSUME dev'.en = dev.en, dev'.fsm = dev.fsm, dev'.tx = dev.tx, dev'.sent = dev.sent
      PROVE  LineInv'
  BY <1>2 DEF LineInv
<1>3. ASSUME NEW d \in Device, dev' = Disabled(d),
             d.fsm = dev.fsm, d.tx = dev.tx, d.sent = dev.sent
      PROVE  LineInv'
  <2>1. /\ dev'.en = 0 /\ dev'.tx = dev.tx /\ dev'.sent = dev.sent
        /\ dev.fsm = "pre_idle" /\ dev.tx = <<>> => dev'.fsm = "idle"
        /\ dev.fsm # "pre_idle" => dev'.fsm = dev.fsm
    BY <1>3, DisabledIs
  <2> QED  BY <2>1 DEF LineInv
<1>4. ASSUME NEW S, dev' = [Cleared(dev) EXCEPT !.iser = S] \/
             (\E h : dev' = [Cleared(dev) EXCEPT !.txthd = h, !.iser = S]) \/
             (\E h : dev' = [Cleared(dev) EXCEPT !.rxthd = h, !.iser = S])
      PROVE  LineInv'
  <2>1. /\ Cleared(dev) \in Device /\ Cleared(dev).en = dev.en /\ Cleared(dev).fsm = dev.fsm
        /\ Cleared(dev).tx = dev.tx /\ Cleared(dev).sent = dev.sent
    BY <1>0, ClearedIs
  <2> QED  BY <1>2, <1>4, <2>1 DEF Device
<1>5. CASE Thread
  <2>1. CASE Begin
    <3>1. CASE UNCHANGED core
      BY <1>2, <3>1 DEF core
    <3>2. CASE dev' = Cleared(Enabled(dev))
      <4>1. /\ dev'.en = 1 /\ dev'.tx = dev.tx /\ dev'.sent = dev.sent
            /\ dev'.fsm = IF dev.fsm = "idle" THEN "pre_start" ELSE dev.fsm
        BY <1>0, <3>2, EnabledIs
      <4> QED  BY <4>1 DEF LineInv
    <3> QED  BY <2>1, <3>1, <3>2 DEF Begin, Enable
  <2>2. CASE CmdWrite
    <3>1. CASE UNCHANGED core
      BY <1>2, <3>1 DEF core
    <3>2. CASE dev' = Pushed(dev, Head(todo))
      <4>1. todo # <<>> /\ todo \in Seq(Commanded)
        BY <1>0, <2>2 DEF CmdWrite, Runs, ThreadTypes
      <4>2. /\ dev'.en = dev.en /\ dev'.sent = dev.sent
            /\ Flagged(dev) => dev' = dev
            /\ ~Flagged(dev) /\ dev.fsm # "pre_idle" => dev'.fsm = dev.fsm
            /\ ~Flagged(dev) /\ dev.fsm = "pre_idle" => dev'.fsm = "pre_start"
        BY <1>0, <3>2, <4>1, PushedIs, OutOfFifo
      <4> QED  BY <4>2 DEF LineInv
    <3> QED  BY <2>2, <3>1, <3>2 DEF CmdWrite
  <2>3. CASE Drain \/ RxRead
    BY <1>0, <1>2, <2>3 DEF Drain, RxRead, Device
  <2>4. CASE WaitIdle
    BY <1>0, <1>3, <2>4 DEF WaitIdle
  <2>5. CASE Abort
    <3> DEFINE d == [dev EXCEPT !.rx = <<>>]
    <3>1. d \in Device /\ d.fsm = dev.fsm /\ d.tx = dev.tx /\ d.sent = dev.sent
      BY <1>0, Nothings DEF Device
    <3>2. dev' = Disabled(d)
      BY <2>5 DEF Abort
    <3> HIDE DEF d
    <3> QED  BY <1>3, <3>1, <3>2
  <2>6. CASE Arm
    <3>1. \E S : (\E h : dev' = [Cleared(dev) EXCEPT !.txthd = h, !.iser = S]) \/
                 (\E h : dev' = [Cleared(dev) EXCEPT !.rxthd = h, !.iser = S])
      BY <2>6 DEF Arm
    <3> QED  BY <1>4, <3>1
  <2>7. CASE Query
    BY <1>0, <1>2, <2>7 DEF Query, Device
  <2>8. CASE RegisterHandler \/ Call \/ Check \/ Wrapper \/ Return
    BY <1>2, <2>8 DEF RegisterHandler, Call, Check, Wrapper, Return, core
  <2> QED  BY <1>5, <2>1, <2>2, <2>3, <2>4, <2>5, <2>6, <2>7, <2>8 DEF Thread
<1>6. CASE Handler
  <2>1. CASE Interrupt \/ HandlerRearms
    BY <1>4, <2>1 DEF Interrupt, HandlerRearms
  <2>2. CASE HandlerReads \/ HandlerHasAll
    BY <1>0, <1>2, <2>2 DEF HandlerReads, HandlerHasAll, Device, core
  <2>3. CASE HandlerFinishes
    BY <1>0, <1>3, <2>3 DEF HandlerFinishes
  <2> QED  BY <1>6, <2>1, <2>2, <2>3 DEF Handler
<1>7. CASE UNCHANGED vars
  BY <1>2, <1>7 DEF vars, core
<1> QED  BY <1>1, <1>5, <1>6, <1>7 DEF Next

LEMMA OwnedCall ==
  ASSUME Types, Owned
  PROVE  Staged /\ op \in Calls /\ buffer \in Seq(Int) /\ pc \notin {"ready", "done", "abort"}
BY DEF Types, ThreadTypes, Staged, Owned, Halfway

\* A core that is on belongs to a call that is under way.
LEMMA OnIsUnderWay ==
  ASSUME OffInv, ~Owned, dev.en = 1
  PROVE  ~(pc \in {"end", "done"} /\ Polled /\ stage # "query" /\ status = "success")
BY DEF OffInv, Owned

-----------------------------------------------------------------------------
(* Each actor keeps the phases: the core, the handler, then the thread,    *)
(* action by action.                                                       *)
LEMMA CorePhase ==
  ASSUME IndInv, Core
  PROVE  PhaseInv'
<1> SUFFICES ASSUME late' = 0 PROVE Phases'
  BY DEF PhaseInv
<1>1. /\ CoreStep /\ UNCHANGED <<late, irq, handler, registered, thread>>
  BY DEF Core, CoreStep
<1>2. /\ Types /\ CoreTypes /\ LineInv /\ OffInv /\ OwnedInv /\ HandedInv /\ FreeInv /\ DoneInv
      /\ registered = 0 => irq = NoIrq
  BY <1>1 DEF IndInv, PhaseInv, Phases, Types
<1>3. LineInv' /\ dev'.en = dev.en /\ dev'.iser = dev.iser /\ dev.fsm # "idle"
  BY <1>1, <1>2, CoreLine
<1>4. Owned' = Owned /\ Ahead' = Ahead /\ Polled' = Polled
  BY <1>1 DEF Owned, Halfway, Polled, Ahead, thread
<1>5. CASE Owned
  <2>1. op \in Calls /\ buffer \in Seq(Int)
    BY <1>2, <1>5, OwnedCall
  <2>2. /\ dev.en = 1 /\ dev.iser = {} /\ handler = "none" /\ irq = NoIrq
        /\ Polled \/ registered = 1
        /\ (Broken /\ Flagged(dev)) \/ (Sound(op, buffer) /\ TodoInv)
        /\ pc = "wait" /\ status # "success" => Flagged(dev)
    BY <1>2, <1>5 DEF OwnedInv
  <2>3. /\ Broken' \/ (Sound(op, buffer)' /\ WrittenSoFar(op)' = WrittenSoFar(op))
        /\ Broken /\ Flagged(dev) => Broken' /\ Flagged(dev)'
        /\ Sound(op, buffer) /\ Broken' => Flagged(dev)'
    <3>1. op' = op /\ buffer' = buffer
      BY <1>1 DEF thread
    <3> QED  BY <1>1, <1>2, <2>1, <2>2, <3>1, CoreKeeps
  <2>4. TodoInv /\ WrittenSoFar(op)' = WrittenSoFar(op) => TodoInv'
    <3>1. op' = op /\ stage' = stage /\ pc' = pc /\ todo' = todo
      BY <1>1 DEF thread
    <3> QED  BY <1>4, <3>1 DEF TodoInv
  <2>5. (Broken /\ Flagged(dev))' \/ (Sound(op, buffer)' /\ TodoInv')
    BY <2>2, <2>3, <2>4
  <2>6. (pc = "wait" /\ status # "success")' => Flagged(dev)'
    <3>1. Flagged(dev) => ~Sound(op, buffer)
      BY DEF Sound
    <3> QED  BY <1>1, <2>2, <2>3, <3>1 DEF thread
  <2>7. OwnedInv'
    BY <1>1, <1>3, <1>4, <2>2, <2>5, <2>6 DEF OwnedInv
  <2>8. irq'.busy = 0 /\ irq'.call = NoCall /\ Owned'
    BY <1>1, <1>4, <1>5, <2>2 DEF NoIrq
  <2>9. HandedInv' /\ FreeInv' /\ DoneInv'
    BY <2>8 DEF HandedInv, FreeInv, DoneInv
  <2> QED  BY <1>1, <1>2, <2>7, <2>9 DEF Phases
<1>6. CASE ~Owned /\ irq.busy # 0
  <2>1. /\ dev.en = 1 /\ irq.call \in Calls /\ irq.buffer \in Seq(Int)
        /\ Broken \/ (Sound(irq.call, irq.buffer)
                        /\ WrittenSoFar(irq.call) = LenAll(irq.call))
    BY <1>2, <1>6 DEF HandedInv, Types, HandlerTypes, Transactions
  <2>2. irq' = irq
    BY <1>1
  <2>3. Broken' \/ (Sound(irq.call, irq.buffer)' /\ WrittenSoFar(irq.call)' = WrittenSoFar(irq.call))
    BY <1>1, <1>2, <2>1, <2>2, CoreKeeps
  <2>4. Broken' \/ (Sound(irq.call, irq.buffer)' /\ WrittenSoFar(irq.call)' = LenAll(irq.call))
    <3>1. Broken => Broken'
      BY <1>1, <1>2, <2>1, StaysBroken
    <3> QED  BY <2>1, <2>3, <3>1
  <2>5. HandedInv'
    BY <1>1, <1>2, <1>3, <1>4, <1>6, <2>2, <2>4 DEF HandedInv, thread
  <2>6. ~(pc \in {"end", "done"} /\ Polled /\ stage # "query" /\ status = "success")
    BY <1>2, <1>6, <2>1, OnIsUnderWay
  <2>7. OwnedInv' /\ FreeInv'
    BY <1>4, <1>6, <2>2 DEF OwnedInv, FreeInv
  <2>8. DoneInv'
    BY <1>1, <1>4, <1>6, <2>2, <2>6 DEF DoneInv, thread
  <2> QED  BY <1>1, <1>2, <2>5, <2>7, <2>8 DEF Phases
<1>7. CASE ~Owned /\ irq.busy = 0
  BY <1>2, <1>3, <1>7 DEF FreeInv
<1> QED  BY <1>5, <1>6, <1>7

\* A byte of the FIFO goes into the buffer.
LEMMA ByteMoves ==
  ASSUME CoreTypes, NEW o \in Calls, NEW b \in Seq(Int), Sound(o, b), dev.rx # <<>>,
         dev' = [dev EXCEPT !.rx = Tail(@)], UNCHANGED <<took, mishap>>,
         NEW c, c = Append(b, Head(dev.rx))
  PROVE  Sound(o, c)' /\ WrittenSoFar(o)' = WrittenSoFar(o)
<1>1. /\ dev'.en = dev.en /\ dev'.fsm = dev.fsm /\ dev'.tx = dev.tx /\ dev'.cmd = dev.cmd
      /\ dev'.rw = dev.rw /\ dev'.sent = dev.sent /\ dev'.nack = dev.nack
      /\ dev'.arb = dev.arb /\ dev'.rx = Tail(dev.rx)
  BY DEF CoreTypes, Device
<1>2. /\ Head(dev.rx) = dev.rx[1] /\ Len(dev.rx) \in Nat \ {0} /\ Head(dev.rx) \in Int
      /\ Len(dev'.rx) = Len(dev.rx) - 1
      /\ \A i \in 1 .. Len(dev.rx) - 1 : dev'.rx[i] = dev.rx[i + 1]
  BY <1>1, OutOfFifo DEF CoreTypes, Device
<1>3. /\ Len(b) \in Nat /\ c \in Seq(Int) /\ Len(c) = Len(b) + 1
      /\ c[Len(b) + 1] = dev.rx[1] /\ \A i \in 1 .. Len(b) : c[i] = b[i]
  BY <1>2, IntoFifo
<1>4. Fetched(o)' = Fetched(o) /\ WrittenSoFar(o)' = WrittenSoFar(o)
      /\ Received(o)' = Received(o)
  BY <1>1 DEF Fetched, Stopped, InFlight, WrittenSoFar, Received
<1>5. Playing(o)'
  <2>1. Position(o)'
    BY <1>1, <1>4 DEF Sound, Playing, Position
  <2> QED  BY <1>1, <1>4, <2>1 DEF Sound, Playing, InFlight
<1>6. Receiving(o, c)'
  <2>1. Len(c) + Len(dev'.rx) = Len(b) + Len(dev.rx)
    <3>1. /\ Len(c) = Len(b) + 1 /\ Len(dev'.rx) = Len(dev.rx) - 1
          /\ Len(b) \in Nat /\ Len(dev.rx) \in Nat
      BY <1>2, <1>3
    <3>2. \A m, n \in Nat : (m + 1) + (n - 1) = m + n
      OBVIOUS
    <3> QED  BY <3>1, <3>2
  <2>2. Len(c) + Len(dev'.rx) <= Received(o)'
    BY <1>4, <2>1 DEF Sound, Receiving
  <2>3. ASSUME Len(c) + Len(dev'.rx) = Received(o)'
        PROVE  /\ \A i \in 1 .. Len(c) : c[i] = i
               /\ \A i \in 1 .. Len(dev'.rx) : dev'.rx[i] = Len(c) + i
    <3>1. /\ \A i \in 1 .. Len(b) : b[i] = i
          /\ \A i \in 1 .. Len(dev.rx) : dev.rx[i] = Len(b) + i
      BY <1>4, <2>1, <2>3 DEF Sound, Receiving
    <3>2. ASSUME NEW i \in 1 .. Len(c) PROVE c[i] = i
      <4>1. i \in 1 .. Len(b) \/ i = Len(b) + 1
        BY <1>3
      <4>2. 1 \in 1 .. Len(dev.rx)
        BY <1>2
      <4> QED  BY <1>3, <3>1, <4>1, <4>2
    <3>3. ASSUME NEW i \in 1 .. Len(dev'.rx) PROVE dev'.rx[i] = Len(c) + i
      <4>1. i \in 1 .. Len(dev.rx) - 1 /\ i + 1 \in 1 .. Len(dev.rx)
        BY <1>2
      <4>2. Len(b) + (i + 1) = Len(c) + i
        BY <1>3, <4>1
      <4> QED  BY <1>2, <3>1, <4>1, <4>2
    <3> QED  BY <3>2, <3>3
  <2> QED  BY <2>2, <2>3 DEF Receiving
<1> QED  BY <1>1, <1>4, <1>5, <1>6 DEF Sound, Refused, Flagged

\* A change of the registers only.
LEMMA RegistersKeep ==
  ASSUME NEW o \in Calls, NEW b \in Seq(Int), UNCHANGED <<took, mishap>>,
         dev'.fsm = dev.fsm, dev'.tx = dev.tx, dev'.rx = dev.rx, dev'.cmd = dev.cmd,
         dev'.rw = dev.rw, dev'.sent = dev.sent
  PROVE  /\ Broken => Broken'
         /\ Sound(o, b) /\ ~Flagged(dev)' => Sound(o, b)'
         /\ WrittenSoFar(o)' = WrittenSoFar(o)
<1>1. /\ Fetched(o)' = Fetched(o) /\ WrittenSoFar(o)' = WrittenSoFar(o)
      /\ Received(o)' = Received(o)
  BY DEF Fetched, Stopped, InFlight, WrittenSoFar, Received
<1>2. Position(o) => Position(o)'
  BY <1>1 DEF Position
<1>3. Playing(o) => Playing(o)'
  BY <1>1, <1>2 DEF Playing, InFlight
<1>4. Receiving(o, b) => Receiving(o, b)'
  BY <1>1 DEF Receiving
<1> QED  BY <1>1, <1>3, <1>4 DEF Sound, Refused, Broken

\* A transaction that has stopped without a flag is whole.
LEMMA SoundAndStopped ==
  ASSUME CoreTypes, NEW o \in Calls, NEW b \in Seq(Int), Sound(o, b), Stopped
  PROVE  /\ took = Played(o)
         /\ Len(b) >= o.m => Len(b) = o.m /\ dev.rx = <<>> /\ b = UpTo(o.m)
<1>1. took = Played(o)
  <2>1. took \in Seq(Int) /\ Len(took) = Acks(o)
    BY DEF CoreTypes, Sound, Playing, Position, Stopped
  <2>2. /\ Played(o) \in Seq(Int) /\ Len(Played(o)) = Acks(o)
        /\ \A i \in 1 .. Acks(o) : Played(o)[i] = CommandAt(o, i).val
    BY PlayedIs
  <2>3. \A i \in 1 .. Len(took) : took[i] = CommandAt(o, i).val
    BY DEF Sound, Playing
  <2>4. \A i \in 1 .. Len(took) : took[i] = Played(o)[i]
    BY <2>1, <2>2, <2>3
  <2> QED  BY <2>1, <2>2, <2>4, SeqEqual
<1>2. ASSUME Len(b) >= o.m PROVE Len(b) = o.m /\ dev.rx = <<>> /\ b = UpTo(o.m)
  <2>1. /\ Len(b) \in Nat /\ Len(dev.rx) \in Nat /\ o.m \in Nat /\ dev.rx \in Seq(Int)
        /\ Len(b) + Len(dev.rx) <= o.m
    BY CallIs, LenProperties DEF CoreTypes, Device, Sound, Receiving, Received
  <2>2. Len(b) = o.m /\ Len(dev.rx) = 0 /\ Len(b) + Len(dev.rx) = o.m
    BY <1>2, <2>1
  <2>3. \A i \in 1 .. Len(b) : b[i] = i
    BY <2>2 DEF Sound, Receiving, Received
  <2>4. b = UpTo(o.m)
    <3>1. UpTo(o.m) \in Seq(Int) /\ Len(UpTo(o.m)) = o.m /\ \A i \in 1 .. o.m : UpTo(o.m)[i] = i
      BY <2>1, UpToIs
    <3> QED  BY <2>2, <2>3, <3>1, SeqEqual
  <2> QED  BY <2>1, <2>2, <2>4, EmptySeq
<1> QED  BY <1>1, <1>2

\* The core has stopped, and the driver turns it off.
LEMMA OffIsFree ==
  ASSUME CoreTypes, LineInv, dev.en = 1, ~Busy, dev' = Disabled(dev)
  PROVE  /\ Stopped /\ dev'.en = 0 /\ dev'.fsm = "idle" /\ dev'.tx = <<>>
         /\ dev'.rx = dev.rx /\ dev'.iser = dev.iser
         /\ dev'.nack = dev.nack /\ dev'.arb = dev.arb
<1>1. dev.fsm = "pre_idle" /\ dev.tx = <<>> /\ dev \in Device
  BY DEF Busy, LineInv, CoreTypes
<1> QED  BY <1>1, DisabledIs DEF Stopped

\* The interrupt handler drains, gives the core back or rearms itself.
LEMMA HandlerPhase ==
  ASSUME IndInv, Handler
  PROVE  PhaseInv'
<1> SUFFICES ASSUME late' = 0 PROVE Phases'
  BY DEF PhaseInv
<1>1. UNCHANGED <<registered, thread, took, mishap, late>>
  BY DEF Handler, Interrupt, HandlerReads, HandlerRearms, HandlerHasAll, HandlerFinishes,
         GivesUp, core
<1>2. /\ Types /\ CoreTypes /\ LineInv /\ OffInv /\ OwnedInv /\ HandedInv /\ FreeInv
      /\ dev \in Device /\ irq \in Transactions /\ irq.buffer \in Seq(Int)
      /\ irq.size \in Nat
  BY <1>1 DEF IndInv, PhaseInv, Phases, Types, CoreTypes, HandlerTypes, Transactions
<1>3. handler # "none" \/ dev.iser # {}
  BY DEF Handler, Interrupt, HandlerReads, HandlerRearms, HandlerHasAll, HandlerFinishes
<1>4. /\ ~Owned /\ irq.busy # 0 /\ dev.en = 1 /\ registered = 1 /\ irq.call \in Calls
      /\ irq.busy = 1 <=> irq.call.kind = "tx"
      /\ irq.busy = 1 => irq.buffer = <<>>
      /\ irq.busy = 2 => irq.size + Len(irq.buffer) = irq.call.m
      /\ handler = "drain" => irq.busy = 2
      /\ handler = "wait" /\ irq.busy = 2 => irq.size = 0
      /\ handler # "none" => dev.iser = {}
      /\ pc # "abort"
      /\ Broken \/ (Sound(irq.call, irq.buffer) /\ WrittenSoFar(irq.call) = LenAll(irq.call))
  BY <1>2, <1>3 DEF OwnedInv, HandedInv, FreeInv
<1>5. /\ ~Owned' /\ Polled' = Polled /\ pc' = pc /\ pc' # "abort"
      /\ ~(pc \in {"end", "done"} /\ Polled /\ stage # "query" /\ status = "success")'
  <2>1. Owned' = Owned /\ Polled' = Polled /\ pc' = pc /\ stage' = stage /\ status' = status
    BY <1>1 DEF Owned, Halfway, Polled, thread
  <2> QED  BY <1>2, <1>4, <2>1, OnIsUnderWay
<1>6. ASSUME irq'.busy # 0, HandedInv'
      PROVE  Phases'
  BY <1>1, <1>4, <1>5, <1>6 DEF OwnedInv, FreeInv, DoneInv, Phases
<1>7. /\ Cleared(dev) \in Device /\ Cleared(dev) = [dev EXCEPT !.nack = 0, !.arb = 0]
      /\ ~Flagged(Cleared(dev))
  BY <1>2, ClearedIs
<1>8. ASSUME NEW S, dev' = [Cleared(dev) EXCEPT !.iser = S], irq' = irq
      PROVE  /\ dev'.en = 1 /\ dev'.iser = S /\ irq' = irq
             /\ Broken' \/ (Sound(irq.call, irq.buffer)'
                              /\ WrittenSoFar(irq.call)' = LenAll(irq.call))
  <2>1. /\ dev'.fsm = dev.fsm /\ dev'.tx = dev.tx /\ dev'.rx = dev.rx /\ dev'.cmd = dev.cmd
        /\ dev'.rw = dev.rw /\ dev'.sent = dev.sent /\ dev'.en = 1 /\ dev'.iser = S
        /\ dev'.nack = 0 /\ dev'.arb = 0
    <3>1. /\ Cleared(dev).fsm = dev.fsm /\ Cleared(dev).tx = dev.tx /\ Cleared(dev).rx = dev.rx
          /\ Cleared(dev).cmd = dev.cmd /\ Cleared(dev).rw = dev.rw
          /\ Cleared(dev).sent = dev.sent /\ Cleared(dev).en = 1
          /\ Cleared(dev).nack = 0 /\ Cleared(dev).arb = 0
      BY <1>2, <1>4, ClearedIs
    <3> QED  BY <1>7, <1>8, <3>1 DEF Device
  <2>2. ~Flagged(dev)'
    BY <2>1 DEF Flagged
  <2>3. irq'.call = irq.call /\ irq'.buffer = irq.buffer
    BY <1>8
  <2> QED  BY <1>1, <1>2, <1>4, <1>8, <2>1, <2>2, <2>3, RegistersKeep
<1>9. CASE Interrupt
  <2>1. /\ dev' = [Cleared(dev) EXCEPT !.iser = {}] /\ irq' = irq
        /\ handler' = IF irq.busy = 2 THEN "drain" ELSE "wait"
    BY <1>9 DEF Interrupt
  <2>2. HandedInv'
    BY <1>1, <1>4, <1>5, <1>8, <2>1 DEF HandedInv
  <2> QED  BY <1>4, <1>6, <2>1, <2>2
<1>10. CASE HandlerRearms
  <2>1. /\ dev' = [Cleared(dev) EXCEPT !.iser = @ \cup {"rx_ready"}] /\ irq' = irq
        /\ handler' = "none"
    BY <1>10 DEF HandlerRearms
  <2>2. HandedInv'
    BY <1>1, <1>4, <1>5, <1>8, <2>1 DEF HandedInv
  <2> QED  BY <1>4, <1>6, <2>1, <2>2
<1>11. CASE HandlerHasAll
  <2>1. handler = "drain" /\ irq.size = 0 /\ handler' = "wait" /\ dev' = dev /\ irq' = irq
    BY <1>11 DEF HandlerHasAll, core
  <2>2. Broken' = Broken
    BY <1>1, <2>1 DEF Broken, Refused
  <2>3. Sound(irq.call, irq.buffer) /\ WrittenSoFar(irq.call) = LenAll(irq.call) =>
          Sound(irq.call, irq.buffer)' /\ WrittenSoFar(irq.call)' = LenAll(irq.call)
    <3>1. Flagged(dev)' = Flagged(dev)
      BY <2>1
    <3> QED  BY <1>1, <1>2, <1>4, <2>1, <3>1, RegistersKeep DEF Sound
  <2>4. HandedInv'
    BY <1>1, <1>4, <1>5, <2>1, <2>2, <2>3 DEF HandedInv
  <2> QED  BY <1>4, <1>6, <2>1, <2>4
<1>12. CASE HandlerReads
  <2> DEFINE b == Append(irq.buffer, Head(dev.rx))
  <2>1. /\ handler = "drain" /\ dev.rx # <<>> /\ irq.size > 0 /\ handler' = handler
        /\ dev' = [dev EXCEPT !.rx = Tail(@)]
        /\ irq' = [irq EXCEPT !.size = irq.size - 1, !.buffer = b]
    BY <1>12 DEF HandlerReads
  <2>2. /\ irq'.busy = irq.busy /\ irq'.call = irq.call /\ irq'.size = irq.size - 1
        /\ irq'.buffer = b
    BY <1>2, <2>1 DEF Transactions
  <2>3. Sound(irq.call, irq.buffer) /\ WrittenSoFar(irq.call) = LenAll(irq.call)
    BY <1>4, <2>1 DEF Broken
  <2>4. Sound(irq.call, irq.buffer)' /\ WrittenSoFar(irq.call)' = LenAll(irq.call)'
    <3>1. ASSUME NEW o \in Calls, NEW c, o = irq.call, c = b
          PROVE  Sound(o, c)' /\ WrittenSoFar(o)' = LenAll(o)
      BY <1>1, <1>2, <2>1, <2>3, <3>1, ByteMoves
    <3>2. PICK o \in Calls : o = irq.call
      BY <1>4
    <3>3. PICK c : c = b
      OBVIOUS
    <3>4. Sound(o, c)' /\ WrittenSoFar(o)' = LenAll(o) /\ o = irq'.call /\ c = irq'.buffer
      BY <2>2, <3>1, <3>2, <3>3
    <3> HIDE DEF b
    <3> QED  BY <3>4
  <2>5. dev'.en = 1 /\ dev'.iser = dev.iser
    BY <1>2, <1>4, <2>1 DEF Device
  <2>6. irq'.busy = 2 /\ irq'.size + Len(irq'.buffer) = irq.call.m
    <3>1. Len(b) = Len(irq.buffer) + 1 /\ Len(irq.buffer) \in Nat
      <4>1. Head(dev.rx) \in Int
        BY <1>2, <2>1, OutOfFifo DEF Device
      <4> QED  BY <1>2, <4>1, IntoFifo
    <3>2. irq.busy = 2 /\ irq.size + Len(irq.buffer) = irq.call.m
      BY <1>4, <2>1
    <3>3. \A m, n \in Nat : (m - 1) + (n + 1) = m + n
      OBVIOUS
    <3> QED  BY <1>2, <2>2, <3>1, <3>2, <3>3
  <2>7. HandedInv'
    BY <1>1, <1>4, <1>5, <2>1, <2>2, <2>4, <2>5, <2>6 DEF HandedInv
  <2> QED  BY <1>6, <2>6, <2>7
<1>13. CASE HandlerFinishes
  <2>1. /\ handler = "wait" /\ ~Busy /\ dev' = Disabled(dev)
        /\ irq' = [irq EXCEPT !.busy = 0] /\ handler' = "none"
    BY <1>1, <1>2, <1>13 DEF HandlerFinishes, GivesUp
  <2>2. irq'.busy = 0 /\ irq'.call = irq.call /\ irq'.buffer = irq.buffer
    BY <1>2, <2>1 DEF Transactions
  <2>3. /\ Stopped /\ dev'.en = 0 /\ dev'.fsm = "idle" /\ dev'.tx = <<>>
        /\ dev'.rx = dev.rx /\ dev'.iser = {}
    BY <1>2, <1>4, <2>1, OffIsFree
  <2>4. Len(irq.buffer) >= irq.call.m
    <3>1. irq.busy \in {1, 2}
      BY <1>2, <1>4 DEF Transactions
    <3>2. CASE irq.busy = 1
      BY <1>2, <1>4, <3>2, CallIs, LenProperties
    <3>3. CASE irq.busy = 2
      BY <1>2, <1>4, <2>1, <3>3, LenProperties
    <3> QED  BY <3>1, <3>2, <3>3
  <2>5. Sound(irq.call, irq.buffer)
          => took = Played(irq.call) /\ irq.buffer = UpTo(irq.call.m) /\ dev.rx = <<>>
    BY <1>2, <1>4, <2>3, <2>4, SoundAndStopped
  <2>6. dev.rx = <<>>
    BY <1>4, <2>5 DEF Broken
  <2>7. mishap' = "none" => took' = Played(irq'.call) /\ irq'.buffer = UpTo(irq'.call.m)
    <3>1. mishap' = "none" => ~Broken
      BY <1>1 DEF Broken, Refused
    <3> QED  BY <1>1, <1>4, <2>2, <2>5, <3>1
  <2>8. DoneInv'
    BY <1>5, <2>7 DEF DoneInv
  <2>9. OwnedInv' /\ HandedInv' /\ FreeInv'
    BY <1>5, <2>1, <2>2, <2>3, <2>6 DEF OwnedInv, HandedInv, FreeInv
  <2> QED  BY <1>1, <1>4, <2>8, <2>9 DEF Phases
<1> QED  BY <1>9, <1>10, <1>11, <1>12, <1>13 DEF Handler

\* What IndInv gives a step of the thread in which no wait gives up.
LEMMA Phased ==
  ASSUME IndInv, late = 0
  PROVE  /\ Types /\ CoreTypes /\ ThreadTypes /\ StageInv /\ LineInv /\ OffInv
         /\ OwnedInv /\ HandedInv /\ FreeInv /\ DoneInv
         /\ registered = 0 => irq = NoIrq
         /\ dev \in Device /\ irq \in Transactions /\ buffer \in Seq(Int)
         /\ todo \in Seq(Commanded)
BY DEF IndInv, PhaseInv, Phases, Types, CoreTypes, HandlerTypes, ThreadTypes

\* A step of the thread that leaves the core and the handler alone.
LEMMA StaysElsewhere ==
  ASSUME HandedInv, FreeInv, ~Owned, ~Owned', UNCHANGED <<core, irq, handler>>,
         registered' \in {registered, 1}, pc' # "abort"
  PROVE  OwnedInv' /\ HandedInv' /\ FreeInv'
<1>1. dev' = dev /\ took' = took /\ mishap' = mishap /\ irq' = irq /\ handler' = handler
  BY DEF core
<1>2. Broken' = Broken
  BY <1>1 DEF Broken, Refused
<1>3. /\ Sound(irq.call, irq.buffer)' = Sound(irq.call, irq.buffer)
      /\ WrittenSoFar(irq.call)' = WrittenSoFar(irq.call)
  BY <1>1 DEF Sound, Refused, Flagged, Playing, Position, Receiving, Received, Fetched,
              WrittenSoFar, Stopped, InFlight
<1>4. HandedInv'
  BY <1>1, <1>2, <1>3 DEF HandedInv
<1> QED  BY <1>1, <1>4 DEF OwnedInv, FreeInv

\* Calls, handler registration and returns leave the core with nobody.
LEMMA CallPhase ==
  ASSUME IndInv, late = 0, late' = 0, RegisterHandler \/ Call \/ Return
  PROVE  Phases'
<1>1. /\ pc \in {"ready", "done"} /\ pc' \in {"ready", "begin"} /\ UNCHANGED <<core, handler>>
      /\ registered' \in {registered, 1}
  BY DEF RegisterHandler, Call, Return, Runs, thread
<1>2. irq' = irq
  <2>1. CASE RegisterHandler
    <3>1. irq = NoIrq /\ irq' = [irq EXCEPT !.busy = 0]
      BY <2>1, Phased DEF RegisterHandler
    <3> QED  BY <3>1 DEF NoIrq
  <2>2. CASE Call \/ Return
    BY <2>2 DEF Call, Return
  <2> QED  BY <2>1, <2>2
<1>3. registered' = 0 => irq' = NoIrq
  <2>1. registered' = 0 => registered = 0
    BY <1>1
  <2> QED  BY <1>2, <2>1, Phased
<1>4. ~Owned
  BY <1>1 DEF Owned, Halfway
<1>5. ~Owned'
  <2>1. CASE RegisterHandler \/ Return
    <3>1. pc' = "ready"
      BY <2>1 DEF RegisterHandler, Return, Runs, thread
    <3> QED  BY <3>1 DEF Owned, Halfway
  <2>2. CASE Call
    <3>1. pc' = "begin" /\ stage' = FirstStage(op')
      BY <2>2 DEF Call
    <3> QED  BY <3>1 DEF Owned, Halfway, Restart, FirstStage
  <2> QED  BY <2>1, <2>2
<1>6. OwnedInv' /\ HandedInv' /\ FreeInv'
  BY <1>1, <1>2, <1>4, <1>5, Phased, StaysElsewhere
<1>7. DoneInv'
  BY <1>1, <1>2, Phased DEF DoneInv, core
<1> QED  BY <1>3, <1>6, <1>7 DEF Phases

\* Between the halves of a combined call, and between attempts.
LEMMA WrapperPhase ==
  ASSUME IndInv, late = 0, late' = 0, Wrapper
  PROVE  Phases'
<1>1. /\ pc = "end" /\ UNCHANGED <<core, late, irq, handler, registered, op, todo>>
      /\ \/ status \in Retried /\ Try(FirstStage(op))
         \/ status \notin Retried /\ op.kind = "tx_rx" /\ stage = "tx" /\ Try("rx")
         \/ /\ status \in Retried \/ op.kind # "tx_rx" \/ stage = "rx"
            /\ pc' = "done" /\ UNCHANGED <<stage, status, buffer>>
  BY DEF Wrapper, Runs
<1>2. ~("success" \in Retried)
  BY DEF Retried
<1>3. registered' = 0 => irq' = NoIrq
  BY <1>1, Phased
<1>4. CASE Owned
  <2>1. stage = "tx" /\ op.kind = "tx_rx" /\ status = "success"
    BY <1>1, <1>4 DEF Owned, Halfway
  <2>2. /\ pc' = "begin" /\ stage' = "rx" /\ status' = "success" /\ buffer' = <<>>
        /\ op' = op /\ todo' = todo /\ todo = <<>> /\ buffer = <<>> /\ op \in Calls
    BY <1>1, <1>2, <1>4, <2>1, Phased, OwnedCall DEF Try, StageInv
  <2>3. /\ dev.en = 1 /\ dev.iser = {} /\ handler = "none" /\ irq = NoIrq
        /\ Polled \/ registered = 1
        /\ (Broken /\ Flagged(dev)) \/ (Sound(op, buffer) /\ TodoInv)
    BY <1>4, Phased DEF OwnedInv
  <2>4. dev' = dev /\ took' = took /\ mishap' = mishap
    BY <1>1 DEF core
  <2>5. /\ Broken' = Broken /\ Flagged(dev)' = Flagged(dev)
        /\ Sound(op, buffer) => Sound(op, buffer)'
        /\ WrittenSoFar(op)' = WrittenSoFar(op)
    <3>1. buffer' = buffer /\ Flagged(dev)' = Flagged(dev)
      BY <2>2, <2>4
    <3>2. Broken' = Broken
      BY <2>4 DEF Broken, Refused
    <3> QED  BY <2>2, <2>4, <3>1, <3>2, RegistersKeep, Nothings DEF Sound
  <2>6. TodoInv => TodoInv'
    BY <1>1, <2>1, <2>2, <2>5, Nothings DEF TodoInv, Ahead, EndOf
  <2>7. Polled' = Polled
    BY <2>2 DEF Polled
  <2>8. OwnedInv'
    BY <1>1, <2>2, <2>3, <2>4, <2>5, <2>6, <2>7 DEF OwnedInv
  <2>9. Owned' /\ irq'.busy = 0 /\ irq'.call = NoCall
    BY <1>1, <2>1, <2>2, <2>3, <2>7 DEF Owned, Restart, NoIrq
  <2>10. HandedInv' /\ FreeInv' /\ DoneInv'
    BY <2>9 DEF HandedInv, FreeInv, DoneInv
  <2> QED  BY <1>3, <2>8, <2>10 DEF Phases
<1>5. CASE ~Owned
  <2>1. Staged
    BY <1>1, Phased DEF ThreadTypes
  <2>2. ~Owned' /\ pc' # "abort"
    <3>1. CASE Try(FirstStage(op))
      BY <1>1, <3>1 DEF Try, Owned, Halfway, Restart, FirstStage
    <3>2. CASE status \notin Retried /\ op.kind = "tx_rx" /\ stage = "tx" /\ Try("rx")
      <4>1. status # "success" /\ status # "timeout" /\ status \in Statuses
        BY <1>1, <1>5, <3>2, Phased DEF Owned, Halfway, StageInv, ThreadTypes
      <4>2. status = "bad_arg"
        BY <3>2, <4>1 DEF Statuses, Retried
      <4>3. ~Polled /\ registered = 0
        BY <4>2, Phased DEF StageInv
      <4> QED  BY <1>1, <3>2, <4>3 DEF Try, Owned, Halfway, Polled
    <3>3. CASE pc' = "done"
      BY <3>3 DEF Owned, Halfway
    <3> QED  BY <1>1, <3>1, <3>2, <3>3
  <2>3. OwnedInv' /\ HandedInv' /\ FreeInv'
    BY <1>1, <1>5, <2>2, Phased, StaysElsewhere
  <2>4. DoneInv'
    <3>1. CASE pc' = "begin"
      BY <1>1, <3>1, Phased DEF DoneInv, core
    <3>2. CASE pc' = "done" /\ UNCHANGED <<stage, status, buffer>>
      BY <1>1, <1>5, <2>2, <3>2, Phased DEF DoneInv, core, Polled
    <3> QED  BY <1>1, <3>1, <3>2 DEF Try
  <2> QED  BY <1>3, <2>3, <2>4 DEF Phases
<1> QED  BY <1>4, <1>5

\* interrupt_transaction_status: the query, and the abort it ends with.
LEMMA QueryPhase ==
  ASSUME IndInv, late = 0, late' = 0, Query
  PROVE  Phases'
<1>1. /\ handler = "none" /\ pc = "ready" /\ stage' = "query"
      /\ UNCHANGED <<took, mishap, irq, handler, registered>>
      /\ \/ pc' = "done" /\ dev' = dev
         \/ pc' = "done" /\ dev' = [dev EXCEPT !.iser = {}]
         \/ pc' = "abort" /\ irq.busy # 0 /\ dev' = [dev EXCEPT !.iser = {}]
  BY DEF Query, Runs
<1>2. ~Owned /\ ~Owned'
  BY <1>1 DEF Owned, Halfway
<1>3. /\ dev'.en = dev.en /\ dev'.fsm = dev.fsm /\ dev'.tx = dev.tx /\ dev'.rx = dev.rx
      /\ dev'.cmd = dev.cmd /\ dev'.rw = dev.rw /\ dev'.sent = dev.sent
      /\ dev'.nack = dev.nack /\ dev'.arb = dev.arb
      /\ dev'.iser \in {{}, dev.iser} /\ (pc' = "abort" => dev'.iser = {})
  BY <1>1, Phased DEF Device
<1>4. HandedInv'
  <2>1. Broken => Broken'
    BY <1>1, <1>3 DEF Broken, Refused
  <2>2. ASSUME irq.call \in Calls, Sound(irq.call, irq.buffer)
        PROVE  /\ Sound(irq.call, irq.buffer)'
               /\ WrittenSoFar(irq.call)' = WrittenSoFar(irq.call)
    <3>1. ~Flagged(dev)'
      BY <1>3, <2>2 DEF Sound, Flagged
    <3>2. irq.buffer \in Seq(Int)
      BY Phased DEF Transactions
    <3> QED  BY <1>1, <1>3, <2>2, <3>1, <3>2, RegistersKeep
  <2>3. HandedInv
    BY Phased
  <2> QED  BY <1>1, <1>2, <1>3, <2>1, <2>2, <2>3 DEF HandedInv
<1>5. OwnedInv' /\ FreeInv'
  BY <1>1, <1>2, <1>3, Phased DEF OwnedInv, FreeInv
<1>6. DoneInv'
  BY <1>1, Phased DEF DoneInv
<1>7. registered' = 0 => irq' = NoIrq
  BY <1>1, Phased
<1> QED  BY <1>4, <1>5, <1>6, <1>7 DEF Phases

LEMMA AbortPhase ==
  ASSUME IndInv, late = 0, late' = 0, Abort
  PROVE  Phases'
<1> DEFINE d == [dev EXCEPT !.rx = <<>>]
<1>1. /\ handler = "none" /\ pc = "abort" /\ ~Busy /\ dev' = Disabled(d)
      /\ irq' = NoIrq /\ pc' = "done" /\ stage' = stage /\ handler' = handler
  BY DEF Abort, Runs, GivesUp
<1>2. ~Owned /\ ~Owned' /\ stage = "query"
  BY <1>1, Phased DEF Owned, Halfway, ThreadTypes
<1>3. dev.fsm \in {"idle", "pre_idle"} /\ dev.tx = <<>> /\ dev.iser = {}
  <2>1. CASE irq.busy = 0
    BY <1>2, <2>1, Phased DEF FreeInv
  <2>2. CASE irq.busy # 0
    BY <1>1, <2>2, Phased DEF HandedInv, Busy, LineInv
  <2> QED  BY <2>1, <2>2
<1>4. /\ d \in Device /\ d.fsm = dev.fsm /\ d.tx = <<>> /\ d.rx = <<>> /\ d.iser = {}
  BY <1>3, Phased, Nothings DEF Device
<1> HIDE DEF d
<1>5. /\ dev'.en = 0 /\ dev'.fsm = "idle" /\ dev'.tx = <<>> /\ dev'.rx = <<>> /\ dev'.iser = {}
  BY <1>1, <1>3, <1>4, DisabledIs
<1>6. irq'.busy = 0 /\ irq'.call = NoCall
  BY <1>1 DEF NoIrq
<1>7. OwnedInv' /\ HandedInv' /\ FreeInv'
  BY <1>1, <1>2, <1>5, <1>6 DEF OwnedInv, HandedInv, FreeInv
<1>8. DoneInv'
  BY <1>1, <1>2, <1>6 DEF DoneInv
<1> QED  BY <1>1, <1>7, <1>8 DEF Phases

\* The thread keeps the core.
LEMMA StaysOwned ==
  ASSUME IndInv, late = 0, Owned, Owned', UNCHANGED <<irq, handler, registered, op>>,
         dev'.en = dev.en, dev'.iser = dev.iser,
         (Broken' /\ Flagged(dev)') \/ (Sound(op, buffer)' /\ TodoInv'),
         (pc = "wait" /\ status # "success")' => Flagged(dev)'
  PROVE  Phases'
<1>1. /\ dev.en = 1 /\ dev.iser = {} /\ handler = "none" /\ irq = NoIrq
      /\ Polled \/ registered = 1
  BY Phased DEF OwnedInv
<1>2. Polled' = Polled
  BY DEF Polled
<1>3. OwnedInv'
  BY <1>1, <1>2 DEF OwnedInv
<1>4. irq'.busy = 0 /\ irq'.call = NoCall
  BY <1>1 DEF NoIrq
<1>5. HandedInv' /\ FreeInv' /\ DoneInv'
  BY <1>4 DEF HandedInv, FreeInv, DoneInv
<1>6. registered' = 0 => irq' = NoIrq
  BY Phased
<1> QED  BY <1>3, <1>5, <1>6 DEF Phases

\* A half begins: the core is free, or holds the bus since the other half.
LEMMA BeginPhase ==
  ASSUME IndInv, late = 0, late' = 0, Begin
  PROVE  Phases'
<1>1. /\ handler = "none" /\ pc = "begin"
      /\ UNCHANGED <<late, handler, registered, op, stage, buffer>>
  BY DEF Begin, Runs
<1>2. Staged /\ op \in Calls /\ todo = <<>> /\ buffer = <<>>
  BY <1>1, Phased DEF ThreadTypes, Staged, StageInv
<1>3. CASE /\ pc' = "end" /\ status' \in {"bad_arg", "busy"} /\ UNCHANGED <<core, irq, todo>>
           /\ ~Owned
  <2>1. ~Owned' /\ pc' # "abort"
    BY <1>3 DEF Owned, Halfway
  <2>2. OwnedInv' /\ HandedInv' /\ FreeInv'
    BY <1>1, <1>3, <2>1, Phased, StaysElsewhere
  <2>3. DoneInv'
    BY <1>3, Phased DEF DoneInv, core
  <2>4. registered' = 0 => irq' = NoIrq
    BY <1>1, <1>3, Phased
  <2> QED  BY <2>2, <2>3, <2>4 DEF Phases
<1>4. LET c == Commands(op, stage)
      IN  /\ c \in Seq(Commanded) /\ c # <<>>
          /\ StartOf(op, stage) + Len(c) = EndOf(op, stage)
          /\ \A i \in 1 .. Len(c) : c[i] = CommandAt(op, StartOf(op, stage) + i)
  BY <1>2, CommandsAre DEF Staged
<1>5. ASSUME todo' = Commands(op, stage), pc' = "write",
             WrittenSoFar(op)' = StartOf(op, stage)
      PROVE  TodoInv'
  <2>1. op' = op /\ stage' = stage
    BY <1>1
  <2>2. Len(todo') \in Nat /\ StartOf(op, stage) \in Nat
    BY <1>2, <1>4, <1>5, CallIs, LenProperties DEF StartOf
  <2>3. WrittenSoFar(op)' + Len(todo') - 0 = EndOf(op, stage)
    BY <1>4, <1>5, <2>2
  <2>4. \A i \in 1 + 0 .. Len(todo') : todo'[i] = CommandAt(op, WrittenSoFar(op)' + i - 0)
    <3>1. \A i \in 1 .. Len(todo') : StartOf(op, stage) + i - 0 = StartOf(op, stage) + i
      BY <2>2
    <3> QED  BY <1>4, <1>5, <3>1
  <2> QED  BY <1>5, <2>1, <2>3, <2>4 DEF TodoInv, Ahead
<1>6. CASE /\ Restart(op, stage) /\ (Polled \/ registered = 1)
           /\ todo' = Commands(op, stage) /\ pc' = "write" /\ UNCHANGED <<core, irq, status>>
  <2>1. Owned /\ Owned'
    BY <1>1, <1>6 DEF Owned
  <2>2. dev' = dev /\ took' = took /\ mishap' = mishap /\ buffer' = buffer /\ op' = op
    BY <1>1, <1>6 DEF core
  <2>3. /\ Broken' = Broken /\ Flagged(dev)' = Flagged(dev)
        /\ Sound(op, buffer) => Sound(op, buffer)'
        /\ WrittenSoFar(op)' = WrittenSoFar(op)
    <3>1. Broken' = Broken /\ Flagged(dev)' = Flagged(dev)
      BY <2>2 DEF Broken, Refused
    <3> QED  BY <1>2, <2>2, <3>1, RegistersKeep, Nothings DEF Sound
  <2>4. TodoInv => WrittenSoFar(op) = StartOf(op, stage)
    <3>1. stage = "rx" /\ StartOf(op, stage) = LenTx(op)
      BY <1>6 DEF Restart, StartOf
    <3>2. WrittenSoFar(op) \in Nat
      BY <1>2, Phased, Numbers DEF WrittenSoFar
    <3> QED  BY <1>1, <1>2, <3>1, <3>2, Nothings DEF TodoInv, Ahead
  <2>5. TodoInv => TodoInv'
    BY <1>5, <1>6, <2>3, <2>4
  <2>6. (Broken /\ Flagged(dev)) \/ (Sound(op, buffer) /\ TodoInv)
    BY <2>1, Phased DEF OwnedInv
  <2> QED  BY <1>1, <1>6, <2>1, <2>2, <2>3, <2>5, <2>6, StaysOwned
<1>7. CASE /\ ~Restart(op, stage) /\ dev.en # 1 /\ (Polled \/ registered = 1)
           /\ dev' = Cleared(Enabled(dev)) /\ took' = <<>> /\ mishap' = "none"
           /\ irq' = NoIrq /\ todo' = Commands(op, stage) /\ pc' = "write"
  <2>1. ~Owned /\ Owned'
    BY <1>1, <1>7 DEF Owned, Halfway
  <2>2. /\ irq.busy = 0 /\ dev.fsm = "idle" /\ dev.tx = <<>> /\ dev.rx = <<>>
        /\ dev.iser = {} /\ dev.sent = 0
    BY <1>7, <2>1, Phased DEF HandedInv, FreeInv, LineInv
  <2>3. /\ dev'.en = 1 /\ dev'.tx = <<>> /\ dev'.rx = <<>> /\ dev'.iser = {}
        /\ dev'.sent = 0 /\ dev'.fsm = "pre_start" /\ ~Flagged(dev)'
    BY <1>7, <2>2, Phased, EnabledIs
  <2>4. /\ LenTx(op) \in Nat /\ LenAll(op) \in Nat /\ Acks(op) \in Nat
        /\ StartOf(op, stage) = 0
    <3>1. stage = "rx" => op.kind = "rx"
      BY <1>2, <1>7, CallIs DEF Restart, Staged
    <3> QED  BY <1>2, <3>1, CallIs, Phased, Numbers DEF StartOf, Staged
  <2>5. Fetched(op)' = 0 /\ WrittenSoFar(op)' = 0 /\ Received(op)' = 0
    BY <1>7, <2>3, Nothings DEF Fetched, WrittenSoFar, Received, Stopped, InFlight
  <2>6. Position(op)'
    BY <1>1, <1>7, <2>3, <2>4, <2>5, Nothings DEF Position
  <2>7. Playing(op)'
    BY <1>7, <2>3, <2>6, Nothings DEF Playing, InFlight
  <2>8. Receiving(op, buffer)'
    BY <1>1, <1>2, <2>3, <2>5, Nothings DEF Receiving
  <2>9. Sound(op, buffer)' /\ TodoInv'
    BY <1>5, <1>7, <2>3, <2>4, <2>5, <2>7, <2>8 DEF Sound, Refused
  <2>10. OwnedInv'
    BY <1>1, <1>7, <2>3, <2>9 DEF OwnedInv, Polled
  <2>11. irq'.busy = 0 /\ irq'.call = NoCall
    BY <1>7 DEF NoIrq
  <2>12. HandedInv' /\ FreeInv' /\ DoneInv'
    BY <2>1, <2>11 DEF HandedInv, FreeInv, DoneInv
  <2> QED  BY <1>7, <2>10, <2>12 DEF Phases
<1>8. (Restart(op, stage) /\ (Polled \/ registered = 1)) \/ ~Owned
  BY <1>1 DEF Owned, Halfway
<1>9. CASE ~Polled /\ registered = 0
  <2>1. ~Owned
    BY <1>1, <1>9 DEF Owned, Halfway
  <2>2. pc' = "end" /\ status' = "bad_arg" /\ UNCHANGED <<core, irq, todo>>
    BY <1>9 DEF Begin, Ends
  <2> QED  BY <1>3, <2>1, <2>2
<1>10. CASE Polled \/ registered = 1
  <2>1. CASE Restart(op, stage)
    <3>1. todo' = Commands(op, stage) /\ pc' = "write" /\ UNCHANGED <<core, irq, status>>
      BY <1>10, <2>1 DEF Begin
    <3> QED  BY <1>6, <1>10, <2>1, <3>1
  <2>2. CASE ~Restart(op, stage) /\ dev.en = 1
    <3>1. pc' = "end" /\ status' = "busy" /\ UNCHANGED <<core, irq, todo>>
      BY <1>10, <2>2 DEF Begin, Enable, Ends
    <3> QED  BY <1>3, <1>8, <2>2, <3>1
  <2>3. CASE ~Restart(op, stage) /\ dev.en # 1
    <3>1. /\ dev' = Cleared(Enabled(dev)) /\ took' = <<>> /\ mishap' = "none"
          /\ irq' = NoIrq /\ todo' = Commands(op, stage) /\ pc' = "write"
      BY <1>10, <2>3 DEF Begin, Enable
    <3> QED  BY <1>7, <1>10, <2>3, <3>1
  <2> QED  BY <2>1, <2>2, <2>3
<1> QED
  <2>1. Polled \/ registered = 1 \/ (~Polled /\ registered = 0)
    BY Phased DEF Types, HandlerTypes, Bits
  <2> QED  BY <1>9, <1>10, <2>1

\* The next command goes into the transmit FIFO.
LEMMA WritePhase ==
  ASSUME IndInv, late = 0, late' = 0, CmdWrite
  PROVE  Phases'
<1>1. /\ handler = "none" /\ pc = "write" /\ TxReady
      /\ dev' = Pushed(dev, Head(todo)) /\ pc' = "check"
      /\ UNCHANGED <<took, mishap, late, status, irq, handler, registered, op, stage, todo, buffer>>
  BY DEF CmdWrite, Runs, GivesUp
<1>2. Owned /\ Owned'
  BY <1>1 DEF Owned
<1>3. op \in Calls /\ Staged /\ todo # <<>> /\ buffer \in Seq(Int)
  BY <1>1, <1>2, Phased, OwnedCall DEF ThreadTypes
<1>4. /\ Head(todo) = todo[1] /\ Head(todo) \in Commanded /\ Len(todo) \in Nat \ {0}
  BY <1>3, Phased, OutOfFifo
<1>5. /\ dev'.en = dev.en /\ dev'.iser = dev.iser
      /\ dev'.nack = dev.nack /\ dev'.arb = dev.arb
      /\ dev'.rx = dev.rx /\ dev'.cmd = dev.cmd
      /\ dev'.rw = dev.rw /\ dev'.sent = dev.sent
      /\ Flagged(dev) => dev' = dev
      /\ ~Flagged(dev) => dev'.tx = Append(dev.tx, Head(todo))
      /\ ~Flagged(dev) /\ dev.fsm # "pre_idle" => dev'.fsm = dev.fsm
  BY <1>1, <1>4, Phased, PushedIs
<1>6. (Broken /\ Flagged(dev)) \/ (Sound(op, buffer) /\ TodoInv)
  BY <1>2, Phased DEF OwnedInv
<1>7. Broken /\ Flagged(dev) => Broken' /\ Flagged(dev)'
  BY <1>1, <1>5 DEF Broken, Refused
<1>8. ASSUME Sound(op, buffer), TodoInv
      PROVE  Sound(op, buffer)' /\ TodoInv'
  <2> DEFINE w == WrittenSoFar(op)
             e == EndOf(op, stage)
             f == Fetched(op)
             l == LenAll(op)
  <2>1. /\ w \in Nat /\ f \in Nat /\ w = f + Len(dev.tx) /\ Len(dev.tx) \in Nat
        /\ e \in Nat /\ l \in Nat /\ e <= l /\ w + Len(todo) = e
        /\ \A i \in 1 .. Len(todo) : todo[i] = CommandAt(op, w + i)
    <3>1. f \in Nat /\ Len(dev.tx) \in Nat /\ w = f + Len(dev.tx)
      BY <1>3, Phased, Numbers DEF WrittenSoFar
    <3>2. e \in Nat /\ l \in Nat /\ e <= l
      <4>1. LenTx(op) \in Nat /\ LenRx(op) \in Nat /\ l = LenTx(op) + LenRx(op)
        BY <1>3, CallIs
      <4> HIDE DEF l
      <4> QED  BY <1>3, <4>1 DEF EndOf, l
    <3>3. w + Len(todo) - 0 = e /\ \A i \in 1 + 0 .. Len(todo) : todo[i] = CommandAt(op, w + i - 0)
      BY <1>1, <1>8 DEF TodoInv, Ahead
    <3>4. w \in Nat /\ \A i \in 1 .. Len(todo) : w + i - 0 = w + i
      <4> HIDE DEF w, f
      <4> QED  BY <3>1
    <3> HIDE DEF w, e, f, l
    <3> QED  BY <1>4, <3>1, <3>2, <3>3, <3>4
  <2>2. ~Flagged(dev)
    BY <1>8 DEF Sound
  <2>3. ~Stopped
    <3>1. Stopped => f = l
      BY DEF Fetched
    <3> HIDE DEF w, e, f, l
    <3> QED  BY <1>4, <2>1, <3>1
  <2>4. dev'.fsm = dev.fsm /\ dev'.tx = Append(dev.tx, Head(todo))
    BY <1>5, <2>2, <2>3 DEF Stopped
  <2>5. /\ Len(dev'.tx) = Len(dev.tx) + 1 /\ dev'.tx[Len(dev.tx) + 1] = Head(todo)
        /\ \A i \in 1 .. Len(dev.tx) : dev'.tx[i] = dev.tx[i]
    BY <1>4, <2>4, Phased, IntoFifo DEF Device
  <2>6. Fetched(op)' = f /\ Received(op)' = Received(op)
    BY <1>1, <1>5, <2>4 DEF Fetched, Stopped, InFlight, Received
  <2>7. WrittenSoFar(op)' = w + 1 /\ w + 1 <= l
    <3>1. WrittenSoFar(op)' = f + Len(dev'.tx)
      BY <1>1, <2>6 DEF WrittenSoFar
    <3> HIDE DEF w, e, f, l
    <3> QED  BY <1>4, <2>1, <2>5, <3>1
  <2>8. Position(op)'
    <3>1. dev'.fsm = dev.fsm /\ took' = took /\ dev'.sent = dev.sent /\ dev'.rw = dev.rw /\ op' = op
      BY <1>1, <1>5, <2>4
    <3>2. Fetched(op)' = Fetched(op) /\ WrittenSoFar(op)' <= LenAll(op)
      BY <2>6, <2>7
    <3> QED  BY <1>8, <3>1, <3>2 DEF Sound, Playing, Position
  <2>9. ASSUME NEW i \in 1 .. Len(dev'.tx) PROVE dev'.tx[i] = CommandAt(op, f + i)
    <3>1. CASE i \in 1 .. Len(dev.tx)
      BY <1>8, <2>5, <3>1 DEF Sound, Playing
    <3>2. CASE i = Len(dev.tx) + 1
      <4>1. todo[1] = CommandAt(op, w + 1) /\ w + 1 = f + i
        <5>1. 1 \in 1 .. Len(todo)
          BY <1>4
        <5> HIDE DEF w, e, f, l
        <5> QED  BY <2>1, <3>2, <5>1
      <4> QED  BY <1>4, <2>5, <3>2, <4>1
    <3>3. i \in 1 .. Len(dev.tx) \/ i = Len(dev.tx) + 1
      BY <2>1, <2>5
    <3> QED  BY <3>1, <3>2, <3>3
  <2>10. Playing(op)'
    BY <1>1, <1>5, <1>8, <2>4, <2>6, <2>8, <2>9 DEF Sound, Playing, InFlight
  <2>11. Receiving(op, buffer)'
    BY <1>1, <1>5, <1>8, <2>6 DEF Sound, Receiving
  <2>12. Sound(op, buffer)'
    BY <1>1, <1>5, <1>8, <2>10, <2>11 DEF Sound, Refused, Flagged
  <2>13. TodoInv'
    <3>1. op' = op /\ stage' = stage /\ todo' = todo /\ pc' = "check" /\ EndOf(op, stage)' = e
      BY <1>1
    <3>2. (w + 1) + Len(todo) - 1 = e
      <4>1. w \in Nat /\ Len(todo) \in Nat /\ w + Len(todo) = e
        BY <1>4, <2>1
      <4>2. \A m, n \in Nat : (m + 1) + n - 1 = m + n
        OBVIOUS
      <4> HIDE DEF w, e
      <4> QED  BY <4>1, <4>2
    <3>3. ASSUME NEW i \in 1 + 1 .. Len(todo) PROVE todo[i] = CommandAt(op, (w + 1) + i - 1)
      <4>1. i \in 1 .. Len(todo) /\ (w + 1) + i - 1 = w + i
        <5> HIDE DEF w, e, f, l
        <5> QED  BY <1>4, <2>1
      <4> QED  BY <2>1, <4>1
    <3>4. WrittenSoFar(op)' = w + 1
      BY <2>7
    <3> HIDE DEF w, e, f, l
    <3> QED  BY <3>1, <3>2, <3>3, <3>4 DEF TodoInv, Ahead, e
  <2> QED  BY <2>12, <2>13
<1> QED  BY <1>1, <1>2, <1>5, <1>6, <1>7, <1>8, StaysOwned

\* A step of the thread that leaves the core alone.
LEMMA CoreIsLeft ==
  ASSUME IndInv, late = 0, Owned, UNCHANGED <<dev, took, mishap, op, buffer>>
  PROVE  /\ (Broken /\ Flagged(dev)) \/ (Sound(op, buffer) /\ TodoInv)
         /\ Broken' = Broken /\ Flagged(dev)' = Flagged(dev)
         /\ Sound(op, buffer) => Sound(op, buffer)'
         /\ WrittenSoFar(op)' = WrittenSoFar(op)
<1>1. op \in Calls /\ buffer \in Seq(Int)
  BY OwnedCall, Phased
<1>2. Broken' = Broken /\ Flagged(dev)' = Flagged(dev)
  BY DEF Broken, Refused
<1>3. (Broken /\ Flagged(dev)) \/ (Sound(op, buffer) /\ TodoInv)
  BY Phased DEF OwnedInv
<1> QED  BY <1>1, <1>2, <1>3, RegistersKeep DEF Sound

\* The flags are looked at after a command was written.
LEMMA CheckPhase ==
  ASSUME IndInv, late = 0, late' = 0, Check
  PROVE  Phases'
<1>1. /\ handler = "none" /\ pc = "check" /\ todo' = Tail(todo)
      /\ UNCHANGED <<core, late, irq, handler, registered, op, stage, buffer>>
      /\ status' = IF dev.arb = 1 THEN "arb_lost" ELSE IF dev.nack = 1 THEN "nack" ELSE "success"
      /\ pc' = IF status' # "success" THEN "wait"
               ELSE IF todo' = <<>> THEN Written
               ELSE IF Polled /\ Head(todo).val = 0 THEN "drain" ELSE "write"
  BY DEF Check, Runs
<1>2. Owned
  BY <1>1 DEF Owned
<1>3. op \in Calls /\ Staged /\ todo # <<>>
  BY <1>1, <1>2, Phased, OwnedCall DEF ThreadTypes
<1>4. /\ pc' \in {"wait", "read", "end", "arm", "drain", "write"}
      /\ pc' = "end" => stage = "tx" /\ op.kind = "tx_rx" /\ status' = "success"
      /\ status' # "success" <=> Flagged(dev)
  BY <1>1 DEF Written, Stop, Flagged
<1>5. Owned'
  BY <1>1, <1>4 DEF Owned, Halfway
<1>6. UNCHANGED <<dev, took, mishap, op, buffer>>
  BY <1>1 DEF core
<1>7. /\ (Broken /\ Flagged(dev)) \/ (Sound(op, buffer) /\ TodoInv)
      /\ Broken' = Broken /\ Flagged(dev)' = Flagged(dev)
      /\ Sound(op, buffer) => Sound(op, buffer)'
      /\ WrittenSoFar(op)' = WrittenSoFar(op)
  BY <1>2, <1>6, CoreIsLeft
<1>8. TodoInv => TodoInv'
  <2> SUFFICES ASSUME TodoInv PROVE TodoInv'
    OBVIOUS
  <2> DEFINE w == WrittenSoFar(op)
             e == EndOf(op, stage)
  <2>1. /\ Len(todo) \in Nat \ {0} /\ Len(todo') = Len(todo) - 1
        /\ \A i \in 1 .. Len(todo) - 1 : todo'[i] = todo[i + 1]
    BY <1>1, <1>3, Phased, OutOfFifo
  <2>2. /\ w + Len(todo) - 1 = e
        /\ \A i \in 1 + 1 .. Len(todo) : todo[i] = CommandAt(op, w + i - 1)
    BY <1>1 DEF TodoInv, Ahead
  <2>3. w \in Nat
    BY <1>3, Phased, Numbers DEF WrittenSoFar
  <2>4. w + Len(todo') - 0 = e
    <3>1. e = w + Len(todo) - 1
      BY <2>2
    <3> HIDE DEF w, e
    <3> QED  BY <2>1, <2>3, <3>1
  <2>5. ASSUME NEW i \in 1 + 0 .. Len(todo') PROVE todo'[i] = CommandAt(op, w + i - 0)
    <3>1. i + 1 \in 1 + 1 .. Len(todo) /\ i \in 1 .. Len(todo) - 1 /\ w + (i + 1) - 1 = w + i - 0
      <4> HIDE DEF w, e
      <4> QED  BY <2>1, <2>3
    <3> QED  BY <2>1, <2>2, <3>1
  <2>6. op' = op /\ stage' = stage /\ pc' # "check" /\ pc' # "begin" /\ WrittenSoFar(op)' = w
    BY <1>1, <1>4, <1>7
  <2> HIDE DEF w
  <2> QED  BY <2>4, <2>5, <2>6 DEF TodoInv, Ahead
<1>9. (pc = "wait" /\ status # "success")' => Flagged(dev)'
  BY <1>4, <1>7
<1> QED  BY <1>1, <1>2, <1>5, <1>6, <1>7, <1>8, <1>9, StaysOwned

\* A byte is read, while the commands are written or after.
LEMMA ReadPhase ==
  ASSUME IndInv, late = 0, late' = 0, Drain \/ RxRead
  PROVE  Phases'
<1>1. /\ handler = "none" /\ pc \in {"drain", "read"} /\ pc' \in {"drain", "write", "read", "wait"}
      /\ UNCHANGED <<took, mishap, late, irq, handler, registered, op, stage, todo, status>>
      /\ \/ dev' = dev /\ buffer' = buffer
         \/ /\ dev.rx # <<>> /\ buffer' = Append(buffer, Head(dev.rx))
            /\ dev' = [dev EXCEPT !.rx = Tail(@)]
  BY DEF Drain, RxRead, Runs, GivesUp
<1>2. Owned /\ Owned' /\ status' = "success"
  BY <1>1, Phased DEF Owned, StageInv
<1>3. op \in Calls /\ buffer \in Seq(Int)
  BY <1>2, OwnedCall, Phased
<1>4. WrittenSoFar(op)' = WrittenSoFar(op) => (TodoInv => TodoInv')
  BY <1>1 DEF TodoInv, Ahead
<1>5. CASE dev' = dev /\ buffer' = buffer
  <2>1. /\ (Broken /\ Flagged(dev)) \/ (Sound(op, buffer) /\ TodoInv)
        /\ Broken' = Broken /\ Flagged(dev)' = Flagged(dev)
        /\ Sound(op, buffer) => Sound(op, buffer)'
        /\ WrittenSoFar(op)' = WrittenSoFar(op)
    BY <1>1, <1>2, <1>5, CoreIsLeft
  <2> QED  BY <1>1, <1>2, <1>4, <1>5, <2>1, StaysOwned
<1>6. CASE /\ dev.rx # <<>> /\ buffer' = Append(buffer, Head(dev.rx))
           /\ dev' = [dev EXCEPT !.rx = Tail(@)]
  <2>1. Sound(op, buffer) /\ TodoInv
    BY <1>2, <1>6, Phased DEF OwnedInv, Broken
  <2>2. Sound(op, buffer)' /\ WrittenSoFar(op)' = WrittenSoFar(op)
    <3>1. PICK c : c = buffer'
      OBVIOUS
    <3>2. Sound(op, c)' /\ WrittenSoFar(op)' = WrittenSoFar(op)
      <4>1. op' = op
        BY <1>1
      <4> QED  BY <1>1, <1>3, <1>6, <2>1, <3>1, <4>1, Phased, ByteMoves
    <3> QED  BY <3>1, <3>2
  <2>3. dev'.en = dev.en /\ dev'.iser = dev.iser
    BY <1>6, Phased DEF Device
  <2> QED  BY <1>1, <1>2, <1>4, <2>1, <2>2, <2>3, StaysOwned
<1> QED  BY <1>1, <1>5, <1>6

\* The wait for the idle core, and the core turned off.
LEMMA WaitPhase ==
  ASSUME IndInv, late = 0, late' = 0, WaitIdle
  PROVE  Phases'
<1>1. /\ handler = "none" /\ pc = "wait" /\ ~Busy /\ pc' = "end" /\ todo' = <<>>
      /\ status' = IF Polled /\ dev.nack = 1 THEN "nack" ELSE status
      /\ dev' = Disabled(dev)
      /\ UNCHANGED <<took, mishap, irq, handler, registered, op, stage, buffer>>
  BY DEF WaitIdle, Runs, GivesUp
<1>2. Owned
  BY <1>1 DEF Owned
<1>3. op \in Calls /\ Staged /\ buffer \in Seq(Int) /\ Polled' = Polled
  BY <1>1, <1>2, OwnedCall, Phased DEF Polled
<1>4. /\ dev.en = 1 /\ dev.iser = {} /\ handler = "none" /\ irq = NoIrq
      /\ (Broken /\ Flagged(dev)) \/ (Sound(op, buffer) /\ TodoInv)
      /\ status # "success" => Flagged(dev)
  BY <1>1, <1>2, Phased DEF OwnedInv
<1>5. /\ Stopped /\ dev'.en = 0 /\ dev'.fsm = "idle" /\ dev'.tx = <<>> /\ dev'.rx = dev.rx
      /\ dev'.iser = {} /\ dev'.nack = dev.nack /\ dev'.arb = dev.arb
  BY <1>1, <1>4, Phased, OffIsFree
<1>6. status = "success" => Polled /\ Stop(op, stage) /\ Len(buffer) >= op.m
  <2> SUFFICES ASSUME status = "success"
               PROVE  Polled /\ Stop(op, stage) /\ Len(buffer) >= op.m
    OBVIOUS
  <2>1. /\ Polled /\ Stop(op, stage)
        /\ stage = "rx" => Len(buffer) >= op.m
    BY <1>1, Phased DEF StageInv
  <2>2. stage # "rx" => op.kind = "tx"
    BY <1>3, <2>1, CallIs DEF Staged, Stop
  <2>3. op.kind = "tx" => Len(buffer) >= op.m
    BY <1>3, CallIs, LenProperties
  <2> QED  BY <2>1, <2>2, <2>3
<1>7. Sound(op, buffer) =>
        took = Played(op) /\ buffer = UpTo(op.m) /\ dev.rx = <<>>
  <2> SUFFICES ASSUME Sound(op, buffer)
               PROVE  took = Played(op) /\ buffer = UpTo(op.m) /\ dev.rx = <<>>
    OBVIOUS
  <2>1. status = "success"
    BY <1>4 DEF Sound
  <2> QED  BY <1>3, <1>5, <1>6, <2>1, Phased, SoundAndStopped
<1>8. ~Owned'
  <2>1. status' = "success" => status = "success"
    BY <1>1
  <2>2. stage' = stage /\ op' = op /\ pc' = "end"
    BY <1>1
  <2> QED  BY <1>6, <2>1, <2>2 DEF Owned, Halfway, Stop
<1>9. irq'.busy = 0 /\ irq'.call = NoCall
  BY <1>1, <1>4 DEF NoIrq
<1>10. OwnedInv' /\ HandedInv' /\ FreeInv'
  <2>1. dev.rx = <<>>
    BY <1>4, <1>7 DEF Broken
  <2> QED  BY <1>1, <1>5, <1>8, <1>9, <2>1 DEF OwnedInv, HandedInv, FreeInv
<1>11. DoneInv'
  <2>1. ASSUME Polled, status' = "success", dev'.arb = 0
        PROVE  took' = Played(op') /\ buffer' = UpTo(op'.m)
    <3>1. dev.nack # 1 /\ dev.arb # 1
      BY <1>1, <1>5, <2>1
    <3>2. Sound(op, buffer)
      BY <1>4, <3>1 DEF Flagged
    <3> QED  BY <1>1, <1>7, <3>2
  <2> QED  BY <1>3, <1>9, <2>1 DEF DoneInv
<1>12. registered' = 0 => irq' = NoIrq
  BY <1>1, <1>4
<1> QED  BY <1>10, <1>11, <1>12 DEF Phases

\* The thread hands the transaction over to the handler.
LEMMA ArmPhase ==
  ASSUME IndInv, late = 0, late' = 0, Arm
  PROVE  Phases'
<1>1. /\ handler = "none" /\ pc = "arm" /\ pc' = "end"
      /\ IF stage = "tx"
           THEN dev' = [Cleared(dev) EXCEPT !.txthd = "empty", !.iser = @ \cup {"tx_ready"}]
           ELSE dev' = [Cleared(dev) EXCEPT !.rxthd = "one", !.iser = @ \cup {"rx_ready"}]
      /\ irq' = [busy |-> IF stage = "tx" THEN 1 ELSE 2, call |-> op,
                 size |-> IF stage = "tx" THEN irq.size ELSE op.m,
                 buffer |-> IF stage = "tx" THEN irq.buffer ELSE <<>>]
      /\ UNCHANGED <<took, mishap, late, handler, registered, op, stage, todo, status, buffer>>
  BY DEF Arm, Runs
<1>2. Owned
  BY <1>1 DEF Owned
<1>3. /\ op \in Calls /\ Staged /\ ~Polled /\ Stop(op, stage) /\ todo = <<>> /\ buffer = <<>>
  BY <1>1, <1>2, OwnedCall, Phased DEF StageInv, Staged
<1>4. /\ dev.en = 1 /\ irq = NoIrq /\ registered = 1
      /\ (Broken /\ Flagged(dev)) \/ (Sound(op, buffer) /\ TodoInv)
  BY <1>2, <1>3, Phased DEF OwnedInv
<1>5. stage = "tx" <=> op.kind = "tx"
  BY <1>3, CallIs DEF Staged, Stop
<1>6. /\ irq'.busy = (IF op.kind = "tx" THEN 1 ELSE 2) /\ irq'.call = op
      /\ irq'.buffer = <<>>
      /\ op.kind # "tx" => irq'.size = op.m
  BY <1>1, <1>4, <1>5 DEF NoIrq
<1>7. /\ dev'.fsm = dev.fsm /\ dev'.tx = dev.tx /\ dev'.rx = dev.rx /\ dev'.cmd = dev.cmd
      /\ dev'.rw = dev.rw /\ dev'.sent = dev.sent /\ dev'.en = 1
      /\ dev'.nack = 0 /\ dev'.arb = 0
  <2>1. /\ Cleared(dev) \in Device
        /\ Cleared(dev).fsm = dev.fsm /\ Cleared(dev).tx = dev.tx /\ Cleared(dev).rx = dev.rx
        /\ Cleared(dev).cmd = dev.cmd /\ Cleared(dev).rw = dev.rw
        /\ Cleared(dev).sent = dev.sent /\ Cleared(dev).en = 1
        /\ Cleared(dev).nack = 0 /\ Cleared(dev).arb = 0
    BY <1>4, Phased, ClearedIs
  <2>2. CASE stage = "tx"
    BY <1>1, <2>1, <2>2 DEF Device
  <2>3. CASE stage # "tx"
    BY <1>1, <2>1, <2>3 DEF Device
  <2> QED  BY <2>2, <2>3
<1>8. Broken' \/ (Sound(irq.call, irq.buffer)' /\ WrittenSoFar(irq.call)' = LenAll(irq.call)')
  <2>1. ~Flagged(dev)'
    BY <1>7 DEF Flagged
  <2>2. /\ Broken => Broken'
        /\ Sound(op, <<>>) => Sound(op, <<>>)'
        /\ WrittenSoFar(op)' = WrittenSoFar(op)
    <3>1. op' = op /\ <<>> \in Seq(Int)
      BY <1>1, Nothings
    <3> QED  BY <1>1, <1>3, <1>7, <2>1, <3>1, RegistersKeep
  <2>3. TodoInv => WrittenSoFar(op) = LenAll(op)
    <3>1. WrittenSoFar(op) \in Nat
      BY <1>3, Phased, Numbers DEF WrittenSoFar
    <3>2. EndOf(op, stage) = LenAll(op)
      <4>1. CASE op.kind = "tx"
        <5>1. LenRx(op) = 0 /\ LenTx(op) \in Nat /\ LenAll(op) = LenTx(op) + LenRx(op)
          BY <1>3, <4>1, CallIs
        <5> QED  BY <1>5, <4>1, <5>1 DEF EndOf
      <4>2. CASE op.kind # "tx"
        BY <1>5, <4>2 DEF EndOf
      <4> QED  BY <4>1, <4>2
    <3> QED  BY <1>1, <1>3, <3>1, <3>2, Nothings DEF TodoInv, Ahead
  <2>4. Broken' \/ (Sound(op, <<>>)' /\ WrittenSoFar(op)' = LenAll(op))
    BY <1>3, <1>4, <2>2, <2>3
  <2>5. irq'.call = op /\ irq'.buffer = <<>> /\ op' = op
    BY <1>1, <1>6
  <2> QED  BY <2>4, <2>5
<1>9. ~Owned'
  BY <1>1, <1>3 DEF Owned, Halfway, Stop
<1>10. HandedInv'
  <2>1. irq'.busy = 2 => irq'.size + Len(irq'.buffer) = irq'.call.m
    BY <1>3, <1>6, Nothings, CallIs
  <2> QED  BY <1>1, <1>3, <1>4, <1>6, <1>7, <1>8, <1>9, <2>1 DEF HandedInv
<1>11. irq'.busy # 0 /\ ~Polled' /\ registered' = 1
  BY <1>1, <1>3, <1>4, <1>6 DEF Polled
<1> QED  BY <1>9, <1>10, <1>11 DEF Phases, OwnedInv, FreeInv, DoneInv

\* The steps of the thread together.
LEMMA ThreadPhase ==
  ASSUME IndInv, Thread
  PROVE  PhaseInv'
<1> SUFFICES ASSUME late' = 0 PROVE Phases'
  BY DEF PhaseInv
<1>1. late = 0
  BY DEF Thread, RegisterHandler, Call, Begin, CmdWrite, Check, Drain, RxRead, WaitIdle, Arm,
         Wrapper, Return, Query, Abort, GivesUp
<1> QED
  BY <1>1, CallPhase, BeginPhase, WritePhase, CheckPhase, ReadPhase, WaitPhase, ArmPhase,
     WrapperPhase, QueryPhase, AbortPhase DEF Thread

-----------------------------------------------------------------------------
(* The invariant is inductive, and gives the properties.                   *)
LEMMA InitInd == Init => IndInv
<1> SUFFICES ASSUME Init PROVE IndInv
  OBVIOUS
<1>1. Types
  BY InitTypes
<1>2. StageInv /\ LineInv /\ OffInv
  BY Nothings DEF Init, StageInv, LineInv, OffInv
<1>3. irq = NoIrq /\ irq.busy = 0 /\ irq.call = NoCall /\ pc = "ready"
  BY DEF Init, NoIrq
<1>4. ~Owned
  BY <1>3 DEF Owned, Halfway
<1>5. Phases
  BY <1>3, <1>4 DEF Init, Phases, OwnedInv, HandedInv, FreeInv, DoneInv
<1> QED  BY <1>1, <1>2, <1>5 DEF IndInv, PhaseInv

LEMMA IndStep ==
  ASSUME IndInv, [Next]_vars
  PROVE  IndInv'
<1>1. Types' /\ StageInv' /\ LineInv' /\ OffInv'
  BY TypeStep, StageStep, LineStep, OffStep DEF IndInv
<1>2. PhaseInv'
  <2>1. CASE UNCHANGED vars
    <3>1. Sound(op, buffer)' = Sound(op, buffer) /\ WrittenSoFar(op)' = WrittenSoFar(op)
          /\ Sound(irq.call, irq.buffer)' = Sound(irq.call, irq.buffer)
          /\ WrittenSoFar(irq.call)' = WrittenSoFar(irq.call) /\ Broken' = Broken
      BY <2>1 DEF vars, core, thread, Sound, Refused, Flagged, Playing, Position, Receiving,
                  Received, Fetched, WrittenSoFar, Stopped, InFlight, Broken
    <3>2. Owned' = Owned /\ Polled' = Polled /\ Flagged(dev)' = Flagged(dev)
      BY <2>1 DEF vars, core, thread, Owned, Halfway, Polled
    <3>3. TodoInv' = TodoInv
      BY <2>1, <3>1 DEF vars, core, thread, TodoInv, Ahead
    <3> QED
      BY <2>1, <3>1, <3>2, <3>3 DEF IndInv, PhaseInv, Phases, vars, core, thread, OwnedInv,
         HandedInv, FreeInv, DoneInv
  <2> QED  BY <2>1, CorePhase, HandlerPhase, ThreadPhase DEF Next
<1> QED  BY <1>1, <1>2 DEF IndInv

(* A polled call that returns ALT_AVALON_I2C_SUCCESS was acknowledged byte *)
(* for byte, address included, and stored what the target sent, in order   *)
(* and no more, for transfers of any length through FIFOs of any depth     *)
(* (alt_avalon_i2c_master_transmit, _receive, _tx_rx).                     *)
THEOREM SuccessIsWhole == Spec => []SuccessIsDone
<1>1. IndInv => SuccessIsDone
  BY DEF IndInv, PhaseInv, Phases, DoneInv, SuccessIsDone, Owned, Halfway
<1> QED  BY <1>1, InitInd, IndStep, PTL DEF Spec

(* However a polled call ends, it leaves the core disabled, and as long as *)
(* no wait has given up also idle with both FIFOs empty: nothing of it     *)
(* reaches the next call.                                                  *)
THEOREM NothingIsLeft == Spec => []LeavesNothing
<1>1. IndInv => LeavesNothing
  <2> SUFFICES ASSUME IndInv, pc = "done", Polled, stage # "query", status # "busy"
               PROVE  /\ dev.en = 0
                      /\ late = 0 => dev.fsm = "idle" /\ dev.tx = <<>> /\ dev.rx = <<>>
    BY DEF LeavesNothing
  <2>1. dev.en = 0 /\ ~Owned
    BY DEF IndInv, OffInv, Halfway, Owned
  <2> QED  BY <2>1 DEF IndInv, PhaseInv, Phases, HandedInv, FreeInv
<1> QED  BY <1>1, InitInd, IndStep, PTL DEF Spec

(* A transaction handed over to the interrupt handler that ends without a  *)
(* refusal or a lost bus is whole: the handler loses and doubles no byte   *)
(* between the interrupts it takes (optional_irq_callback).                *)
THEOREM HandedOverIsWhole == Spec => []HandedOverIsDone
<1>1. IndInv => HandedOverIsDone
  BY DEF IndInv, PhaseInv, Phases, DoneInv, HandedOverIsDone
<1> QED  BY <1>1, InitInd, IndStep, PTL DEF Spec
=============================================================================
