--------------------------- MODULE TelecranProofs ----------------------------
(***************************************************************************)
(* Theorems about Telecran, for every raster, knob range and arm length.   *)
(*                                                                         *)
(* The write of an edge reaches the memory one edge later, so the proofs   *)
(* are about Ink, the memory with the pending write already applied: one   *)
(* edge adds the pixel under the cross to it, or takes the pixel at the    *)
(* clear address out of it, or leaves it alone (InkStep).                  *)
(***************************************************************************)
EXTENDS Telecran, TLAPS

\* The pixel at column x of line y.
LEMMA PixelInRange ==
  ASSUME NEW x \in 0 .. HVisible - 1, NEW y \in 0 .. VVisible - 1
  PROVE  y * HVisible + x \in Pixels
<1>1. HVisible \in Nat \ {0} /\ VVisible \in Nat \ {0}
  BY TelecranConstants
<1>2. y * HVisible <= (VVisible - 1) * HVisible /\ y * HVisible >= 0
        /\ y * HVisible \in Int
  BY <1>1
<1>3. (VVisible - 1) * HVisible = HVisible * VVisible - HVisible
        /\ HVisible * VVisible \in Int
  BY <1>1
<1> QED BY <1>1, <1>2, <1>3 DEF Pixels

\* Scaling a position down to the screen never leaves the screen.
LEMMA ScaleInRange ==
  ASSUME NEW n \in Nat \ {0}, NEW size \in Nat \ {0}, NEW p \in 0 .. n - 1
  PROVE  (p * size) \div n \in 0 .. size - 1
<1>1. p * size <= (n - 1) * size /\ p * size >= 0 /\ p * size \in Int
  OBVIOUS
<1>2. (n - 1) * size = size * n - size /\ size * n \in Int
  OBVIOUS
<1>3. p * size < size * n
  BY <1>1, <1>2
<1>4. ASSUME NEW m \in Nat, m < size * n
      PROVE  m \div n \in 0 .. size - 1
  <2>1. m = (m \div n) * n + (m % n) /\ m \div n \in Nat /\ m % n \in 0 .. n - 1
    OBVIOUS
  <2>2. (m \div n) * n < size * n
    BY <2>1, <1>4
  <2>3. m \div n < size
    BY <2>1, <2>2
  <2> QED BY <2>1, <2>3
<1> QED BY <1>1, <1>3, <1>4

LEMMA ScanOnScreen ==
  ASSUME r_h_counter \in 0 .. HTotal - 1, r_v_counter \in 0 .. VTotal - 1
  PROVE  /\ s_x_counter \in 0 .. HVisible - 1 /\ s_y_counter \in 0 .. VVisible - 1
         /\ s_ram_addr_rd \in Pixels
<1>1. s_x_counter \in 0 .. HVisible - 1
  BY TelecranConstants DEF s_x_counter, Hdmi!o_x_counter, Hdmi!s_h_visible
<1>2. s_y_counter \in 0 .. VVisible - 1
  BY TelecranConstants DEF s_y_counter, Hdmi!o_y_counter, Hdmi!s_v_visible
<1> QED BY <1>1, <1>2, PixelInRange DEF s_ram_addr_rd

-----------------------------------------------------------------------------
(* The memory and its pending write. *)

\* With port B never writing, the order of the two ports changes what is read
\* and not what is stored.
LEMMA EdgeStores ==
  ASSUME framebuffer
  PROVE  ram' = Write(ram, portA)
BY DEF framebuffer, Edge, InOrder, Write, portA, portB

LEMMA EdgeReads ==
  ASSUME TypeOK, framebuffer
  PROVE  s_ram_data_out' \in {0, 1}
<1>1. Write(ram, portA) \in [Pixels -> {0, 1}]
  BY DEF Write, portA, TypeOK
<1>2. s_ram_data_out' \in {ram[s_ram_addr_rd], Write(ram, portA)[s_ram_addr_rd]}
  BY DEF framebuffer, Edge, InOrder, Write, portA, portB
<1> QED BY <1>1, <1>2 DEF TypeOK

\* What one edge does to the ink.
LEMMA InkStep ==
  ASSUME TypeOK, framebuffer,
         NEW cursor \in BOOLEAN, WriteRegisters(cursor)
  PROVE  /\ r_clear_state = "CLEARING" => Ink' = Ink \ {r_clear_addr}
         /\ r_clear_state # "CLEARING" =>
              \/ Ink' = Ink
              \/ /\ s_pixel_visible /\ cursor
                 /\ Ink' = Ink \cup {s_ram_addr_rd}
<1>1. ram' = Write(ram, portA) /\ Write(ram, portA) \in [Pixels -> {0, 1}]
  BY EdgeStores DEF Write, portA, TypeOK
<1>2. Ink' = {p \in Pixels : Write(ram', portA')[p] = 1}
  BY DEF Ink, Pixels
<1>3. \A p \in Pixels : ram'[p] = 1 <=> p \in Ink
  BY <1>1 DEF Ink
<1>4. CASE r_clear_state = "CLEARING"
  <2>1. s_ram_we_a' = 1 /\ s_ram_addr_wr' = r_clear_addr /\ s_ram_data_in' = 0
    BY <1>4 DEF WriteRegisters
  <2>2. \A p \in Pixels : Write(ram', portA')[p]
                            = IF p = r_clear_addr THEN 0 ELSE ram'[p]
    BY <1>1, <2>1 DEF Write, portA
  <2> QED BY <1>2, <1>3, <1>4, <2>2 DEF Ink, TypeOK
<1>5. CASE r_clear_state # "CLEARING" /\ s_pixel_visible /\ cursor
  <2>1. /\ s_ram_we_a' = 1 /\ s_ram_addr_wr' = s_ram_addr_rd
        /\ s_ram_data_in' = 1 /\ s_ram_addr_rd \in Pixels
    BY <1>5 DEF WriteRegisters, s_ram_addr_rd, TypeOK
  <2>2. \A p \in Pixels : Write(ram', portA')[p]
                            = IF p = s_ram_addr_rd THEN 1 ELSE ram'[p]
    BY <1>1, <2>1 DEF Write, portA
  <2> QED BY <1>2, <1>3, <1>5, <2>1, <2>2 DEF Ink
<1>6. CASE r_clear_state # "CLEARING" /\ ~(s_pixel_visible /\ cursor)
  <2>1. s_ram_we_a' = 0
    BY <1>6 DEF WriteRegisters
  <2>2. Write(ram', portA') = ram'
    BY <2>1 DEF Write, portA
  <2> QED BY <1>2, <1>3, <1>6, <2>2 DEF Ink
<1> QED BY <1>4, <1>5, <1>6

LEMMA InkKept ==
  ASSUME UNCHANGED <<writer, memory>>
  PROVE  Ink' = Ink
BY DEF Ink, Pixels, Write, portA, writer, memory

-----------------------------------------------------------------------------
(* Type correctness. *)

LEMMA KnobTurns ==
  ASSUME NEW n \in Nat \ {0}, NEW p \in Int, NEW d \in Int
  PROVE  (p + d) % n \in 0 .. n - 1
OBVIOUS

LEMMA CountersInRange ==
  ASSUME r_h_counter \in 0 .. HTotal - 1, r_v_counter \in 0 .. VTotal - 1,
         Hdmi!p_counters
  PROVE  r_h_counter' \in 0 .. HTotal - 1 /\ r_v_counter' \in 0 .. VTotal - 1
BY TelecranConstants DEF Hdmi!p_counters

LEMMA ScanOnScreenNext ==
  ASSUME r_h_counter' \in 0 .. HTotal - 1, r_v_counter' \in 0 .. VTotal - 1
  PROVE  s_ram_addr_rd' \in Pixels
<1>1. s_x_counter' \in 0 .. HVisible - 1
  BY TelecranConstants DEF s_x_counter, Hdmi!o_x_counter, Hdmi!s_h_visible
<1>2. s_y_counter' \in 0 .. VVisible - 1
  BY TelecranConstants DEF s_y_counter, Hdmi!o_y_counter, Hdmi!s_v_visible
<1>3. s_ram_addr_rd' = s_y_counter' * HVisible + s_x_counter'
  BY DEF s_ram_addr_rd
<1>4. PICK x \in 0 .. HVisible - 1, y \in 0 .. VVisible - 1 :
             x = s_x_counter' /\ y = s_y_counter'
  BY <1>1, <1>2
<1> QED BY <1>3, <1>4, PixelInRange

\* The parts of TypeOK, by the processes that drive them.
ScanOK == r_h_counter \in 0 .. HTotal - 1 /\ r_v_counter \in 0 .. VTotal - 1
KnobsOK ==
  /\ s_left_position \in 0 .. LeftPositions - 1
  /\ s_right_position \in 0 .. RightPositions - 1
  /\ left_was \in 0 .. LeftPositions - 1 /\ right_was \in 0 .. RightPositions - 1
ClearOK ==
  /\ v_btn_prev \in {0, 1} /\ r_clear_req \in {0, 1}
  /\ r_clear_state \in {"IDLE", "CLEARING", "DONE"} /\ r_clear_addr \in Pixels
ScreenOK ==
  /\ s_ram_we_a \in {0, 1} /\ s_ram_addr_wr \in Pixels /\ s_ram_data_in \in {0, 1}
  /\ ram \in [Pixels -> {0, 1}] /\ s_ram_data_out \in {0, 1}
  /\ o_hdmi_tx_d \in {"black", "white", "green"}
ResetOK ==
  /\ i_rst_n \in {0, 1} /\ s_rst_n \in {0, 1}
  /\ i_rst_n = 0 => s_rst_n = 0

LEMMA PartsOfTypeOK ==
  TypeOK <=> ScanOK /\ KnobsOK /\ ClearOK /\ ScreenOK /\ ResetOK /\ stale \subseteq Pixels
<1>1. ScanOK => s_ram_addr_rd \in Pixels
  BY ScanOnScreen DEF ScanOK
<1>2. KnobsOK => /\ s_x_pixel(s_left_position) \in 0 .. HVisible - 1
                 /\ s_y_pixel(s_right_position) \in 0 .. VVisible - 1
  <2> SUFFICES ASSUME KnobsOK
               PROVE  /\ s_x_pixel(s_left_position) \in 0 .. HVisible - 1
                      /\ s_y_pixel(s_right_position) \in 0 .. VVisible - 1
    OBVIOUS
  <2>1. (s_left_position * HVisible) \div LeftPositions \in 0 .. HVisible - 1
    BY ScaleInRange, TelecranConstants DEF KnobsOK
  <2>2. (s_right_position * VVisible) \div RightPositions \in 0 .. VVisible - 1
    BY ScaleInRange, TelecranConstants DEF KnobsOK
  <2> QED BY <2>1, <2>2 DEF s_x_pixel, s_y_pixel
<1> QED BY <1>1, <1>2 DEF TypeOK, ScanOK, KnobsOK, ClearOK, ScreenOK, ResetOK

\* What an action leaves alone keeps its types.
LEMMA PartsKept ==
  /\ ScanOK /\ UNCHANGED scan => ScanOK'
  /\ KnobsOK /\ UNCHANGED knobs => KnobsOK'
  /\ ClearOK /\ UNCHANGED <<button, clearing>> => ClearOK'
  /\ ScreenOK /\ UNCHANGED <<writer, memory, o_hdmi_tx_d>> => ScreenOK'
  /\ ResetOK /\ UNCHANGED <<i_rst_n, s_rst_n>> => ResetOK'
  /\ stale \subseteq Pixels /\ UNCHANGED stale => stale' \subseteq Pixels
<1>1. ScanOK /\ UNCHANGED scan => ScanOK'
  BY DEF ScanOK, scan
<1>2. KnobsOK /\ UNCHANGED knobs => KnobsOK'
  BY DEF KnobsOK, knobs
<1>3. ClearOK /\ UNCHANGED <<button, clearing>> => ClearOK'
  BY DEF ClearOK, button, clearing, Pixels
<1>4. ScreenOK /\ UNCHANGED <<writer, memory, o_hdmi_tx_d>> => ScreenOK'
  BY DEF ScreenOK, writer, memory, Pixels
<1>5. ResetOK /\ UNCHANGED <<i_rst_n, s_rst_n>> => ResetOK'
  BY DEF ResetOK
<1>6. stale \subseteq Pixels /\ UNCHANGED stale => stale' \subseteq Pixels
  BY DEF Pixels
<1> QED BY <1>1, <1>2, <1>3, <1>4, <1>5, <1>6

LEMMA UnresetKeepsTypes ==
  ASSUME TypeOK, Unreset
  PROVE  ScreenOK' /\ left_was' = s_left_position /\ right_was' = s_right_position
<1>1. ram' \in [Pixels -> {0, 1}]
  BY EdgeStores DEF Unreset, Write, portA, TypeOK
<1>2. s_ram_data_out' \in {0, 1}
  BY EdgeReads DEF Unreset
<1>3. PICK cursor : WriteRegisters(cursor) /\ o_hdmi_tx_d' = Colour(cursor)
  BY DEF Unreset, p_framebuffer
<1>4. s_ram_we_a' \in {0, 1} /\ s_ram_addr_wr' \in Pixels /\ s_ram_data_in' \in {0, 1}
  BY <1>3 DEF WriteRegisters, TypeOK, s_ram_addr_rd
<1>5. o_hdmi_tx_d' \in {"black", "white", "green"}
  BY <1>3 DEF Colour
<1> QED BY <1>1, <1>2, <1>4, <1>5 DEF ScreenOK, Unreset, Pixels

\* Every signal stays in the range of its declaration: no address, counter or
\* scaled position ever leaves it, with torn reads or without.
THEOREM TypeCorrect == Spec => []TypeOK
<1>1. Init => TypeOK
  <2> SUFFICES ASSUME Init PROVE TypeOK
    OBVIOUS
  <2>1. 0 \in Pixels
    <3>1. HVisible * VVisible >= 1 /\ HVisible * VVisible \in Int
      BY TelecranConstants
    <3> QED BY <3>1 DEF Pixels
  <2>2. ScanOK /\ KnobsOK /\ ResetOK /\ ClearOK /\ ScreenOK
    BY <2>1, TelecranConstants DEF Init, ScanOK, KnobsOK, ClearOK, ScreenOK, ResetOK
  <2> QED BY <2>2, PartsOfTypeOK DEF Init
<1>2. TypeOK /\ [Next]_vars => TypeOK'
  <2> SUFFICES ASSUME TypeOK, [Next]_vars PROVE TypeOK'
    OBVIOUS
  <2>p. ScanOK /\ KnobsOK /\ ClearOK /\ ScreenOK /\ ResetOK /\ stale \subseteq Pixels
    BY PartsOfTypeOK
  <2>q. 0 \in Pixels
    <3>1. HVisible * VVisible >= 1 /\ HVisible * VVisible \in Int
      BY TelecranConstants
    <3> QED BY <3>1 DEF Pixels
  <2>s. ASSUME ScanOK', KnobsOK', ClearOK', ScreenOK', ResetOK', stale' \subseteq Pixels
        PROVE  TypeOK'
    <3>1. s_ram_addr_rd' \in Pixels
      BY <2>s, ScanOnScreenNext DEF ScanOK
    <3>2. (s_left_position' * HVisible) \div LeftPositions \in 0 .. HVisible - 1
      BY <2>s, ScaleInRange, TelecranConstants DEF KnobsOK
    <3>3. (s_right_position' * VVisible) \div RightPositions \in 0 .. VVisible - 1
      BY <2>s, ScaleInRange, TelecranConstants DEF KnobsOK
    <3> QED BY <2>s, <3>1, <3>2, <3>3
        DEF TypeOK, ScanOK, KnobsOK, ClearOK, ScreenOK, ResetOK, s_x_pixel, s_y_pixel, Pixels
  <2>1. CASE Tick
    <3>1. ScanOK'
      BY <2>1, <2>p, CountersInRange DEF Tick, ScanOK
    <3>2. KnobsOK'
      BY <2>1, <2>p DEF Tick, Unreset, KnobsOK
    <3>3. r_clear_state' \in {"IDLE", "CLEARING", "DONE"} /\ r_clear_addr' \in Pixels
      BY <2>1, <2>p, <2>q, TelecranConstants
         DEF Tick, p_clear_fsm, clearing, ClearOK, Pixels
    <3>4. v_btn_prev' \in {0, 1} /\ r_clear_req' \in {0, 1}
      BY <2>1, <2>p DEF Tick, p_button_detect, ClearOK
    <3>5. stale' \subseteq Pixels
      BY <2>1, <2>p DEF Tick, Remember, Ink, Pixels
    <3>6. ScreenOK'
      BY <2>1, UnresetKeepsTypes DEF Tick
    <3>7. ResetOK'
      BY <2>1, <2>p DEF Tick, ResetOK
    <3>8. ClearOK'
      BY <3>3, <3>4 DEF ClearOK, Pixels
    <3> QED BY <2>s, <3>1, <3>2, <3>5, <3>6, <3>7, <3>8
  <2>2. CASE TickUnlocked
    <3>1. ScreenOK' /\ KnobsOK'
      BY <2>2, <2>p, UnresetKeepsTypes DEF TickUnlocked, KnobsOK
    <3>2. UNCHANGED <<i_rst_n, s_rst_n, scan, button, clearing, stale>>
      BY <2>2 DEF TickUnlocked
    <3>3. ScanOK' /\ ClearOK' /\ ResetOK' /\ stale' \subseteq Pixels
      BY <2>p, <3>2, PartsKept
    <3> QED BY <2>s, <3>1, <3>3
  <2>3. CASE LoseLock \/ PressReset
    <3>1. KnobsOK'
      BY <2>3, <2>p, TelecranConstants
         DEF LoseLock, PressReset, Left!Reset, Right!Reset, knobs, Leave, KnobsOK
    <3>2. ResetPixelDomain
      BY <2>3 DEF LoseLock, PressReset
    <3>3. ScreenOK'
      BY <2>p, <3>2, PartsKept DEF ResetPixelDomain
    <3>4. ScanOK'
      BY <3>2, TelecranConstants DEF ResetPixelDomain, ScanOK
    <3>5. ClearOK'
      BY <2>q, <3>2 DEF ResetPixelDomain, ClearOK, Pixels
    <3>6. stale' \subseteq Pixels
      BY <3>2 DEF ResetPixelDomain
    <3>7. i_rst_n' \in {0, 1} /\ s_rst_n' = 0
      BY <2>3, <2>p, <3>2
         DEF LoseLock, PressReset, Left!Reset, ResetPixelDomain, ResetOK
    <3>8. ResetOK'
      BY <3>7 DEF ResetOK
    <3> QED BY <2>s, <3>1, <3>3, <3>4, <3>5, <3>6, <3>8
  <2>4. CASE Lock \/ ReleaseReset
    <3>1. UNCHANGED <<scan, knobs, button, clearing, writer, memory, o_hdmi_tx_d, stale>>
      BY <2>4 DEF Lock, ReleaseReset
    <3>2. ScanOK' /\ KnobsOK' /\ ClearOK' /\ ScreenOK' /\ stale' \subseteq Pixels
      BY <2>p, <3>1, PartsKept
    <3>3. ResetOK'
      BY <2>4, <2>p DEF Lock, ReleaseReset, ResetOK
    <3> QED BY <2>s, <3>2, <3>3
  <2>5. CASE \E d \in {-1, 1} : TurnLeft(d) \/ TurnRight(d)
    <3>1. KnobsOK'
      BY <2>5, <2>p, KnobTurns, TelecranConstants
         DEF TurnLeft, TurnRight, Left!Turn, Right!Turn, Leave, KnobsOK
    <3>2. UNCHANGED <<s_rst_n, scan, button, clearing, writer, memory, o_hdmi_tx_d, stale>>
      BY <2>5 DEF TurnLeft, TurnRight
    <3>3. UNCHANGED i_rst_n
      BY <2>5 DEF TurnLeft, TurnRight, Left!Turn, Right!Turn
    <3>4. ScanOK' /\ ClearOK' /\ ScreenOK' /\ ResetOK' /\ stale' \subseteq Pixels
      BY <2>p, <3>2, <3>3, PartsKept
    <3> QED BY <2>s, <3>1, <3>4
  <2>6. CASE UNCHANGED vars
    <3>1. UNCHANGED <<i_rst_n, s_rst_n, scan, knobs, button, clearing, writer, memory,
                      o_hdmi_tx_d, stale>>
      BY <2>6 DEF vars
    <3>2. /\ ScanOK' /\ KnobsOK' /\ ClearOK' /\ ScreenOK' /\ ResetOK'
          /\ stale' \subseteq Pixels
      BY <2>p, <3>1, PartsKept
    <3> QED BY <2>s, <3>2
  <2> QED BY <2>1, <2>2, <2>3, <2>4, <2>5, <2>6 DEF Next
<1> QED BY <1>1, <1>2, PTL DEF Spec

-----------------------------------------------------------------------------
(* The clear. *)

\* Ink a press is owed is on the screen, and is all gone once nothing is owed.
StaleInv == stale \subseteq Ink /\ ClearErasesAll

\* The reset holds the FSM in IDLE with nothing owed.
ResetInv == s_rst_n = 0 => r_clear_state = "IDLE" /\ r_clear_req = 0 /\ stale = {}

LEMMA ResetStep ==
  ASSUME TypeOK, ResetInv, [Next]_vars
  PROVE  ResetInv'
BY DEF Next, Tick, TickUnlocked, LoseLock, Lock, PressReset, ReleaseReset,
       TurnLeft, TurnRight, Left!Turn, Right!Turn, ResetPixelDomain, vars, button,
       clearing, ResetInv, TypeOK

\* Whatever an edge draws or erases, nothing inked is left behind the sweep.
LEMMA SweepStep ==
  ASSUME TypeOK, SweptIsDark, StaleInv, ResetInv, [Next]_vars
  PROVE  SweptIsDark' /\ StaleInv'
<1>1. CASE Tick
  <2>1. PICK cursor \in BOOLEAN : WriteRegisters(cursor)
    BY <1>1 DEF Tick, Unreset, p_framebuffer, OnCross
  <2>2. framebuffer
    BY <1>1 DEF Tick, Unreset
  <2>3. /\ r_clear_state = "CLEARING" => Ink' = Ink \ {r_clear_addr}
        /\ r_clear_state # "CLEARING" =>
             Ink' = Ink \/ Ink' = Ink \cup {s_ram_addr_rd}
    BY <2>1, <2>2, InkStep
  <2>4. Ink \subseteq Pixels /\ Pixels \subseteq Int
    BY TelecranConstants DEF Ink, Pixels
  <2>5. SweptIsDark'
    <3>1. CASE r_clear_state = "IDLE"
      <4>1. r_clear_state' # "DONE"
            /\ (r_clear_state' = "CLEARING" => r_clear_addr' = 0)
        BY <1>1, <3>1 DEF Tick, p_clear_fsm, clearing
      <4>2. 0 .. 0 - 1 = {}
        OBVIOUS
      <4> QED BY <4>1, <4>2 DEF SweptIsDark
    <3>2. CASE r_clear_state = "CLEARING" /\ r_clear_addr < HVisible * VVisible - 1
      <4>1. r_clear_state' = "CLEARING" /\ r_clear_addr' = r_clear_addr + 1
        BY <1>1, <3>2 DEF Tick, p_clear_fsm
      <4>2. \A p \in Ink' : p \notin 0 .. r_clear_addr
        <5>1. r_clear_addr \in Int
          BY <2>4 DEF TypeOK
        <5> QED BY <2>3, <2>4, <3>2, <5>1 DEF SweptIsDark
      <4>3. r_clear_addr' - 1 = r_clear_addr
        BY <4>1, <2>4 DEF TypeOK
      <4> QED BY <4>1, <4>2, <4>3 DEF SweptIsDark
    <3>3. CASE r_clear_state = "CLEARING" /\ ~(r_clear_addr < HVisible * VVisible - 1)
      <4>1. r_clear_state' = "DONE"
        BY <1>1, <3>3 DEF Tick, p_clear_fsm
      <4>2. r_clear_addr = HVisible * VVisible - 1
        <5>1. HVisible * VVisible \in Int /\ r_clear_addr \in Pixels
          BY TelecranConstants DEF TypeOK
        <5> QED BY <3>3, <5>1 DEF Pixels
      <4>3. \A p \in Ink' : FALSE
        <5> SUFFICES ASSUME NEW p \in Ink' PROVE FALSE
          OBVIOUS
        <5>1. p \in Ink /\ p # r_clear_addr
          BY <2>3, <3>3
        <5>2. p \in 0 .. HVisible * VVisible - 1
          BY <5>1 DEF Ink, Pixels
        <5>3. HVisible * VVisible \in Int
          BY TelecranConstants
        <5>4. p \in 0 .. r_clear_addr - 1
          BY <4>2, <5>1, <5>2, <5>3
        <5> QED BY <3>3, <5>1, <5>4 DEF SweptIsDark
      <4> QED BY <4>1, <4>3 DEF SweptIsDark
    <3>4. CASE r_clear_state = "DONE"
      <4>1. r_clear_state' = "IDLE"
        BY <1>1, <3>4 DEF Tick, p_clear_fsm
      <4> QED BY <4>1 DEF SweptIsDark
    <3> QED BY <3>1, <3>2, <3>3, <3>4 DEF TypeOK
  <2>6. StaleInv'
    <3>1. PICK i_left_pb \in {0, 1} : p_button_detect(i_left_pb) /\ Remember(i_left_pb)
      BY <1>1 DEF Tick
    <3>2. stale' \subseteq Ink'
      BY <3>1 DEF Remember
    <3>3. r_clear_req' = 0 =>
            /\ stale' = stale \cap Ink'
            /\ r_clear_state = "DONE" \/ r_clear_req = 0
      BY <3>1 DEF p_button_detect, Remember
    <3>4. r_clear_state = "DONE" => stale = {}
      BY DEF SweptIsDark, StaleInv
    <3>5. r_clear_req = 0 => stale = {}
      BY DEF StaleInv, ClearErasesAll
    <3>6. r_clear_req' = 0 => stale' = {}
      BY <3>3, <3>4, <3>5
    <3> QED BY <3>2, <3>6 DEF StaleInv, ClearErasesAll
  <2> QED BY <2>5, <2>6
<1>2. CASE TickUnlocked
  <2>1. /\ r_clear_state' = "IDLE" /\ r_clear_req' = 0 /\ stale' = {}
    BY <1>2 DEF TickUnlocked, clearing, button, ResetInv
  <2> QED BY <2>1 DEF SweptIsDark, StaleInv, ClearErasesAll
<1>3. CASE LoseLock \/ PressReset
  <2>1. r_clear_state' = "IDLE" /\ stale' = {}
    BY <1>3 DEF LoseLock, PressReset, ResetPixelDomain
  <2> QED BY <2>1 DEF SweptIsDark, StaleInv, ClearErasesAll
<1>4. CASE \/ Lock \/ ReleaseReset \/ UNCHANGED vars
           \/ \E d \in {-1, 1} : TurnLeft(d) \/ TurnRight(d)
  <2>1. UNCHANGED <<clearing, r_clear_req, stale, writer, memory>>
    BY <1>4 DEF Lock, ReleaseReset, TurnLeft, TurnRight, vars, button
  <2>2. Ink' = Ink
    BY <2>1, InkKept
  <2> QED BY <2>1, <2>2 DEF clearing, SweptIsDark, StaleInv, ClearErasesAll
<1> QED BY <1>1, <1>2, <1>3, <1>4 DEF Next

\* Once nothing is owed, whatever was inked when the last press came has been
\* erased: no interleaving of drawing, presses and the sweep saves a pixel.
THEOREM ClearIsComplete == Spec => []ClearErasesAll
<1> DEFINE IInv == SweptIsDark /\ StaleInv /\ ResetInv
<1>1. Init => IInv
  BY DEF Init, SweptIsDark, StaleInv, ResetInv, ClearErasesAll
<1>2. TypeOK /\ IInv /\ [Next]_vars => IInv'
  BY SweepStep, ResetStep
<1>3. IInv => ClearErasesAll
  BY DEF StaleInv
<1> QED BY <1>1, <1>2, <1>3, TypeCorrect, PTL DEF Spec

\* Nothing survives or reappears behind the sweep.
THEOREM SweepLeavesDark == Spec => []SweptIsDark
<1> DEFINE IInv == SweptIsDark /\ StaleInv /\ ResetInv
<1>1. Init => IInv
  BY DEF Init, SweptIsDark, StaleInv, ResetInv, ClearErasesAll
<1>2. TypeOK /\ IInv /\ [Next]_vars => IInv'
  BY SweepStep, ResetStep
<1>3. IInv => SweptIsDark
  OBVIOUS
<1> QED BY <1>1, <1>2, <1>3, TypeCorrect, PTL DEF Spec

-----------------------------------------------------------------------------
(* The pen. *)

\* A scanned pixel that the drawing process finds on the cross is in the cross
\* as a set of addresses.
LEMMA ScannedIsInCross ==
  ASSUME TypeOK, s_pixel_visible,
         NEW left \in 0 .. LeftPositions - 1, NEW right \in 0 .. RightPositions - 1,
         OnCross(s_x_counter, s_y_counter, left, right)
  PROVE  s_ram_addr_rd \in Cross(left, right)
<1> DEFINE cx == s_x_pixel(left)
           cy == s_y_pixel(right)
<1>1. cx \in 0 .. HVisible - 1
  BY ScaleInRange, TelecranConstants DEF s_x_pixel
<1>2. cy \in 0 .. VVisible - 1
  BY ScaleInRange, TelecranConstants DEF s_y_pixel
<1>3. s_x_counter \in 0 .. HVisible - 1 /\ s_y_counter \in 0 .. VVisible - 1
  BY ScanOnScreen DEF TypeOK
<1>4. PICK x \in 0 .. HVisible - 1, y \in 0 .. VVisible - 1 :
             x = s_x_counter /\ y = s_y_counter
  BY <1>3
<1>5. \/ Distance(y, cy) <= Arm /\ Distance(x, cx) = 0
      \/ Distance(x, cx) <= Arm /\ Distance(y, cy) = 0
  BY <1>4 DEF OnCross
<1>6. Cross(left, right) =
        {cy * HVisible + h : h \in (cx - Arm .. cx + Arm) \cap 0 .. HVisible - 1}
          \cup {v * HVisible + cx : v \in (cy - Arm .. cy + Arm) \cap 0 .. VVisible - 1}
  BY DEF Cross
<1> HIDE DEF cx, cy
<1>7. Arm \in Nat /\ HVisible \in Nat /\ VVisible \in Nat
  BY TelecranConstants
<1>8. CASE Distance(y, cy) <= Arm /\ Distance(x, cx) = 0
  <2>1. x = cx /\ y \in cy - Arm .. cy + Arm
    BY <1>1, <1>2, <1>4, <1>7, <1>8 DEF Distance
  <2> QED BY <1>4, <1>6, <2>1 DEF s_ram_addr_rd
<1>9. CASE Distance(x, cx) <= Arm /\ Distance(y, cy) = 0
  <2>1. y = cy /\ x \in cx - Arm .. cx + Arm
    BY <1>1, <1>2, <1>4, <1>7, <1>9 DEF Distance
  <2> QED BY <1>4, <1>6, <2>1 DEF s_ram_addr_rd
<1> QED BY <1>5, <1>8, <1>9

\* With knob positions read whole, a pixel is inked only under the pen, and
\* never while a clear runs.
LEMMA PenStep ==
  ASSUME TornReads = FALSE, TypeOK, ResetInv, [Next]_vars
  PROVE  \A p \in Ink' \ Ink : p \in UnderPen /\ r_clear_state # "CLEARING"
<1>1. CASE Tick \/ TickUnlocked
  <2>1. PICK cursor \in BOOLEAN :
          /\ WriteRegisters(cursor)
          /\ cursor = OnCross(s_x_counter, s_y_counter, s_left_position, s_right_position)
    BY <1>1 DEF Tick, TickUnlocked, Unreset, p_framebuffer, Seen, OnCross
  <2>2. framebuffer
    BY <1>1 DEF Tick, TickUnlocked, Unreset
  <2>3. /\ r_clear_state = "CLEARING" => Ink' = Ink \ {r_clear_addr}
        /\ r_clear_state # "CLEARING" =>
             \/ Ink' = Ink
             \/ s_pixel_visible /\ cursor /\ Ink' = Ink \cup {s_ram_addr_rd}
    BY <2>1, <2>2, InkStep
  <2>4. s_pixel_visible /\ cursor
          => s_ram_addr_rd \in Cross(s_left_position, s_right_position)
    BY <2>1, ScannedIsInCross DEF TypeOK
  <2>5. Cross(s_left_position, s_right_position) \subseteq UnderPen
    BY DEF UnderPen
  <2> QED BY <2>3, <2>4, <2>5
<1>2. CASE ~(Tick \/ TickUnlocked)
  <2>1. UNCHANGED <<writer, memory>>
    BY <1>2 DEF Next, LoseLock, Lock, PressReset, ReleaseReset, ResetPixelDomain,
       TurnLeft, TurnRight, vars
  <2> QED BY <2>1, InkKept
<1> QED BY <1>1, <1>2

\* The pen draws where the knobs say and nowhere else.
THEOREM PenIsTrue ==
  ASSUME TornReads = FALSE
  PROVE  Spec => InkOnlyUnderPen
<1>1. TypeOK /\ ResetInv /\ [Next]_vars
        => [\A p \in Ink' \ Ink : p \in UnderPen /\ r_clear_state # "CLEARING"]_vars
  BY PenStep
<1>2. Init => ResetInv
  BY DEF Init, ResetInv
<1>3. TypeOK /\ ResetInv /\ [Next]_vars => ResetInv'
  BY ResetStep
<1> QED BY <1>1, <1>2, <1>3, TypeCorrect, PTL DEF Spec, InkOnlyUnderPen

-----------------------------------------------------------------------------
(* Drawing and reading. *)

ScanHeld == s_rst_n = 0 => r_h_counter = 0 /\ r_v_counter = 0

\* One edge moves the raster off a visible pixel, or back to the first one.
LEMMA RasterMovesOn ==
  ASSUME HVisible >= 2, Hdmi!p_counters, s_pixel_visible,
         r_h_counter \in 0 .. HTotal - 1, r_v_counter \in 0 .. VTotal - 1
  PROVE  \/ s_ram_addr_rd' # s_ram_addr_rd
         \/ r_h_counter' = 0 /\ r_v_counter' = 0
<1>1. PICK h \in 0 .. HVisible - 1, v \in 0 .. VVisible - 1 :
        /\ h = r_h_counter /\ v = r_v_counter
        /\ s_ram_addr_rd = v * HVisible + h
  BY TelecranConstants DEF s_pixel_visible, Hdmi!s_pixel_visible, Hdmi!s_h_visible,
     Hdmi!s_v_visible, s_ram_addr_rd, s_x_counter, s_y_counter, Hdmi!o_x_counter,
     Hdmi!o_y_counter
<1>2. v * HVisible \in Nat /\ (v + 1) * HVisible = v * HVisible + HVisible
  BY TelecranConstants
<1>3. CASE h # HTotal - 1
  <2>1. r_h_counter' = h + 1 /\ r_v_counter' = v
    BY <1>1, <1>3 DEF Hdmi!p_counters
  <2>2. s_x_counter' = IF h + 1 < HVisible THEN h + 1 ELSE 0
    BY <2>1 DEF s_x_counter, Hdmi!o_x_counter, Hdmi!s_h_visible
  <2>3. s_y_counter' = v
    BY <2>1, TelecranConstants DEF s_y_counter, Hdmi!o_y_counter, Hdmi!s_v_visible
  <2>4. s_ram_addr_rd' = v * HVisible + (IF h + 1 < HVisible THEN h + 1 ELSE 0)
    BY <2>2, <2>3 DEF s_ram_addr_rd
  <2> QED BY <1>1, <1>2, <2>4, TelecranConstants
<1>4. CASE h = HTotal - 1 /\ v # VTotal - 1
  <2>1. r_h_counter' = 0 /\ r_v_counter' = v + 1 /\ h = HVisible - 1
    BY <1>1, <1>4, TelecranConstants DEF Hdmi!p_counters
  <2>2. s_x_counter' = 0
    BY <2>1, TelecranConstants DEF s_x_counter, Hdmi!o_x_counter, Hdmi!s_h_visible
  <2>3. s_y_counter' = IF v + 1 < VVisible THEN v + 1 ELSE 0
    BY <2>1 DEF s_y_counter, Hdmi!o_y_counter, Hdmi!s_v_visible
  <2>4. s_ram_addr_rd' = IF v + 1 < VVisible THEN (v + 1) * HVisible ELSE 0
    BY <2>2, <2>3, <1>2, TelecranConstants DEF s_ram_addr_rd
  <2> QED BY <1>1, <1>2, <2>1, <2>4, TelecranConstants
<1>5. CASE h = HTotal - 1 /\ v = VTotal - 1
  BY <1>1, <1>5 DEF Hdmi!p_counters
<1> QED BY <1>3, <1>4, <1>5

LEMMA ScanHeldStep == ScanHeld /\ [Next]_vars => ScanHeld'
BY DEF Next, Tick, TickUnlocked, LoseLock, Lock, PressReset, ReleaseReset, TurnLeft,
       TurnRight, Left!Turn, Right!Turn, ResetPixelDomain, scan, vars, ScanHeld

LEMMA DrawStep ==
  ASSUME HVisible >= 2, TypeOK, ScanHeld, NoReadDuringDraw, [Next]_vars
  PROVE  ScanHeld' /\ NoReadDuringDraw'
<1>1. CASE Tick
  <2>1. PICK cursor \in BOOLEAN : WriteRegisters(cursor)
    BY <1>1 DEF Tick, Unreset, p_framebuffer, OnCross
  <2>2. s_ram_we_a' = 1 /\ s_ram_data_in' = 1
          => s_pixel_visible /\ s_ram_addr_wr' = s_ram_addr_rd
    BY <2>1 DEF WriteRegisters, s_ram_addr_rd
  <2>3. \/ s_ram_addr_rd' # s_ram_addr_rd
        \/ r_h_counter' = 0 /\ r_v_counter' = 0
        \/ ~s_pixel_visible
    BY <1>1, RasterMovesOn DEF Tick, TypeOK
  <2>4. s_rst_n' = 1
    BY <1>1 DEF Tick
  <2> QED BY <2>2, <2>3, <2>4 DEF NoReadDuringDraw, ScanHeld
<1>2. CASE TickUnlocked \/ LoseLock \/ PressReset
  <2>1. r_h_counter' = 0 /\ r_v_counter' = 0
    BY <1>2 DEF TickUnlocked, LoseLock, PressReset, ResetPixelDomain, ScanHeld, scan
  <2> QED BY <2>1 DEF NoReadDuringDraw, ScanHeld
<1>3. CASE \/ Lock \/ ReleaseReset \/ UNCHANGED vars
           \/ \E d \in {-1, 1} : TurnLeft(d) \/ TurnRight(d)
  <2>1. UNCHANGED <<scan, writer>> /\ (s_rst_n' = s_rst_n \/ s_rst_n' = 1)
    BY <1>3 DEF Lock, ReleaseReset, TurnLeft, TurnRight, vars
  <2>2. s_ram_addr_rd' = s_ram_addr_rd
    BY <2>1 DEF scan, s_ram_addr_rd, s_x_counter, s_y_counter, Hdmi!o_x_counter,
       Hdmi!o_y_counter, Hdmi!s_h_visible, Hdmi!s_v_visible
  <2> QED BY <2>1, <2>2 DEF scan, writer, NoReadDuringDraw, ScanHeld
<1> QED BY <1>1, <1>2, <1>3 DEF Next

\* On a screen at least two pixels wide, no edge reads for display the pixel
\* it draws, so that the undefined order of the memory's two ports does not
\* matter to drawing; the raster's first pixel after a reset is excepted.
THEOREM PortsKeepApart ==
  ASSUME HVisible >= 2
  PROVE  Spec => []NoReadDuringDraw
<1>1. Init => ScanHeld /\ NoReadDuringDraw
  BY DEF Init, ScanHeld, NoReadDuringDraw
<1>2. TypeOK /\ (ScanHeld /\ NoReadDuringDraw) /\ [Next]_vars
        => (ScanHeld /\ NoReadDuringDraw)'
  BY DrawStep
<1> QED BY <1>1, <1>2, TypeCorrect, PTL DEF Spec

-----------------------------------------------------------------------------
(* The raster: HdmiController inside the screen. *)

LEMMA TimingFacts ==
  /\ HVisible \in Nat /\ HFp \in Nat /\ HSync \in Nat /\ HBp \in Nat
  /\ VVisible \in Nat /\ VFp \in Nat /\ VSync \in Nat /\ VBp \in Nat
  /\ HTotal \in Nat /\ 0 < HVisible /\ HVisible < HTotal
  /\ VTotal \in Nat /\ 0 < VVisible /\ VVisible <= VTotal
  /\ HVisible + HFp + HSync <= HTotal
  /\ VVisible + VFp + VSync <= VTotal
BY TelecranConstants

\* TypeOK is an invariant: no reachable state leaves the ranges declared in
\* hdmi_controller.vhd for r_h_counter and r_v_counter, and a reset holds both
\* at zero.
THEOREM RasterTypeCorrect == Hdmi!Spec => []Hdmi!TypeOK
<1>1. Hdmi!Init => Hdmi!TypeOK
  BY TimingFacts DEF Hdmi!Init, Hdmi!TypeOK
<1>2. Hdmi!TypeOK /\ [Hdmi!Next]_(Hdmi!vars) => Hdmi!TypeOK'
  <2> SUFFICES ASSUME Hdmi!TypeOK, [Hdmi!Next]_(Hdmi!vars) PROVE Hdmi!TypeOK'
    OBVIOUS
  <2> USE TimingFacts DEF Hdmi!TypeOK
  <2>1. CASE Hdmi!Tick
    BY <2>1 DEF Hdmi!Tick, Hdmi!p_counters
  <2>2. CASE Hdmi!AssertReset
    BY <2>2 DEF Hdmi!AssertReset
  <2>3. CASE Hdmi!ReleaseReset
    BY <2>3 DEF Hdmi!ReleaseReset, Hdmi!counters
  <2>4. CASE UNCHANGED Hdmi!vars
    BY <2>4 DEF Hdmi!vars
  <2>5. QED BY <2>1, <2>2, <2>3, <2>4 DEF Hdmi!Next
<1>3. QED BY <1>1, <1>2, PTL DEF Hdmi!Spec

-----------------------------------------------------------------------------
(* The refinement of FrameScan. *)

\* A position of the frame determines its column and its line.
LEMMA PositionColumnLine ==
  ASSUME NEW h \in 0 .. HTotal - 1, NEW v \in Nat
  PROVE  Hdmi!Scan!Column(v * HTotal + h) = h /\ Hdmi!Scan!Line(v * HTotal + h) = v
<1>1. HTotal \in Nat \ {0}
  BY TimingFacts
<1>2. (v * HTotal + h) % HTotal = h /\ (v * HTotal + h) \div HTotal = v
  BY <1>1
<1>3. QED BY <1>2 DEF Hdmi!Scan!Column, Hdmi!Scan!Line

\* Position of the counters, as the refinement mapping computes it.
Position == r_v_counter * HTotal + r_h_counter

\* The zones of FrameScan at a position, in terms of the two counters.
LEMMA ZonesOfPosition ==
  ASSUME NEW h \in 0 .. HTotal - 1, NEW v \in 0 .. VTotal - 1
  PROVE  /\ Hdmi!Scan!Visible(v * HTotal + h) <=> h < HVisible /\ v < VVisible
         /\ Hdmi!Scan!HPulse(v * HTotal + h) <=> /\ h >= HVisible + HFp
                                            /\ h < HVisible + HFp + HSync
         /\ Hdmi!Scan!VPulse(v * HTotal + h) <=> /\ v >= VVisible + VFp
                                            /\ v < VVisible + VFp + VSync
<1> DEFINE p == v * HTotal + h
<1>1. Hdmi!Scan!Column(p) = h /\ Hdmi!Scan!Line(p) = v
  BY PositionColumnLine, TimingFacts
<1> HIDE DEF p
<1>2. Hdmi!Scan!Visible(p) <=> h < HVisible /\ v < VVisible
  BY <1>1, TimingFacts DEF Hdmi!Scan!Visible
<1>3. Hdmi!Scan!HPulse(p) <=> h >= HVisible + HFp /\ h < HVisible + HFp + HSync
  BY <1>1, TimingFacts DEF Hdmi!Scan!HPulse
<1>4. Hdmi!Scan!VPulse(p) <=> v >= VVisible + VFp /\ v < VVisible + VFp + VSync
  BY <1>1, TimingFacts DEF Hdmi!Scan!VPulse
<1>5. QED BY <1>2, <1>3, <1>4 DEF p

\* The address bus carries the number of visible pixels already emitted.
LEMMA AddressIsRankNext ==
  ASSUME Hdmi!TypeOK'
  PROVE  Hdmi!o_pixel_address' = IF Hdmi!s_pixel_visible' THEN Hdmi!EmittedBefore' ELSE 0
BY DEF Hdmi!o_pixel_address, Hdmi!EmittedBefore, Hdmi!s_pixel_visible

\* One clock edge moves the position by one, or from the last one of the frame
\* to the first, and counts the pixel that was visible.
LEMMA TickAdvances ==
  ASSUME Hdmi!TypeOK, Hdmi!Tick
  PROVE  IF Position = HTotal * VTotal - 1
           THEN Position' = 0 /\ Hdmi!EmittedBefore' = 0
           ELSE /\ Position' = Position + 1
                /\ Hdmi!EmittedBefore' = Hdmi!EmittedBefore + Hdmi!o_de
<1> USE TimingFacts
<1> USE DEF Hdmi!Tick, Hdmi!p_counters, Hdmi!TypeOK
<1>1. CASE r_h_counter = HTotal - 1 /\ r_v_counter = VTotal - 1
  <2>1. Position = HTotal * VTotal - 1
    BY <1>1 DEF Position
  <2>2. r_h_counter' = 0 /\ r_v_counter' = 0
    BY <1>1
  <2>3. Position' = 0
    BY <2>2 DEF Position
  <2>4. Hdmi!EmittedBefore' = 0
    BY <2>2 DEF Hdmi!EmittedBefore, Hdmi!s_v_visible, Hdmi!s_h_visible
  <2>5. QED BY <2>1, <2>3, <2>4
<1>2. CASE r_h_counter = HTotal - 1 /\ r_v_counter < VTotal - 1
  <2>1. r_h_counter' = 0 /\ r_v_counter' = r_v_counter + 1
    BY <1>2
  <2>2. (r_v_counter + 1) * HTotal <= (VTotal - 1) * HTotal
    BY <1>2
  <2>3. Position # HTotal * VTotal - 1
    BY <1>2, <2>2 DEF Position
  <2>4. Position' = Position + 1
    BY <1>2, <2>1 DEF Position
  <2>5. Hdmi!o_de = 0 /\ ~Hdmi!s_h_visible
    BY <1>2 DEF Hdmi!o_de, Hdmi!Bit, Hdmi!s_pixel_visible, Hdmi!s_h_visible
  <2>6. CASE r_v_counter + 1 < VVisible
    <3>1. Hdmi!EmittedBefore = r_v_counter * HVisible + HVisible
      BY <1>2, <2>6 DEF Hdmi!EmittedBefore, Hdmi!s_v_visible, Hdmi!s_h_visible, Hdmi!Pixels
    <3>2. Hdmi!EmittedBefore' = (r_v_counter + 1) * HVisible
      BY <2>1, <2>6 DEF Hdmi!EmittedBefore, Hdmi!s_v_visible, Hdmi!s_h_visible
    <3>3. QED BY <2>3, <2>4, <2>5, <3>1, <3>2
  <2>7. CASE r_v_counter + 1 = VVisible
    <3>1. Hdmi!EmittedBefore = r_v_counter * HVisible + HVisible
      BY <1>2, <2>7 DEF Hdmi!EmittedBefore, Hdmi!s_v_visible, Hdmi!s_h_visible, Hdmi!Pixels
    <3>2. Hdmi!EmittedBefore' = HVisible * VVisible
      BY <2>1, <2>7 DEF Hdmi!EmittedBefore, Hdmi!s_v_visible, Hdmi!Pixels
    <3>3. QED BY <2>3, <2>4, <2>5, <2>7, <3>1, <3>2
  <2>8. CASE r_v_counter + 1 > VVisible
    <3>1. Hdmi!EmittedBefore = Hdmi!Pixels /\ Hdmi!EmittedBefore' = Hdmi!Pixels /\ Hdmi!Pixels \in Nat
      BY <2>1, <2>8 DEF Hdmi!EmittedBefore, Hdmi!s_v_visible, Hdmi!Pixels
    <3>2. QED BY <2>3, <2>4, <2>5, <3>1
  <2>9. QED BY <2>6, <2>7, <2>8
<1>3. CASE r_h_counter < HTotal - 1
  <2>1. r_h_counter' = r_h_counter + 1 /\ r_v_counter' = r_v_counter
    BY <1>3
  <2>2. r_v_counter * HTotal <= (VTotal - 1) * HTotal
    OBVIOUS
  <2>3. Position # HTotal * VTotal - 1
    BY <1>3, <2>2 DEF Position
  <2>4. Position' = Position + 1
    BY <2>1 DEF Position
  <2>5. Hdmi!EmittedBefore' = Hdmi!EmittedBefore + Hdmi!o_de
    BY <2>1 DEF Hdmi!EmittedBefore, Hdmi!o_de, Hdmi!Bit, Hdmi!s_pixel_visible, Hdmi!s_h_visible, Hdmi!s_v_visible, Hdmi!Pixels
  <2>6. QED BY <2>3, <2>4, <2>5
<1>4. QED BY <1>1, <1>2, <1>3

\* ImplementsFrameScan: the nested counters drive exactly the raster of
\* FrameScan, for all timings: consecutive positions, sync pulses of the given
\* place and length, and an address bus that ranks the visible pixels.
THEOREM RefinesFrameScan == Hdmi!Spec => Hdmi!ImplementsFrameScan
<1>1. Hdmi!Init => Hdmi!Scan!Init
  <2> SUFFICES ASSUME Hdmi!Init PROVE Hdmi!Scan!Init
    OBVIOUS
  <2>1. r_h_counter = 0 /\ r_v_counter = 0 /\ s_rst_n = 0
    BY DEF Hdmi!Init
  <2>2. Position = 0
    BY <2>1, TimingFacts DEF Position
  <2>3. Hdmi!o_de = 1 /\ Hdmi!o_pixel_address = 0 /\ Hdmi!EmittedBefore = 0
    BY <2>1, TimingFacts
    DEF Hdmi!o_de, Hdmi!Bit, Hdmi!o_pixel_address, Hdmi!EmittedBefore, Hdmi!s_pixel_visible, Hdmi!s_h_visible, Hdmi!s_v_visible
  <2>4. Hdmi!o_hsync = 1 /\ Hdmi!o_vsync = 1
    BY <2>1, TimingFacts DEF Hdmi!o_hsync, Hdmi!o_vsync, Hdmi!Bit
  <2>5. QED BY <2>1, <2>2, <2>3, <2>4 DEF Hdmi!Scan!Init, Position
<1>2. Hdmi!TypeOK /\ Hdmi!TypeOK' /\ [Hdmi!Next]_(Hdmi!vars) => [Hdmi!Scan!Next]_(Hdmi!Scan!vars)
  <2> SUFFICES ASSUME Hdmi!TypeOK, Hdmi!TypeOK', [Hdmi!Next]_(Hdmi!vars)
               PROVE  [Hdmi!Scan!Next]_(Hdmi!Scan!vars)
    OBVIOUS
  <2>1. ASSUME NEW n, Hdmi!EmittedBefore' = n
        PROVE  Hdmi!Scan!Drive(Position', n)
    <3>1. /\ Hdmi!Scan!Visible(Position') <=> r_h_counter' < HVisible /\ r_v_counter' < VVisible
          /\ Hdmi!Scan!HPulse(Position') <=> /\ r_h_counter' >= HVisible + HFp
                                        /\ r_h_counter' < HVisible + HFp + HSync
          /\ Hdmi!Scan!VPulse(Position') <=> /\ r_v_counter' >= VVisible + VFp
                                        /\ r_v_counter' < VVisible + VFp + VSync
      BY ZonesOfPosition DEF Position, Hdmi!TypeOK
    <3>2. Hdmi!o_hsync' = IF Hdmi!Scan!HPulse(Position') THEN 0 ELSE 1
      BY <3>1 DEF Hdmi!o_hsync, Hdmi!Bit
    <3>3. Hdmi!o_vsync' = IF Hdmi!Scan!VPulse(Position') THEN 0 ELSE 1
      BY <3>1 DEF Hdmi!o_vsync, Hdmi!Bit
    <3>4. /\ Hdmi!o_de' = IF Hdmi!Scan!Visible(Position') THEN 1 ELSE 0
          /\ Hdmi!o_pixel_address' = IF Hdmi!Scan!Visible(Position') THEN n ELSE 0
      BY <2>1, <3>1, AddressIsRankNext
      DEF Hdmi!o_de, Hdmi!Bit, Hdmi!s_pixel_visible, Hdmi!s_h_visible, Hdmi!s_v_visible
    <3>5. QED BY <2>1, <3>2, <3>3, <3>4 DEF Hdmi!Scan!Drive, Position
  <2>2. CASE Hdmi!Tick
    <3>1. s_rst_n = 1 /\ s_rst_n' = s_rst_n
      BY <2>2 DEF Hdmi!Tick
    <3>2. CASE Position = HTotal * VTotal - 1
      <4>1. Position' = 0 /\ Hdmi!Scan!Drive(Position', 0)
        BY <2>1, <2>2, <3>2, TickAdvances
      <4>2. QED
        BY <3>1, <3>2, <4>1 DEF Hdmi!Scan!Next, Hdmi!Scan!Advance, Hdmi!Scan!FrameLength, Position
    <3>3. CASE Position # HTotal * VTotal - 1
      <4>1. Position' = Position + 1 /\ Hdmi!Scan!Drive(Position', Hdmi!EmittedBefore + Hdmi!o_de)
        BY <2>1, <2>2, <3>3, TickAdvances
      <4>2. QED
        BY <3>1, <3>3, <4>1 DEF Hdmi!Scan!Next, Hdmi!Scan!Advance, Hdmi!Scan!FrameLength, Position
    <3>4. QED BY <3>2, <3>3
  <2>3. CASE Hdmi!AssertReset
    <3>1. r_h_counter' = 0 /\ r_v_counter' = 0
      BY <2>3 DEF Hdmi!AssertReset
    <3>2. Position' = 0 /\ Hdmi!EmittedBefore' = 0
      BY <3>1, TimingFacts DEF Position, Hdmi!EmittedBefore, Hdmi!s_v_visible, Hdmi!s_h_visible
    <3>3. Hdmi!Scan!Drive(Position', 0)
      BY <2>1, <3>2
    <3>4. QED
      BY <2>3, <3>2, <3>3 DEF Hdmi!AssertReset, Hdmi!Scan!Next, Hdmi!Scan!Halt
  <2>4. CASE Hdmi!ReleaseReset
    BY <2>4
    DEF Hdmi!ReleaseReset, Hdmi!counters, Hdmi!Scan!Next, Hdmi!Scan!Resume, Hdmi!EmittedBefore, Hdmi!o_hsync, Hdmi!o_vsync,
        Hdmi!o_de, Hdmi!o_pixel_address, Hdmi!s_pixel_visible, Hdmi!s_h_visible, Hdmi!s_v_visible
  <2>5. CASE UNCHANGED Hdmi!vars
    BY <2>5
    DEF Hdmi!vars, Hdmi!Scan!vars, Hdmi!EmittedBefore, Hdmi!o_hsync, Hdmi!o_vsync,
        Hdmi!o_de, Hdmi!o_pixel_address, Hdmi!s_pixel_visible, Hdmi!s_h_visible, Hdmi!s_v_visible
  <2>6. QED BY <2>2, <2>3, <2>4, <2>5 DEF Hdmi!Next
<1>3. QED BY <1>1, <1>2, RasterTypeCorrect, PTL DEF Hdmi!Spec, Hdmi!ImplementsFrameScan, Hdmi!Scan!Spec

\* The reset of the raster is the lock of the PLL: the screen never moves the
\* counters of hdmi_ctrl but the way hdmi_controller.vhd alone would.
THEOREM ScreenRunsTheController == Spec => Hdmi!Spec
<1>1. Init => Hdmi!Init /\ ScanHeld
  BY DEF Init, Hdmi!Init, ScanHeld
<1>2. ScanHeld /\ [Next]_vars => ScanHeld'
  BY ScanHeldStep
<1>3. TypeOK /\ ScanHeld /\ [Next]_vars => [Hdmi!Next]_(Hdmi!vars)
  <2> SUFFICES ASSUME TypeOK, ScanHeld, [Next]_vars
               PROVE  [Hdmi!Next]_(Hdmi!vars)
    OBVIOUS
  <2>1. CASE Tick
    BY <2>1 DEF Tick, Hdmi!Next, Hdmi!Tick
  <2>2. CASE LoseLock
    BY <2>2 DEF LoseLock, ResetPixelDomain, Hdmi!Next, Hdmi!AssertReset
  <2>3. CASE PressReset
    BY <2>3 DEF PressReset, ResetPixelDomain, ScanHeld, TypeOK,
       Hdmi!Next, Hdmi!AssertReset, Hdmi!vars
  <2>4. CASE Lock
    BY <2>4 DEF Lock, scan, Hdmi!Next, Hdmi!ReleaseReset, Hdmi!counters
  <2>5. CASE UNCHANGED <<s_rst_n, scan>>
    BY <2>5 DEF scan, Hdmi!vars
  <2> QED
    BY <2>1, <2>2, <2>3, <2>4, <2>5
    DEF Next, TickUnlocked, ReleaseReset, TurnLeft, TurnRight, vars
<1> QED BY <1>1, <1>2, <1>3, TypeCorrect, PTL DEF Spec, Hdmi!Spec

\* Inside the whole screen, whatever the key, the PLL and the knobs do, the sink
\* sees the raster of FrameScan.
COROLLARY ScreenShowsFrameScan == Spec => RasterIsFrameScan
BY ScreenRunsTheController, RefinesFrameScan DEF RasterIsFrameScan
=============================================================================
