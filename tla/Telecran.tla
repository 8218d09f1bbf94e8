------------------------------ MODULE Telecran -------------------------------
(***************************************************************************)
(* telecran/telecran.vhd: the sketching screen.  Everything clocked by the *)
(* 27 MHz pixel clock moves together on its rising edges: the HDMI         *)
(* counters, the button detector, the FSM that clears the framebuffer, the *)
(* registers that write and display it, and its memory.  The two knob      *)
(* positions come from the 50 MHz domain and change between any two edges. *)
(*                                                                         *)
(* Two resets: i_rst_n is the board's key; s_rst_n is the PLL's lock, low  *)
(* while i_rst_n is and whenever lock is lost.  The drawing registers and  *)
(* the memory have no reset, and edges may come while there is no lock.    *)
(***************************************************************************)
EXTENDS Integers, Dpram

CONSTANTS
  HVisible, HFp, HSync, HBp, HTotal,    \* the raster: h_res is HVisible
  VVisible, VFp, VSync, VBp, VTotal,    \* and v_res is VVisible
  LeftPositions, RightPositions,        \* 2^10 and 2^8
  Arm,                                  \* arm of the cursor's cross
  TornReads                             \* may an edge catch a knob half changed?

ASSUME TelecranConstants ==
  /\ HVisible \in Nat \ {0} /\ HFp \in Nat /\ HSync \in Nat /\ HBp \in Nat
  /\ HTotal = HVisible + HFp + HSync + HBp /\ HVisible < HTotal
  /\ VVisible \in Nat \ {0} /\ VFp \in Nat /\ VSync \in Nat /\ VBp \in Nat
  /\ VTotal = VVisible + VFp + VSync + VBp
  /\ LeftPositions \in Nat \ {0} /\ RightPositions \in Nat \ {0}
  /\ Arm \in Nat
  /\ TornReads \in BOOLEAN

VARIABLES
  i_rst_n, s_rst_n,
  r_h_counter, r_v_counter,             \* in hdmi_ctrl
  s_left_position, s_right_position,    \* out of the two encoders
  left_was, right_was,                  \* the same at the last pixel clock edge
  v_btn_prev, r_clear_req,
  r_clear_state, r_clear_addr,
  s_ram_we_a, s_ram_addr_wr, s_ram_data_in,
  ram, s_ram_data_out,
  o_hdmi_tx_d,
  stale                                 \* history: ink a press has yet to clear

scan == <<r_h_counter, r_v_counter>>
knobs == <<s_left_position, s_right_position, left_was, right_was>>
button == <<v_btn_prev, r_clear_req>>
clearing == <<r_clear_state, r_clear_addr>>
writer == <<s_ram_we_a, s_ram_addr_wr, s_ram_data_in>>
memory == <<ram, s_ram_data_out>>
vars == <<i_rst_n, s_rst_n, scan, knobs, button, clearing, writer, memory,
          o_hdmi_tx_d, stale>>

Hdmi == INSTANCE HdmiController WITH i_rst_n <- s_rst_n
Left == INSTANCE Knob WITH Positions <- LeftPositions, position <- s_left_position
Right == INSTANCE Knob WITH Positions <- RightPositions, position <- s_right_position

-----------------------------------------------------------------------------
(* Combinational signals. *)

Pixels == 0 .. HVisible * VVisible - 1

s_x_counter == Hdmi!o_x_counter
s_y_counter == Hdmi!o_y_counter
s_pixel_visible == Hdmi!s_pixel_visible

\* A knob position scaled to a column or a line of the screen.
s_x_pixel(left) == (left * HVisible) \div LeftPositions
s_y_pixel(right) == (right * VVisible) \div RightPositions

\* Mutant: the read address is moved one pixel back along the line.
s_ram_addr_rd_Late ==
  s_y_counter * HVisible + (IF s_x_counter = 0 THEN 0 ELSE s_x_counter - 1)

s_ram_addr_rd == s_y_counter * HVisible + s_x_counter

Distance(a, b) == IF a < b THEN b - a ELSE a - b

\* Mutant: the horizontal arm is one pixel short.
OnCross_ShortArm(x, y, left, right) ==
  LET v_dx == Distance(x, s_x_pixel(left))
      v_dy == Distance(y, s_y_pixel(right))
  IN  (v_dy <= Arm /\ v_dx = 0) \/ (v_dx < Arm /\ v_dy = 0)

\* Is column x, line y part of the cross drawn around the knobs' pixel?
OnCross(x, y, left, right) ==
  LET v_dx == Distance(x, s_x_pixel(left))
      v_dy == Distance(y, s_y_pixel(right))
  IN  (v_dy <= Arm /\ v_dx = 0) \/ (v_dx <= Arm /\ v_dy = 0)

\* What an edge may read of a position that was p at the last edge and is q:
\* nothing synchronises its bits, so each is the old one or the new one.
BitOf(n, b) == (n \div 2^b) % 2
Seen(p, q, positions) ==
  IF TornReads
    THEN {m \in 0 .. positions - 1 :
            \A b \in 0 .. 9 : BitOf(m, b) \in {BitOf(p, b), BitOf(q, b)}}
    ELSE {q}

\* The screen as it is once the write in the registers has reached the memory.
portA == [we |-> s_ram_we_a, addr |-> s_ram_addr_wr, data |-> s_ram_data_in]
portB == [we |-> 0, addr |-> s_ram_addr_rd, data |-> 0]
Ink == {p \in Pixels : Write(ram, portA)[p] = 1}

-----------------------------------------------------------------------------
(* The processes of the pixel clock domain, for one rising edge. *)

\* Mutant: the request is dropped in DONE even when a press comes then.
p_button_detect_DoneFirst(i_left_pb) ==
  /\ r_clear_req' = IF r_clear_state = "DONE" THEN 0
                    ELSE IF v_btn_prev = 1 /\ i_left_pb = 0 THEN 1
                    ELSE r_clear_req
  /\ v_btn_prev' = i_left_pb

p_button_detect(i_left_pb) ==
  /\ r_clear_req' = IF v_btn_prev = 1 /\ i_left_pb = 0 THEN 1
                    ELSE IF r_clear_state = "DONE" THEN 0
                    ELSE r_clear_req
  /\ v_btn_prev' = i_left_pb

\* Mutant: the sweep stops one address early.
p_clear_fsm_Short ==
  \/ /\ r_clear_state = "IDLE"
     /\ IF r_clear_req = 1
          THEN r_clear_state' = "CLEARING" /\ r_clear_addr' = 0
          ELSE UNCHANGED clearing
  \/ /\ r_clear_state = "CLEARING"
     /\ IF r_clear_addr < HVisible * VVisible - 2
          THEN r_clear_addr' = r_clear_addr + 1 /\ UNCHANGED r_clear_state
          ELSE r_clear_state' = "DONE" /\ UNCHANGED r_clear_addr
  \/ /\ r_clear_state = "DONE"
     /\ r_clear_state' = "IDLE" /\ UNCHANGED r_clear_addr

p_clear_fsm ==
  \/ /\ r_clear_state = "IDLE"
     /\ IF r_clear_req = 1
          THEN r_clear_state' = "CLEARING" /\ r_clear_addr' = 0
          ELSE UNCHANGED clearing
  \/ /\ r_clear_state = "CLEARING"
     /\ IF r_clear_addr < HVisible * VVisible - 1
          THEN r_clear_addr' = r_clear_addr + 1 /\ UNCHANGED r_clear_state
          ELSE r_clear_state' = "DONE" /\ UNCHANGED r_clear_addr
  \/ /\ r_clear_state = "DONE"
     /\ r_clear_state' = "IDLE" /\ UNCHANGED r_clear_addr

\* Mutant: clearing forgets to put a 0 in the data register.
WriteRegisters_KeepsData(cursor) ==
  IF r_clear_state = "CLEARING"
    THEN s_ram_we_a' = 1 /\ s_ram_addr_wr' = r_clear_addr /\ UNCHANGED s_ram_data_in
  ELSE IF s_pixel_visible /\ cursor
    THEN /\ s_ram_we_a' = 1 /\ s_ram_data_in' = 1
         /\ s_ram_addr_wr' = s_y_counter * HVisible + s_x_counter
  ELSE s_ram_we_a' = 0 /\ UNCHANGED <<s_ram_addr_wr, s_ram_data_in>>

\* The write registers: clearing goes before drawing.  The address and data
\* keep their values when nothing is written.
WriteRegisters(cursor) ==
  IF r_clear_state = "CLEARING"
    THEN s_ram_we_a' = 1 /\ s_ram_addr_wr' = r_clear_addr /\ s_ram_data_in' = 0
  ELSE IF s_pixel_visible /\ cursor
    THEN /\ s_ram_we_a' = 1 /\ s_ram_data_in' = 1
         /\ s_ram_addr_wr' = s_y_counter * HVisible + s_x_counter
  ELSE s_ram_we_a' = 0 /\ UNCHANGED <<s_ram_addr_wr, s_ram_data_in>>

\* The colour register: cursor before ink before background.
Colour(cursor) ==
  IF ~s_pixel_visible THEN "black"
  ELSE IF cursor THEN "white"
  ELSE IF s_ram_data_out = 1 THEN "green"
  ELSE "black"

p_framebuffer ==
  \E left \in Seen(left_was, s_left_position, LeftPositions),
     right \in Seen(right_was, s_right_position, RightPositions) :
    LET v_is_cursor == OnCross(s_x_counter, s_y_counter, left, right)
    IN  /\ WriteRegisters(v_is_cursor)
        /\ o_hdmi_tx_d' = Colour(v_is_cursor)

framebuffer ==
  \E after \in Edge(ram, portA, portB) :
    ram' = after.ram /\ s_ram_data_out' = after.q_b

\* The processes without a reset, which run on every edge.
Unreset ==
  /\ p_framebuffer /\ framebuffer
  /\ left_was' = s_left_position /\ right_was' = s_right_position

-----------------------------------------------------------------------------
(* Declarations give initial values to the FSM and the counters only.  The   *)
(* memory and the drawing registers start with anything.                     *)
Init ==
  /\ i_rst_n \in {0, 1} /\ s_rst_n = 0
  /\ r_h_counter = 0 /\ r_v_counter = 0
  /\ s_left_position = 0 /\ s_right_position = 0
  /\ left_was = 0 /\ right_was = 0
  /\ v_btn_prev = 1 /\ r_clear_req = 0
  /\ r_clear_state = "IDLE" /\ r_clear_addr = 0
  /\ s_ram_we_a \in {0, 1} /\ s_ram_addr_wr \in Pixels /\ s_ram_data_in \in {0, 1}
  /\ ram \in [Pixels -> {0, 1}] /\ s_ram_data_out \in {0, 1}
  /\ o_hdmi_tx_d \in {"black", "white", "green"}
  /\ stale = {}

\* What a press has yet to clear: all the ink there is, when it comes.
Remember(i_left_pb) ==
  stale' = IF v_btn_prev = 1 /\ i_left_pb = 0 THEN Ink' ELSE stale \cap Ink'

Tick ==
  /\ s_rst_n = 1
  /\ Hdmi!p_counters /\ p_clear_fsm /\ Unreset
  /\ \E i_left_pb \in {0, 1} : p_button_detect(i_left_pb) /\ Remember(i_left_pb)
  /\ UNCHANGED <<i_rst_n, s_rst_n, s_left_position, s_right_position>>

\* An edge of s_clk_27 while the PLL is not locked.
TickUnlocked ==
  /\ s_rst_n = 0
  /\ Unreset
  /\ UNCHANGED <<i_rst_n, s_rst_n, scan, s_left_position, s_right_position,
                 button, clearing, stale>>

\* Mutant: the counters are not told that the lock is lost.
ResetPixelDomain_KeepsScan ==
  /\ s_rst_n' = 0
  /\ UNCHANGED scan
  /\ v_btn_prev' = 1 /\ r_clear_req' = 0
  /\ r_clear_state' = "IDLE" /\ r_clear_addr' = 0
  /\ stale' = {}
  /\ UNCHANGED <<writer, memory, o_hdmi_tx_d>>

\* Everything s_rst_n resets; a clear in progress is forgotten.
ResetPixelDomain ==
  /\ s_rst_n' = 0
  /\ r_h_counter' = 0 /\ r_v_counter' = 0
  /\ v_btn_prev' = 1 /\ r_clear_req' = 0
  /\ r_clear_state' = "IDLE" /\ r_clear_addr' = 0
  /\ stale' = {}
  /\ UNCHANGED <<writer, memory, o_hdmi_tx_d>>

LoseLock == s_rst_n = 1 /\ ResetPixelDomain /\ UNCHANGED <<i_rst_n, knobs>>

Lock ==
  /\ i_rst_n = 1 /\ s_rst_n = 0
  /\ s_rst_n' = 1
  /\ UNCHANGED <<i_rst_n, scan, knobs, button, clearing, writer, memory,
                 o_hdmi_tx_d, stale>>

\* The last value read of a knob matters only to torn reads.
Leave(position) == IF TornReads THEN position ELSE position'

\* The key resets the encoders too, and makes the PLL lose its lock.
PressReset ==
  /\ Left!Reset /\ Right!Reset
  /\ ResetPixelDomain
  /\ left_was' = Leave(s_left_position) /\ right_was' = Leave(s_right_position)

ReleaseReset ==
  /\ i_rst_n = 0 /\ i_rst_n' = 1
  /\ UNCHANGED <<s_rst_n, scan, knobs, button, clearing, writer, memory,
                 o_hdmi_tx_d, stale>>

\* An encoder counts one position up or down, wrapping at the ends.
TurnLeft(d) ==
  /\ Left!Turn(d)
  /\ left_was' = Leave(s_left_position)
  /\ UNCHANGED <<s_rst_n, scan, s_right_position, right_was, button,
                 clearing, writer, memory, o_hdmi_tx_d, stale>>

TurnRight(d) ==
  /\ Right!Turn(d)
  /\ right_was' = Leave(s_right_position)
  /\ UNCHANGED <<s_rst_n, scan, s_left_position, left_was, button,
                 clearing, writer, memory, o_hdmi_tx_d, stale>>

Next ==
  \/ Tick \/ TickUnlocked
  \/ LoseLock \/ Lock \/ PressReset \/ ReleaseReset
  \/ \E d \in {-1, 1} : TurnLeft(d) \/ TurnRight(d)

Spec == Init /\ [][Next]_vars

\* The pixel clock runs whenever the PLL is locked.
FairSpec == Spec /\ WF_vars(Tick)

-----------------------------------------------------------------------------
(* Properties. *)

\* Every signal keeps the range its declaration gives it: an address or a
\* scaled position outside would be an error of the simulation.
TypeOK ==
  /\ i_rst_n \in {0, 1} /\ s_rst_n \in {0, 1}
  /\ i_rst_n = 0 => s_rst_n = 0
  /\ r_h_counter \in 0 .. HTotal - 1 /\ r_v_counter \in 0 .. VTotal - 1
  /\ s_left_position \in 0 .. LeftPositions - 1
  /\ s_right_position \in 0 .. RightPositions - 1
  /\ left_was \in 0 .. LeftPositions - 1 /\ right_was \in 0 .. RightPositions - 1
  /\ s_x_pixel(s_left_position) \in 0 .. HVisible - 1
  /\ s_y_pixel(s_right_position) \in 0 .. VVisible - 1
  /\ v_btn_prev \in {0, 1} /\ r_clear_req \in {0, 1}
  /\ r_clear_state \in {"IDLE", "CLEARING", "DONE"} /\ r_clear_addr \in Pixels
  /\ s_ram_we_a \in {0, 1} /\ s_ram_addr_wr \in Pixels /\ s_ram_data_in \in {0, 1}
  /\ s_ram_addr_rd \in Pixels
  /\ ram \in [Pixels -> {0, 1}] /\ s_ram_data_out \in {0, 1}
  /\ o_hdmi_tx_d \in {"black", "white", "green"}
  /\ stale \subseteq Pixels

\* The sink sees one raster without a gap, though the lock may be lost and the key
\* pressed in the middle of a frame, and edges come before there is a lock again.
\* [hdmi_ctrl, reset by s_rst_n]
RasterIsFrameScan == Hdmi!ImplementsFrameScan

\* Whenever no clear is owed, all the ink there was at the last press is gone,
\* even if it was being written as the press came, or a press came in the
\* middle of a clear and was answered by that one.
ClearErasesAll == r_clear_req = 0 => stale = {}

\* Behind the sweep the screen stays dark: the drawing that was on its way as
\* the clear began does not survive it, and nothing is drawn in the meantime.
SweptIsDark ==
  /\ r_clear_state = "CLEARING" => Ink \cap 0 .. r_clear_addr - 1 = {}
  /\ r_clear_state = "DONE" => Ink = {}

\* The pixels of the cross around a knob position, clipped to the screen.
Cross(left, right) ==
  LET x == s_x_pixel(left)
      y == s_y_pixel(right)
  IN  {y * HVisible + h : h \in (x - Arm .. x + Arm) \cap 0 .. HVisible - 1}
        \cup {v * HVisible + x : v \in (y - Arm .. y + Arm) \cap 0 .. VVisible - 1}

\* Where the pen is: an edge that comes as a knob changes may still see it at
\* the position it leaves.
UnderPen == UNION {Cross(left, right) : left \in {left_was, s_left_position},
                                        right \in {right_was, s_right_position}}

\* A pixel is inked only where the knobs are, and never during a clear: the
\* scan counters, the write address and the cross agree on every pixel.
InkOnlyUnderPen ==
  [][\A p \in Ink' \ Ink : p \in UnderPen /\ r_clear_state # "CLEARING"]_vars

\* A pixel being drawn is not read for display on the same edge, where the
\* order of the two accesses would be undefined.  Only a reset that sends the
\* scan back to the first pixel can make them meet.
NoReadDuringDraw ==
  s_ram_we_a = 1 /\ s_ram_data_in = 1 /\ s_ram_addr_wr = s_ram_addr_rd
    => r_h_counter = 0 /\ r_v_counter = 0

\* If the knobs rest and no clear runs any more, the whole of their cross ends
\* up on the screen, to stay.
PenLeavesItsMark ==
  \A left \in 0 .. LeftPositions - 1, right \in 0 .. RightPositions - 1 :
    <>[](/\ s_rst_n = 1 /\ r_clear_state = "IDLE" /\ r_clear_req = 0
         /\ s_left_position = left /\ s_right_position = right)
      => <>[](Cross(left, right) \subseteq Ink)

\* Every press blanks the screen at some moment, unless a reset interferes.
PressBlanksScreen == r_clear_req = 1 ~> (Ink = {} \/ s_rst_n = 0)
=============================================================================
