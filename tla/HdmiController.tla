--------------------------- MODULE HdmiController ---------------------------
(***************************************************************************)
(* telecran/hdmi_controller.vhd: two nested counters in the 27 MHz domain  *)
(* and the combinational outputs derived from them.                        *)
(*                                                                         *)
(* A step Tick is one rising edge of i_clk with i_rst_n high.  The reset   *)
(* is asynchronous: asserting i_rst_n low clears the counters at once, and *)
(* clock edges that come while it is low leave them cleared.               *)
(***************************************************************************)
EXTENDS Integers

CONSTANTS
  HVisible, HFp, HSync, HBp, HTotal,    \* horizontal zones, in pixels
  VVisible, VFp, VSync, VBp, VTotal     \* vertical zones, in lines

\* c_h_total and c_v_total are literals of their own in the source; the
\* comments beside them give the sums assumed here.
ASSUME HTimings ==
  /\ HVisible \in Nat \ {0} /\ HFp \in Nat /\ HSync \in Nat /\ HBp \in Nat
  /\ HTotal = HVisible + HFp + HSync + HBp
  /\ HFp + HSync + HBp > 0

ASSUME VTimings ==
  /\ VVisible \in Nat \ {0} /\ VFp \in Nat /\ VSync \in Nat /\ VBp \in Nat
  /\ VTotal = VVisible + VFp + VSync + VBp

VARIABLES
  i_rst_n,        \* active low reset: 0 holds the counters cleared
  r_h_counter,
  r_v_counter

counters == <<r_h_counter, r_v_counter>>
vars == <<i_rst_n, r_h_counter, r_v_counter>>

-----------------------------------------------------------------------------
(* Combinational outputs.  A std_logic signal is 0 or 1. *)

Bit(condition) == IF condition THEN 1 ELSE 0

s_h_visible == r_h_counter < HVisible
s_v_visible == r_v_counter < VVisible
s_pixel_visible == s_h_visible /\ s_v_visible

\* The two sync outputs are active low.
o_hsync == Bit(~(/\ r_h_counter >= HVisible + HFp
                 /\ r_h_counter < HVisible + HFp + HSync))
o_vsync == Bit(~(/\ r_v_counter >= VVisible + VFp
                 /\ r_v_counter < VVisible + VFp + VSync))

o_de == Bit(s_pixel_visible)

o_x_counter == IF s_h_visible THEN r_h_counter ELSE 0
o_y_counter == IF s_v_visible THEN r_v_counter ELSE 0

o_pixel_address ==
  IF s_pixel_visible THEN r_v_counter * HVisible + r_h_counter ELSE 0

-----------------------------------------------------------------------------
Init == i_rst_n = 0 /\ r_h_counter = 0 /\ r_v_counter = 0

\* Mutant: the line counter is incremented where the visible zone ends.
p_counters_EarlyCarry ==
  /\ r_h_counter' = IF r_h_counter = HTotal - 1 THEN 0 ELSE r_h_counter + 1
  /\ r_v_counter' = IF r_h_counter = HVisible - 1
                      THEN (IF r_v_counter = VTotal - 1 THEN 0 ELSE r_v_counter + 1)
                      ELSE r_v_counter

\* The body of p_counters for one rising edge.
p_counters ==
  IF r_h_counter = HTotal - 1
    THEN /\ r_h_counter' = 0
         /\ r_v_counter' = IF r_v_counter = VTotal - 1 THEN 0 ELSE r_v_counter + 1
    ELSE /\ r_h_counter' = r_h_counter + 1
         /\ UNCHANGED r_v_counter

Tick == i_rst_n = 1 /\ p_counters /\ UNCHANGED i_rst_n

AssertReset ==
  /\ i_rst_n = 1
  /\ i_rst_n' = 0
  /\ r_h_counter' = 0 /\ r_v_counter' = 0

ReleaseReset == i_rst_n = 0 /\ i_rst_n' = 1 /\ UNCHANGED counters

Next == Tick \/ AssertReset \/ ReleaseReset

Spec == Init /\ [][Next]_vars

-----------------------------------------------------------------------------
(* Properties. *)

\* The counters stay in the integer ranges the source declares for them, and
\* hold zero as long as the reset is asserted.
TypeOK ==
  /\ i_rst_n \in {0, 1}
  /\ r_h_counter \in 0 .. HTotal - 1
  /\ r_v_counter \in 0 .. VTotal - 1
  /\ i_rst_n = 0 => r_h_counter = 0 /\ r_v_counter = 0

-----------------------------------------------------------------------------
(* Refinement: the controller drives the raster FrameScan describes. *)

Pixels == HVisible * VVisible

\* How many visible pixels of the frame were emitted before this position.
EmittedBefore ==
  IF s_v_visible
    THEN r_v_counter * HVisible + (IF s_h_visible THEN r_h_counter ELSE HVisible)
    ELSE Pixels

Scan == INSTANCE FrameScan WITH
  running <- i_rst_n,
  pos     <- r_v_counter * HTotal + r_h_counter,
  emitted <- EmittedBefore,
  hsync   <- o_hsync,
  vsync   <- o_vsync,
  de      <- o_de,
  address <- o_pixel_address

\* Every step of the controller is a step of the raster: positions follow
\* each other without a gap, the sync pulses have the stated place and length,
\* and the address bus carries the rank of the visible pixel in its frame.
ImplementsFrameScan == Scan!Spec
=============================================================================
