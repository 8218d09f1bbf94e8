----------------------------- MODULE FrameScan ------------------------------
(***************************************************************************)
(* What a 480p source promises its sink, with no counters of lines and     *)
(* columns: a frame is one run of HTotal * VTotal clock periods; the sync  *)
(* pulses are slices of it; the address bus numbers the visible pixels of  *)
(* the frame one after the other.  HdmiController implements it.           *)
(***************************************************************************)
EXTENDS Integers

CONSTANTS
  HVisible, HFp, HSync, HBp, HTotal, VVisible, VFp, VSync, VBp, VTotal

VARIABLES
  running,    \* 0 while the source is held in reset
  pos,        \* clock periods since the frame began
  emitted,    \* visible pixels of the frame before this period
  hsync, vsync, de, address

vars == <<running, pos, emitted, hsync, vsync, de, address>>

FrameLength == HTotal * VTotal

\* Column and line of a position, and the slices of a frame.
Column(p) == p % HTotal
Line(p) == p \div HTotal
Visible(p) == Column(p) \in 0 .. HVisible - 1 /\ Line(p) \in 0 .. VVisible - 1
HPulse(p) == Column(p) - HVisible - HFp \in 0 .. HSync - 1
VPulse(p) == Line(p) - VVisible - VFp \in 0 .. VSync - 1

\* The signals at position p when n visible pixels came before it.
Drive(p, n) ==
  /\ pos' = p
  /\ emitted' = n
  /\ hsync' = IF HPulse(p) THEN 0 ELSE 1
  /\ vsync' = IF VPulse(p) THEN 0 ELSE 1
  /\ de' = IF Visible(p) THEN 1 ELSE 0
  /\ address' = IF Visible(p) THEN n ELSE 0

Init ==
  /\ running = 0
  /\ pos = 0 /\ emitted = 0
  /\ hsync = 1 /\ vsync = 1
  /\ de = 1
  /\ address = 0

Advance ==
  /\ running = 1 /\ UNCHANGED running
  /\ IF pos = FrameLength - 1
       THEN Drive(0, 0)
       ELSE Drive(pos + 1, emitted + de)

Halt == running = 1 /\ running' = 0 /\ Drive(0, 0)

Resume ==
  /\ running = 0 /\ running' = 1
  /\ UNCHANGED <<pos, emitted, hsync, vsync, de, address>>

Next == Advance \/ Halt \/ Resume

Spec == Init /\ [][Next]_vars
=============================================================================
