-------------------------------- MODULE Knob ---------------------------------
(***************************************************************************)
(* What an encoder promises the screen, whatever is done to its shaft: a   *)
(* position that moves one at a time round a ring, and goes back to zero   *)
(* with the reset.  Encoder implements it; Telecran is built on two.       *)
(***************************************************************************)
EXTENDS Integers

CONSTANT Positions

VARIABLES i_rst_n, position

vars == <<i_rst_n, position>>

Init == i_rst_n \in {0, 1} /\ position = 0

Turn(d) ==
  /\ i_rst_n = 1 /\ UNCHANGED i_rst_n
  /\ position' = (position + d) % Positions

Reset == i_rst_n = 1 /\ i_rst_n' = 0 /\ position' = 0

Release == i_rst_n = 0 /\ i_rst_n' = 1 /\ UNCHANGED position

Next == Reset \/ Release \/ \E d \in {-1, 1} : Turn(d)

Spec == Init /\ [][Next]_vars
=============================================================================
