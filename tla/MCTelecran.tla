----------------------------- MODULE MCTelecran ------------------------------
(* A screen of 2 by 2 pixels in a frame of 3 by 3, the knobs of 3 and 2      *)
(* positions, as the knobs' ranges exceed the screen's width in the source.  *)
EXTENDS Telecran
=============================================================================
