------------------------------- MODULE MCHdmi -------------------------------
(* A raster of 6 x 5 visible pixels in a frame of 11 x 10, with porches and  *)
(* pulses of different lengths.                                              *)
EXTENDS HdmiController
=============================================================================
