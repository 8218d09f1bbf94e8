---------------------------- MODULE MCAvalonI2c ----------------------------
(* The Avalon I2C master with FIFOs of two entries. *)
EXTENDS AvalonI2c
=============================================================================
