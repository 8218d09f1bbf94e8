---------------------------- MODULE MCInterrupts ----------------------------
(* The timer, two device lines of which the JTAG UART has the first, two handlers. *)
EXTENDS Interrupts
=============================================================================
