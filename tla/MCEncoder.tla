------------------------------ MODULE MCEncoder ------------------------------
(* Four visible positions, on which a step on, a step back and a jump differ, *)
(* and sixteen counts: from nine quarter steps on one side to nine on the     *)
(* other the counter wraps.  Three of them may come between two samples.      *)
EXTENDS Encoder
=============================================================================
