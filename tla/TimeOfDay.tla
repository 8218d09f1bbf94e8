----------------------------- MODULE TimeOfDay -----------------------------
(***************************************************************************)
(* The wall clock of the HAL (alt_settod.c, alt_gettod.c): nothing but the *)
(* time at reset is kept, alt_resettime, and the ticks since are added to  *)
(* it when the time is asked for.  n is the number of ticks since reset.   *)
(***************************************************************************)
EXTENDS Integers

CONSTANTS
  US,                   \* ALT_US, microseconds in a second
  RATE                  \* _alt_tick_rate, ticks in a second

ASSUME TimeConstants ==
  /\ RATE \in Nat \ {0} /\ US \in Nat /\ US \div RATE \in Nat \ {0}
  /\ US = RATE * (US \div RATE)

\* What the ticks add to a second that is running.
Part(n) == (n * (US \div RATE)) % US

\* settimeofday: alt_resettime, whose microseconds may be negative.
Settod(t, n) == [sec |-> t.sec - n \div RATE, usec |-> t.usec - Part(n)]

\* Mutant: a second is not borrowed.
Normal_Cut(sec, usec) ==
  IF usec < 0 THEN [sec |-> sec, usec |-> 0]
  ELSE IF usec >= US THEN [sec |-> sec + 1, usec |-> usec - US]
  ELSE [sec |-> sec, usec |-> usec]

\* The loops of gettimeofday, which run once at most: settimeofday leaves
\* alt_resettime less than a second away.
Normal(sec, usec) ==
  IF usec < 0
  THEN IF sec <= 0 THEN [sec |-> 0, usec |-> 0]
       ELSE [sec |-> sec - 1, usec |-> usec + US]
  ELSE IF usec >= US THEN [sec |-> sec + 1, usec |-> usec - US]
  ELSE [sec |-> sec, usec |-> usec]

\* gettimeofday.
Gettod(reset, n) == Normal(reset.sec + n \div RATE, reset.usec + Part(n))

InMicroseconds(t) == t.sec * US + t.usec
=============================================================================
