--------------------------- MODULE MCSystemClock ---------------------------
\* Two alarms, a word of two bits: the low word of mtime wraps, and the timer
\* ticks every few steps of its own handler.
EXTENDS SystemClock
=============================================================================
