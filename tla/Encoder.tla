------------------------------- MODULE Encoder -------------------------------
(***************************************************************************)
(* telecran/encoder.vhd: a quadrature decoder in the 50 MHz domain.        *)
(*                                                                         *)
(* A Tick is one rising edge of i_clk with i_rst_n high; the processes     *)
(* p_sample and p_decode both run on it, each reading the values the       *)
(* signals had before the edge.  A reset is asynchronous.  The knob turns  *)
(* by quarter steps whenever it likes, contact bounce included: what is    *)
(* bounded is only how far it gets from where it was last sampled.         *)
(*                                                                         *)
(* Names that HdmiConfig has too carry "Encoder" here: Clock50Proofs       *)
(* extends both modules.                                                   *)
(***************************************************************************)
EXTENDS Integers

CONSTANTS
  Positions,      \* 2^g_counter_width, the values of o_position
  SamplePeriod,   \* c_sample_period
  MaxTravel,      \* quarter steps the knob may go between two samples
  Reach           \* bound: the knob stays in -Reach .. Reach quarter steps

ASSUME EncoderConstants ==
  /\ Positions \in Nat \ {0}
  /\ SamplePeriod \in Nat \ {0}
  /\ MaxTravel \in Nat
  /\ Reach \in Nat

\* r_position has two bits more than o_position.
Counts == 4 * Positions

VARIABLES
  i_rst_n,
  shaft,          \* where the knob really is, in quarter steps
  r_sample_cnt, s_sample,
  r_state, r_state_prev,
  r_position,
  \* History: the shaft positions that r_state and r_state_prev stand for, how
  \* many samples were taken since the reset (2 stands for two or more), and
  \* the shaft position at which the count is zero; and whether the shaft went
  \* further than a quarter step between two samples.
  sampled, decoded, samples, origin, hasty

sampler == <<r_sample_cnt, s_sample>>
decoder == <<r_state, r_state_prev, r_position>>
history == <<sampled, decoded, samples, origin, hasty>>
encoderVars == <<i_rst_n, shaft, sampler, decoder, history>>

-----------------------------------------------------------------------------
GrayCodes == {"00", "01", "11", "10"}

\* The channels A and B of a knob at position q: i_ch_a & i_ch_b.
Gray(q) == CASE q % 4 = 0 -> "00"
             [] q % 4 = 1 -> "01"
             [] q % 4 = 2 -> "11"
             [] q % 4 = 3 -> "10"

\* Mutant: one of the eight transitions is missing from the case statement.
Clockwise_NoWrap == {<<"00", "01">>, <<"01", "11">>, <<"11", "10">>}

\* The values of v_transition that count up, and those that count down.
Clockwise == {<<"00", "01">>, <<"01", "11">>, <<"11", "10">>, <<"10", "00">>}
Anticlockwise == {<<"00", "10">>, <<"10", "11">>, <<"11", "01">>, <<"01", "00">>}

Transition ==
  IF <<r_state_prev, r_state>> \in Clockwise THEN 1
  ELSE IF <<r_state_prev, r_state>> \in Anticlockwise THEN -1
  ELSE 0

\* Mutant: the slice of r_position is one bit too low.
o_position_LowSlice == r_position \div 2

o_position == r_position \div 4

\* The decoder takes the knob to have been at 00 when the reset was released.
\* This is the position it then calls zero, from the first sample it takes; a
\* knob found two quarter steps away, at 11, is not seen to have moved.
ZeroFor(q) == CASE q % 4 \in {0, 2} -> q
                [] q % 4 = 1 -> q - 1
                [] q % 4 = 3 -> q + 1

-----------------------------------------------------------------------------
\* The declarations of the source give the signals their reset values.
EncoderInit ==
  /\ i_rst_n \in {0, 1}
  /\ shaft \in 0 .. 3
  /\ r_sample_cnt = 0 /\ s_sample = 0
  /\ r_state = "00" /\ r_state_prev = "00" /\ r_position = 0
  /\ sampled = 0 /\ decoded = 0 /\ samples = 0 /\ origin = 0
  /\ hasty = 0

p_sample ==
  IF r_sample_cnt = SamplePeriod - 1
    THEN r_sample_cnt' = 0 /\ s_sample' = 1
    ELSE r_sample_cnt' = r_sample_cnt + 1 /\ s_sample' = 0

p_decode ==
  IF s_sample = 1
    THEN /\ r_state' = Gray(shaft)
         /\ r_position' = (r_position + Transition) % Counts
         /\ r_state_prev' = r_state
    ELSE UNCHANGED decoder

\* What the history variables remember of a sample.
Remember ==
  IF s_sample = 1
    THEN /\ sampled' = shaft
         /\ decoded' = IF samples = 0 THEN decoded ELSE sampled
         /\ samples' = IF samples = 0 THEN 1 ELSE 2
         /\ origin' = IF samples = 0 THEN ZeroFor(shaft) ELSE origin
         /\ UNCHANGED hasty
    ELSE UNCHANGED history

Tick ==
  /\ i_rst_n = 1
  /\ p_sample /\ p_decode /\ Remember
  /\ UNCHANGED <<i_rst_n, shaft>>

\* Mutant: r_state_prev is missing from the reset branch.
AssertEncoderReset_KeepsPrev ==
  /\ i_rst_n = 1
  /\ i_rst_n' = 0
  /\ r_sample_cnt' = 0 /\ s_sample' = 0
  /\ r_state' = "00" /\ r_position' = 0 /\ UNCHANGED r_state_prev
  /\ sampled' = 0 /\ decoded' = 0 /\ samples' = 0 /\ origin' = 0
  /\ hasty' = 0
  /\ UNCHANGED shaft

AssertEncoderReset ==
  /\ i_rst_n = 1
  /\ i_rst_n' = 0
  /\ r_sample_cnt' = 0 /\ s_sample' = 0
  /\ r_state' = "00" /\ r_state_prev' = "00" /\ r_position' = 0
  /\ sampled' = 0 /\ decoded' = 0 /\ samples' = 0 /\ origin' = 0
  /\ hasty' = 0
  /\ UNCHANGED shaft

ReleaseEncoderReset ==
  /\ i_rst_n = 0
  /\ i_rst_n' = 1
  /\ UNCHANGED <<shaft, sampler, decoder, history>>

Near(p, q, travel) == p - q \in -travel .. travel

\* The knob turns by a quarter step; until the first sample it turns freely.
Turn(q) ==
  /\ q \in {shaft - 1, shaft + 1}
  /\ samples # 0 => Near(q, sampled, MaxTravel)
  /\ shaft' = q
  /\ hasty' = IF samples # 0 /\ ~Near(q, sampled, 1) THEN 1 ELSE hasty
  /\ UNCHANGED <<i_rst_n, sampler, decoder, sampled, decoded, samples, origin>>

EncoderNext ==
  \/ Tick \/ AssertEncoderReset \/ ReleaseEncoderReset
  \/ \E q \in -Reach .. Reach : Turn(q)

EncoderSpec == EncoderInit /\ [][EncoderNext]_encoderVars

-----------------------------------------------------------------------------
(* Properties. *)

\* The counters keep the ranges of their declarations, and a sample pulse
\* comes exactly as the divider starts again.
EncoderTypeOK ==
  /\ i_rst_n \in {0, 1}
  /\ shaft \in Int
  /\ r_sample_cnt \in 0 .. SamplePeriod - 1
  /\ s_sample \in {0, 1}
  /\ s_sample = 1 => r_sample_cnt = 0
  /\ r_state \in GrayCodes /\ r_state_prev \in GrayCodes
  /\ r_position \in 0 .. Counts - 1
  /\ sampled \in Int /\ decoded \in Int /\ origin \in Int
  /\ samples \in 0 .. 2 /\ hasty \in {0, 1}

\* No count is lost or invented over any sequence of turns, reversals, bounces
\* and wraps, as long as the knob makes no more than one quarter step between
\* two samples: the count is the shaft's distance from where it was zeroed,
\* modulo the counter's width.
PositionFollowsShaft ==
  samples = 2 /\ hasty = 0 => r_position = (decoded - origin) % Counts

\* However fast the knob turns, what undersampling loses is an even number of
\* quarter steps: the parity of the count never parts from the parity of the
\* shaft, so a knob that comes to rest is off by half detents, never quarters.
DriftIsEven ==
  samples = 2 => (r_position - (decoded - origin)) % 2 = 0

\* The screen sees a knob that moves one position at a time, however fast the
\* shaft turns and however much the contacts bounce.
Dial == INSTANCE Knob WITH position <- o_position
ImplementsKnob == Dial!Spec

=============================================================================
