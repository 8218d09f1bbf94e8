--------------------------- MODULE Clock50Proofs ----------------------------
(***************************************************************************)
(* Theorems about the two designs telecran.vhd runs on the 50 MHz clock,   *)
(* which share that clock and nothing else: Encoder, for every width,      *)
(* sampling period and reach, and HdmiConfig, for every size of the table. *)
(*                                                                         *)
(* Encoder.  What the decoder remembers is the Gray code of positions the  *)
(* shaft had, which ties its two state registers to the history variables  *)
(* (PhaseInv).  From there one arithmetic fact about a Gray cycle does the *)
(* work: the transition counted between two codes is the distance of the   *)
(* positions behind them when that is at most one, and has its parity      *)
(* always.                                                                 *)
(*                                                                         *)
(* HdmiConfig.  The FSM and the writer see each other one edge late, by    *)
(* levels.  What keeps them in step is which states of the one go with     *)
(* which states of the other (Handshake), and what the writer has on its   *)
(* way (InFlight).                                                         *)
(***************************************************************************)
EXTENDS Encoder, HdmiConfig, TLAPS, SequenceTheorems

-----------------------------------------------------------------------------
(* The encoder.                                                            *)

\* The decoder's registers hold what was sampled; before two samples they
\* still hold the code 00 of the reset.
PhaseInv ==
  /\ samples = 0 => r_state = "00" /\ r_state_prev = "00" /\ r_position = 0
  /\ samples = 1 => /\ r_state = Gray(sampled) /\ r_state_prev = "00"
                    /\ r_position = 0 /\ origin = ZeroFor(sampled)
  /\ samples = 2 => r_state = Gray(sampled) /\ r_state_prev = Gray(decoded)

\* While the knob was never too fast, the positions behind the registers are
\* neighbours.
TravelInv ==
  /\ samples # 0 /\ hasty = 0 => Near(shaft, sampled, 1)
  /\ samples = 2 /\ hasty = 0 => Near(sampled, decoded, 1)

Count(before, after) ==
  IF <<before, after>> \in Clockwise THEN 1
  ELSE IF <<before, after>> \in Anticlockwise THEN -1
  ELSE 0

-----------------------------------------------------------------------------
(* The Gray cycle. *)

LEMMA GrayType == ASSUME NEW q \in Int PROVE Gray(q) \in GrayCodes
  BY DEF Gray, GrayCodes

\* Neighbouring positions: what is counted is how far the shaft went.
LEMMA CountOfNeighbours ==
  ASSUME NEW p \in Int, NEW q \in Int, q - p \in -1 .. 1
  PROVE  Count(Gray(p), Gray(q)) = q - p
<1>1. CASE q = p
  BY <1>1 DEF Count, Gray, Clockwise, Anticlockwise
<1>2. CASE q = p + 1
  BY <1>2 DEF Count, Gray, Clockwise, Anticlockwise
<1>3. CASE q = p - 1
  BY <1>3 DEF Count, Gray, Clockwise, Anticlockwise
<1> QED BY <1>1, <1>2, <1>3

\* Any two positions: what is counted has the parity of the distance.
LEMMA CountParity ==
  ASSUME NEW p \in Int, NEW q \in Int
  PROVE  /\ Count(Gray(p), Gray(q)) \in -1 .. 1
         /\ (Count(Gray(p), Gray(q)) - (q - p)) % 2 = 0
  BY DEF Count, Gray, Clockwise, Anticlockwise

\* The first transition after a reset starts from code 00.
LEMMA CountFromReset ==
  ASSUME NEW q \in Int
  PROVE  /\ Count("00", Gray(q)) = q - ZeroFor(q)
         /\ ZeroFor(q) \in Int
  BY DEF Count, Gray, ZeroFor, Clockwise, Anticlockwise

LEMMA ModOfMultiple ==
  ASSUME NEW c \in Nat \ {0}, NEW k \in Int, NEW r \in Int
  PROVE  (c * k + r) % c = r % c
<1>1. ASSUME NEW q \in Int, NEW s \in 0 .. c - 1
      PROVE  (q * c + s) % c = s
  OBVIOUS
<1>2. r = (r \div c) * c + (r % c) /\ r \div c \in Int /\ r % c \in 0 .. c - 1
  OBVIOUS
<1>3. c * k + r = (k + (r \div c)) * c + (r % c) /\ k + (r \div c) \in Int
  BY <1>2
<1> QED BY <1>1, <1>2, <1>3

LEMMA ModAdds ==
  ASSUME NEW c \in Nat \ {0}, NEW x \in Int, NEW d \in Int
  PROVE  ((x % c) + d) % c = (x + d) % c
<1>1. x = c * (x \div c) + (x % c) /\ x \div c \in Int /\ x % c \in Int
  OBVIOUS
<1>2. (x % c) + d \in Int /\ x + d = c * (x \div c) + ((x % c) + d)
  BY <1>1
<1>3. (c * (x \div c) + ((x % c) + d)) % c = ((x % c) + d) % c
  BY <1>1, <1>2, ModOfMultiple
<1> QED BY <1>2, <1>3

\* Counts is even, so that reducing by it keeps parity.
LEMMA ModKeepsParity ==
  ASSUME NEW x \in Int
  PROVE  /\ Counts \in Nat \ {0}
         /\ x % Counts \in 0 .. Counts - 1
         /\ (x % Counts) % 2 = x % 2
<1>1. Counts \in Nat \ {0} /\ Counts = 4 * Positions /\ Positions \in Nat
  BY EncoderConstants DEF Counts
<1>2. x = Counts * (x \div Counts) + (x % Counts)
      /\ x \div Counts \in Int /\ x % Counts \in 0 .. Counts - 1
  BY <1>1
<1>3. ASSUME NEW k \in Int, NEW r \in Int
      PROVE  (2 * k + r) % 2 = r % 2
  OBVIOUS
<1>4. Counts * (x \div Counts) = 2 * ((2 * Positions) * (x \div Counts))
  BY <1>1, <1>2
<1>5. (2 * Positions) * (x \div Counts) \in Int
  BY <1>1, <1>2
<1>6. x % 2 = (x % Counts) % 2
  BY <1>2, <1>3, <1>4, <1>5
<1> QED BY <1>1, <1>2, <1>6

-----------------------------------------------------------------------------
(* Type correctness. *)

\* The signals keep their declared ranges, whatever happens: in particular the
\* position wraps instead of overflowing.
THEOREM EncoderTypeCorrect == EncoderSpec => []EncoderTypeOK
<1>1. EncoderInit => EncoderTypeOK
  BY EncoderConstants DEF EncoderInit, EncoderTypeOK, GrayCodes, Counts
<1>2. EncoderTypeOK /\ [EncoderNext]_encoderVars => EncoderTypeOK'
  <2> SUFFICES ASSUME EncoderTypeOK, [EncoderNext]_encoderVars PROVE EncoderTypeOK'
    OBVIOUS
  <2>1. CASE Tick
    <3>1. r_sample_cnt' \in 0 .. SamplePeriod - 1 /\ s_sample' \in {0, 1}
          /\ (s_sample' = 1 => r_sample_cnt' = 0)
      BY <2>1, EncoderConstants DEF Tick, p_sample, EncoderTypeOK
    <3>2. Transition \in Int
      BY DEF Transition
    <3>3. (r_position + Transition) % Counts \in 0 .. Counts - 1
      BY <3>2, ModKeepsParity DEF EncoderTypeOK
    <3>4. r_position' \in 0 .. Counts - 1
      BY <2>1, <3>3 DEF Tick, p_decode, decoder, EncoderTypeOK
    <3>5. r_state' \in GrayCodes /\ r_state_prev' \in GrayCodes
      BY <2>1, GrayType DEF Tick, p_decode, decoder, EncoderTypeOK
    <3>6. /\ sampled' \in Int /\ decoded' \in Int /\ origin' \in Int
          /\ samples' \in 0 .. 2 /\ hasty' \in {0, 1}
      BY <2>1, CountFromReset DEF Tick, Remember, history, EncoderTypeOK
    <3> QED BY <2>1, <3>1, <3>4, <3>5, <3>6 DEF Tick, EncoderTypeOK
  <2>2. CASE AssertEncoderReset
    BY <2>2, EncoderConstants DEF AssertEncoderReset, EncoderTypeOK, GrayCodes, Counts
  <2>3. CASE ReleaseEncoderReset
    BY <2>3 DEF ReleaseEncoderReset, EncoderTypeOK, sampler, decoder, history
  <2>4. CASE \E q \in -Reach .. Reach : Turn(q)
    BY <2>4, EncoderConstants DEF Turn, EncoderTypeOK, sampler, decoder
  <2>5. CASE UNCHANGED encoderVars
    BY <2>5 DEF encoderVars, EncoderTypeOK, sampler, decoder, history
  <2> QED BY <2>1, <2>2, <2>3, <2>4, <2>5 DEF EncoderNext
<1> QED BY <1>1, <1>2, PTL DEF EncoderSpec

-----------------------------------------------------------------------------
(* What holds at any speed. *)

LEMMA PhaseStep ==
  ASSUME EncoderTypeOK, PhaseInv, DriftIsEven, [EncoderNext]_encoderVars
  PROVE  PhaseInv' /\ DriftIsEven'
<1>1. CASE Tick /\ s_sample = 1
  <2>1. /\ r_state' = Gray(shaft) /\ r_state_prev' = r_state
        /\ r_position' = (r_position + Count(r_state_prev, r_state)) % Counts
    BY <1>1 DEF Tick, p_decode, Transition, Count
  <2>2. CASE samples = 0
    <3>1. samples' = 1 /\ sampled' = shaft /\ origin' = ZeroFor(shaft)
      BY <1>1, <2>2 DEF Tick, Remember
    <3>2. r_position' = 0
      <4>1. Count("00", "00") = 0
        BY DEF Count, Clockwise, Anticlockwise
      <4>2. 0 % Counts = 0
        BY ModKeepsParity
      <4> QED BY <2>1, <2>2, <4>1, <4>2 DEF PhaseInv
    <3>3. sampled' \in Int /\ Gray(sampled') = Gray(shaft)
      BY <3>1 DEF EncoderTypeOK
    <3>4. PhaseInv'
      BY <2>1, <2>2, <3>1, <3>2 DEF PhaseInv
    <3> QED BY <3>1, <3>4 DEF DriftIsEven
  <2>3. CASE samples = 1
    <3>1. /\ samples' = 2 /\ sampled' = shaft /\ decoded' = sampled
          /\ origin' = ZeroFor(sampled)
      BY <1>1, <2>3 DEF Tick, Remember, PhaseInv
    <3>2. r_position' = (sampled - ZeroFor(sampled)) % Counts
      BY <2>1, <2>3, CountFromReset DEF PhaseInv, EncoderTypeOK
    <3>3. PhaseInv'
      BY <2>1, <2>3, <3>1 DEF PhaseInv
    <3>4. sampled - ZeroFor(sampled) \in Int
      BY CountFromReset DEF EncoderTypeOK
    <3>5. (r_position' - (sampled - ZeroFor(sampled))) % 2 = 0
      <4> DEFINE x == sampled - ZeroFor(sampled)
      <4>1. x \in Int
        BY <3>4
      <4>2. (x % Counts) % 2 = x % 2 /\ x % Counts \in Int
        BY <4>1, ModKeepsParity
      <4> HIDE DEF x
      <4>3. ((x % Counts) - x) % 2 = 0
        BY <4>1, <4>2
      <4> QED BY <3>2, <4>3 DEF x
    <3> QED BY <3>1, <3>3, <3>5 DEF DriftIsEven
  <2>4. CASE samples = 2
    <3>1. /\ samples' = 2 /\ sampled' = shaft /\ decoded' = sampled
          /\ UNCHANGED origin
      BY <1>1, <2>4 DEF Tick, Remember
    <3>2. PhaseInv'
      BY <2>1, <2>4, <3>1 DEF PhaseInv
    <3>0. sampled \in Int /\ decoded \in Int /\ origin \in Int
      BY DEF EncoderTypeOK
    <3>3. PICK d \in -1 .. 1 : /\ d = Count(Gray(decoded), Gray(sampled))
                               /\ (d - (sampled - decoded)) % 2 = 0
      BY <3>0, CountParity
    <3>4. r_position' = (r_position + d) % Counts
      BY <2>1, <2>4, <3>3 DEF PhaseInv
    <3>5. r_position + d \in Int /\ r_position \in Int
      BY <3>3, ModKeepsParity DEF EncoderTypeOK
    <3>6. r_position' % 2 = (r_position + d) % 2 /\ r_position' \in Int
      BY <3>4, <3>5, ModKeepsParity
    <3>7. (r_position - (decoded - origin)) % 2 = 0
      BY <2>4 DEF DriftIsEven
    <3>8. (r_position' - ((decoded - origin) + (sampled - decoded))) % 2 = 0
      <4>1. decoded - origin \in Int /\ sampled - decoded \in Int /\ d \in Int
        BY <3>0, <3>3
      <4>2. PICK x \in Int, e \in Int, p \in Int, y \in Int :
                   /\ x = decoded - origin /\ e = sampled - decoded
                   /\ p = r_position /\ y = r_position'
        BY <4>1, <3>5, <3>6
      <4>3. (p - x) % 2 = 0 /\ (d - e) % 2 = 0 /\ y % 2 = (p + d) % 2
        BY <3>3, <3>6, <3>7, <4>2
      <4>4. (y - (x + e)) % 2 = 0
        BY <4>3
      <4> QED BY <4>2, <4>4
    <3>9. (decoded - origin) + (sampled - decoded) = sampled - origin
      BY <3>0
    <3> QED BY <3>1, <3>2, <3>8, <3>9 DEF DriftIsEven
  <2> QED BY <2>2, <2>3, <2>4 DEF EncoderTypeOK
<1>2. CASE Tick /\ s_sample # 1
  BY <1>2 DEF Tick, p_decode, Remember, decoder, history, PhaseInv, DriftIsEven
<1>3. CASE AssertEncoderReset
  BY <1>3 DEF AssertEncoderReset, PhaseInv, DriftIsEven
<1>4. CASE ReleaseEncoderReset
  BY <1>4 DEF ReleaseEncoderReset, decoder, history, PhaseInv, DriftIsEven
<1>5. CASE \E q \in -Reach .. Reach : Turn(q)
  BY <1>5 DEF Turn, decoder, history, PhaseInv, DriftIsEven
<1>6. CASE UNCHANGED encoderVars
  BY <1>6 DEF encoderVars, decoder, history, PhaseInv, DriftIsEven
<1> QED BY <1>1, <1>2, <1>3, <1>4, <1>5, <1>6 DEF EncoderNext

\* However much undersampling loses, it loses an even number of quarter steps.
THEOREM DriftAlwaysEven == EncoderSpec => []DriftIsEven
<1>1. EncoderInit => PhaseInv /\ DriftIsEven
  BY DEF EncoderInit, PhaseInv, DriftIsEven
<1>2. EncoderTypeOK /\ (PhaseInv /\ DriftIsEven) /\ [EncoderNext]_encoderVars
        => (PhaseInv /\ DriftIsEven)'
  BY PhaseStep
<1> QED BY <1>1, <1>2, EncoderTypeCorrect, PTL DEF EncoderSpec

-----------------------------------------------------------------------------
(* What holds of a knob slower than one quarter step per sample. *)

LEMMA TravelStep ==
  ASSUME EncoderTypeOK, TravelInv, [EncoderNext]_encoderVars
  PROVE  TravelInv'
<1>1. CASE Tick /\ s_sample = 1
  <2>1. sampled' = shaft /\ shaft' = shaft
    BY <1>1 DEF Tick, Remember
  <2>2. Near(shaft', sampled', 1) /\ hasty' = hasty
    BY <1>1, <2>1 DEF Tick, Remember, Near, EncoderTypeOK
  <2>3. samples' = 2 => decoded' = sampled /\ samples # 0
    BY <1>1 DEF Tick, Remember
  <2>4. samples' = 2 /\ hasty' = 0 => Near(sampled', decoded', 1)
    BY <2>1, <2>2, <2>3 DEF TravelInv, Near
  <2> QED BY <2>2, <2>4 DEF TravelInv, Near
<1>2. CASE Tick /\ s_sample # 1
  BY <1>2 DEF Tick, Remember, history, TravelInv, Near
<1>3. CASE AssertEncoderReset
  BY <1>3 DEF AssertEncoderReset, TravelInv
<1>4. CASE ReleaseEncoderReset
  BY <1>4 DEF ReleaseEncoderReset, history, TravelInv, Near
<1>5. CASE \E q \in -Reach .. Reach : Turn(q)
  BY <1>5 DEF Turn, history, TravelInv, Near
<1>6. CASE UNCHANGED encoderVars
  BY <1>6 DEF encoderVars, history, TravelInv, Near
<1> QED BY <1>1, <1>2, <1>3, <1>4, <1>5, <1>6 DEF EncoderNext

LEMMA FollowStep ==
  ASSUME EncoderTypeOK, PhaseInv, TravelInv, PositionFollowsShaft, [EncoderNext]_encoderVars
  PROVE  PositionFollowsShaft'
<1>1. CASE Tick /\ s_sample = 1
  <2>1. r_position' = (r_position + Count(r_state_prev, r_state)) % Counts
    BY <1>1 DEF Tick, p_decode, Transition, Count
  <2>2. CASE samples = 0
    BY <1>1, <2>2 DEF Tick, Remember, PositionFollowsShaft
  <2>3. CASE samples = 1
    <3>1. decoded' = sampled /\ origin' = ZeroFor(sampled)
      BY <1>1, <2>3 DEF Tick, Remember, PhaseInv
    <3>2. r_position' = (sampled - ZeroFor(sampled)) % Counts
      BY <2>1, <2>3, CountFromReset DEF PhaseInv, EncoderTypeOK
    <3> QED BY <3>1, <3>2 DEF PositionFollowsShaft
  <2>4. CASE samples = 2
    <3>1. decoded' = sampled /\ UNCHANGED origin
      BY <1>1, <2>4 DEF Tick, Remember
    <3> SUFFICES ASSUME hasty = 0 PROVE PositionFollowsShaft'
      BY <1>1 DEF Tick, Remember, PositionFollowsShaft
    <3>2. sampled - decoded \in -1 .. 1
      BY <2>4 DEF TravelInv, Near, EncoderTypeOK
    <3>3. Count(Gray(decoded), Gray(sampled)) = sampled - decoded
      BY <3>2, CountOfNeighbours DEF EncoderTypeOK
    <3>4. r_position' = (((decoded - origin) % Counts) + (sampled - decoded)) % Counts
      BY <2>1, <2>4, <3>3 DEF PhaseInv, PositionFollowsShaft
    <3>5. r_position' = ((decoded - origin) + (sampled - decoded)) % Counts
      <4>1. decoded - origin \in Int /\ sampled - decoded \in Int
        BY DEF EncoderTypeOK
      <4>2. Counts \in Nat \ {0}
        BY ModKeepsParity
      <4> QED BY <3>4, <4>1, <4>2, ModAdds
    <3>6. (decoded - origin) + (sampled - decoded) = sampled - origin
      BY DEF EncoderTypeOK
    <3> QED BY <3>1, <3>5, <3>6 DEF PositionFollowsShaft
  <2> QED BY <2>2, <2>3, <2>4 DEF EncoderTypeOK
<1>2. CASE Tick /\ s_sample # 1
  BY <1>2 DEF Tick, p_decode, Remember, decoder, history, PositionFollowsShaft
<1>3. CASE AssertEncoderReset
  BY <1>3 DEF AssertEncoderReset, PositionFollowsShaft
<1>4. CASE ReleaseEncoderReset
  BY <1>4 DEF ReleaseEncoderReset, decoder, history, PositionFollowsShaft
<1>5. CASE \E q \in -Reach .. Reach : Turn(q)
  BY <1>5 DEF Turn, decoder, history, PositionFollowsShaft
<1>6. CASE UNCHANGED encoderVars
  BY <1>6 DEF encoderVars, decoder, history, PositionFollowsShaft
<1> QED BY <1>1, <1>2, <1>3, <1>4, <1>5, <1>6 DEF EncoderNext

\* As long as the knob makes at most one quarter step per sample it is counted
\* exactly, over any history of turns, bounces, wraps and resets.
THEOREM SlowKnobIsCountedExactly == EncoderSpec => []PositionFollowsShaft
<1> DEFINE IInv == PhaseInv /\ DriftIsEven /\ TravelInv /\ PositionFollowsShaft
<1>1. EncoderInit => IInv
  BY DEF EncoderInit, PhaseInv, DriftIsEven, TravelInv, PositionFollowsShaft
<1>2. EncoderTypeOK /\ IInv /\ [EncoderNext]_encoderVars => IInv'
  BY PhaseStep, TravelStep, FollowStep
<1>3. IInv => PositionFollowsShaft
  OBVIOUS
<1> QED BY <1>1, <1>2, <1>3, EncoderTypeCorrect, PTL DEF EncoderSpec

-----------------------------------------------------------------------------
(* The knob the screen sees. *)

\* One count moves the quarter of the count by one position at most.
LEMMA QuarterStep ==
  ASSUME NEW r \in 0 .. Counts - 1, NEW d \in -1 .. 1
  PROVE  LET before == r \div 4
             after == ((r + d) % Counts) \div 4
         IN  \/ after = before
             \/ after = (before + 1) % Positions
             \/ after = (before - 1) % Positions
<1>1. Positions \in Nat \ {0} /\ Counts = 4 * Positions
  BY EncoderConstants DEF Counts
<1>2. CASE r + d \in 0 .. Counts - 1
  <2>1. (r + d) % Counts = r + d
    BY <1>1, <1>2
  <2>2. (r + d) \div 4 \in 0 .. Positions - 1 /\ r \div 4 \in 0 .. Positions - 1
    BY <1>1, <1>2
  <2>3. (r + d) \div 4 - (r \div 4) \in -1 .. 1
    OBVIOUS
  <2>4. ((r + d) \div 4) % Positions = (r + d) \div 4
    BY <1>1, <2>2
  <2> QED BY <2>1, <2>2, <2>3, <2>4
<1>3. CASE r + d = Counts
  <2>1. (r + d) % Counts = 0 /\ r \div 4 = Positions - 1
    BY <1>1, <1>3
  <2>2. (Positions - 1 + 1) % Positions = 0
    BY <1>1
  <2> QED BY <2>1, <2>2
<1>4. CASE r + d = -1
  <2>1. r \div 4 = 0
    BY <1>1, <1>4
  <2>2. (-1) % Counts = Counts - 1 /\ (-1) % Positions = Positions - 1
    BY <1>1
  <2>3. (Counts - 1) \div 4 = Positions - 1
    BY <1>1
  <2> QED BY <1>4, <2>1, <2>2, <2>3
<1> QED BY <1>1, <1>2, <1>3, <1>4

\* Every step of the encoder is a step of the knob the screen is built on.
THEOREM RefinesKnob == EncoderSpec => ImplementsKnob
<1>1. EncoderInit => Dial!Init
  BY DEF EncoderInit, Dial!Init, o_position
<1>2. EncoderTypeOK /\ [EncoderNext]_encoderVars => [Dial!Next]_Dial!vars
  <2> SUFFICES ASSUME EncoderTypeOK, [EncoderNext]_encoderVars PROVE [Dial!Next]_Dial!vars
    OBVIOUS
  <2>1. CASE Tick /\ s_sample = 1
    <3>1. r_position' = (r_position + Transition) % Counts /\ UNCHANGED i_rst_n
          /\ i_rst_n = 1
      BY <2>1 DEF Tick, p_decode
    <3>2. Transition \in -1 .. 1 /\ r_position \in 0 .. Counts - 1
      BY DEF Transition, EncoderTypeOK
    <3>3. \/ o_position' = o_position
          \/ o_position' = (o_position + 1) % Positions
          \/ o_position' = (o_position - 1) % Positions
      BY <3>1, <3>2, QuarterStep DEF o_position
    <3>4. o_position - 1 = o_position + (-1)
      BY <3>2 DEF o_position
    <3> QED BY <3>1, <3>3, <3>4 DEF Dial!Next, Dial!Turn, Dial!vars
  <2>2. CASE AssertEncoderReset
    <3>1. o_position' = 0
      BY <2>2 DEF AssertEncoderReset, o_position
    <3> QED BY <2>2, <3>1 DEF AssertEncoderReset, Dial!Next, Dial!Reset
  <2>3. CASE ReleaseEncoderReset
    BY <2>3 DEF ReleaseEncoderReset, decoder, o_position, Dial!Next, Dial!Release
  <2>4. CASE \/ Tick /\ s_sample # 1
             \/ \E q \in -Reach .. Reach : Turn(q)
             \/ UNCHANGED encoderVars
    BY <2>4 DEF Tick, Turn, p_decode, decoder, encoderVars, o_position, Dial!vars
  <2> QED BY <2>1, <2>2, <2>3, <2>4 DEF EncoderNext
<1> QED BY <1>1, <1>2, EncoderTypeCorrect, PTL DEF EncoderSpec, ImplementsKnob, Dial!Spec

-----------------------------------------------------------------------------
(* The transmitter's configuration.                                        *)

\* The writer's counters and lines in each of its states.
WriterInv ==
  /\ ST \in {1, 30, 31} => CNT = 0 /\ BYTE = 0 /\ SDAO = 1 /\ SCLO = 1
  /\ ST \in 2 .. 4 => CNT <= 8
  /\ ST = 3 => SCLO = 0
  /\ ST = 4 /\ CNT = 8 => SDAO = 1
  /\ ST = 5 /\ CNT = 9 => SDAO = 1
  /\ ST \in 1 .. 9 => END_OK = 0
  /\ ST \in {30, 31} => END_OK = 1
  /\ ST \in 6 .. 9 => CNT = 9 /\ BYTE = BYTE_NUM
  /\ ST = 7 => SCLO = 0
  /\ ST = 9 => SDAO = 1

\* The transmitter has heard no more bytes than were sent.
HeardInv == ST \in 2 .. 5 => Len(heard) <= BYTE

\* The entry on the bus; once the table is sent, the writer repeats the last.
OnTheBus == IF LUT_INDEX = LUT_SIZE THEN LUT_SIZE - 1 ELSE LUT_INDEX

\* Which states of the FSM go with which states of the writer.
Handshake ==
  /\ mI2C_GO = IF mSetup_ST = 1 THEN 1 ELSE 0
  /\ mSetup_ST = 2 => ST \in {1, 30}
  /\ ST = 0 => LUT_INDEX = 0
  /\ LUT_INDEX = LUT_SIZE => mSetup_ST = 0 /\ (OnTheBus > 0 => mI2C_DATA = OnTheBus)
  /\ LUT_INDEX \in 1 .. LUT_SIZE - 1 =>
       /\ mSetup_ST = 0 =>
            \/ ST \in {1, 31}
            \/ ST = 2 /\ CNT = 0 /\ BYTE = 0
            \/ ST = 30 /\ ACK_OK = 1
       /\ mSetup_ST = 1 => /\ mI2C_DATA = LUT_INDEX
                           /\ ST = 31 => ACK_OK = 1
       /\ mSetup_ST = 2 => ST = 30 /\ mI2C_DATA = LUT_INDEX

\* While no acknowledge is missing, the transmitter has heard the bytes sent so
\* far.  After the first entry the bytes of the word, on their way or heard, are
\* of the entry whose turn it is; and when the FSM reads an end without a missing
\* acknowledge, the transmitter has it.
InFlight ==
  /\ ST \in 2 .. 5 /\ ACK_OK = 0 => ~deaf /\ Len(heard) = BYTE
  /\ LUT_INDEX > 0 /\ OnTheBus > 0 =>
       /\ ST \in 2 .. 5 /\ BYTE > 0 => A.of = OnTheBus
       /\ ST \in 2 .. 5 /\ Len(heard) = 2 => heard[2].of = OnTheBus
  /\ LUT_INDEX \in 1 .. LUT_SIZE - 1 =>
       /\ mSetup_ST = 1 /\ ST \in 6 .. 9 \cup {30} /\ ACK_OK = 0
            => written[LUT_INDEX] = LUT_INDEX
       /\ mSetup_ST = 2 => written[LUT_INDEX] = LUT_INDEX

-----------------------------------------------------------------------------
(* The writer and the transmitter, without the FSM. *)

LEMMA LoadedIsByte ==
  ASSUME NEW e \in Entries, NEW part \in {"address", "register", "data"}
  PROVE  Loaded(part, e) \in Bytes /\ Loaded(part, e).of = e
BY DEF Loaded, Bytes

LEMMA WriterKeeps ==
  ASSUME WriterTypeOK, WriterInv, NEW GO \in {0, 1}, NEW word \in Entries,
         NEW sda \in {0, 1}, WriterStep(GO, word, sda)
  PROVE  WriterTypeOK' /\ WriterInv'
<1> USE DEF WriterTypeOK, WriterInv, Drive, BYTE_NUM
<1>1. CASE Idle(GO)
  BY <1>1 DEF Idle
<1>2. CASE Start(word)
  BY <1>2, LoadedIsByte DEF Start
<1>3. CASE ClockLow
  BY <1>3 DEF ClockLow
<1>4. CASE Shift
  BY <1>4 DEF Shift
<1>5. CASE ClockHigh
  BY <1>5 DEF ClockHigh
<1>6. CASE BitDone(word, sda)
  BY <1>6, LoadedIsByte DEF BitDone
<1>7. CASE Stop
  BY <1>7 DEF Stop
<1>8. CASE Finish
  BY <1>8 DEF Finish
<1>9. CASE WaitGoLow(GO)
  BY <1>9 DEF WaitGoLow
<1>10. CASE Begin
  BY <1>10 DEF Begin
<1> QED BY <1>1, <1>2, <1>3, <1>4, <1>5, <1>6, <1>7, <1>8, <1>9, <1>10 DEF WriterStep

\* A start is sent in state 1, and none while the bits of a byte go out.
LEMMA StartsInOne ==
  ASSUME WriterTypeOK, WriterInv, NEW GO \in {0, 1}, NEW word \in Entries,
         NEW sda \in {0, 1}, WriterStep(GO, word, sda)
  PROVE  /\ ST = 1 => StartCondition
         /\ ST \in 2 .. 5 => ~StartCondition
<1> USE DEF StartCondition, WriterTypeOK, WriterInv, Drive
<1>1. ST = 1 => Start(word)
  BY DEF WriterStep, Idle, ClockLow, Shift, ClockHigh, BitDone, Stop, Finish,
         WaitGoLow, Begin
<1>2. ST \in 2 .. 5 => ClockLow \/ Shift \/ ClockHigh \/ BitDone(word, sda)
  BY DEF WriterStep, Idle, Start, Stop, Finish, WaitGoLow, Begin
<1>3. ST = 1 => StartCondition
  BY <1>1 DEF Start
<1>4. ST \in 2 .. 5 => ~StartCondition
  BY <1>2 DEF ClockLow, Shift, ClockHigh, BitDone
<1> QED BY <1>3, <1>4

LEMMA AppendByte ==
  ASSUME NEW s \in Seq(Bytes), NEW b \in Bytes
  PROVE  /\ Append(s, b) \in Seq(Bytes)
         /\ Len(Append(s, b)) = Len(s) + 1 /\ Len(s) \in Nat
         /\ \A i \in 1 .. Len(s) : Append(s, b)[i] = s[i]
         /\ Append(s, b)[Len(s) + 1] = b
OBVIOUS

LEMMA ByteOf ==
  ASSUME NEW s \in Seq(Bytes), NEW i \in 1 .. Len(s)
  PROVE  s[i] \in Bytes
OBVIOUS

LEMMA SecondByte ==
  ASSUME NEW s \in Seq(Bytes), NEW b \in Bytes, Len(s) = 1
  PROVE  Append(s, b)[2] = b
<1>1. Append(s, b)[Len(s) + 1] = b
  BY AppendByte
<1> QED BY <1>1

LEMMA SecondIsNew ==
  ASSUME NEW s \in Seq(Bytes), NEW b \in Bytes, NEW t \in {s, Append(s, b)},
         Len(s) < 2, Len(t) = 2
  PROVE  Len(s) = 1 /\ t[2] = b
<1>1. t = Append(s, b)
  OBVIOUS
<1>2. Len(t) = Len(s) + 1 /\ Len(s) \in Nat
  BY <1>1, AppendByte, Zenon
<1>3. Len(s) = 1
  <2>1. \A n \in Nat : n + 1 = 2 => n = 1
    OBVIOUS
  <2> QED BY <1>2, <2>1, Zenon
<1> QED BY <1>1, <1>3, SecondByte

\* What one edge does to what the transmitter has heard.
LEMMA SlaveKeeps ==
  ASSUME TypeOK, WriterInv, HeardInv, ControlEdge, LUT_INDEX' \in Int
  PROVE  /\ heard' \in Seq(Bytes) /\ Len(heard') <= 3 /\ deaf' \in BOOLEAN
         /\ written' \in [Entries -> Entries \cup {NONE}]
         /\ HeardInv'
<1> USE DEF TypeOK
<1>1. /\ SDAI \in {0, 1} /\ WriterStep(mI2C_GO, mI2C_DATA, SDAI) /\ Slave
      /\ WriterTypeOK
  BY DEF ControlEdge, SDAI
<1>2. CASE StartCondition
  <2>1. heard' = <<>> /\ deaf' = FALSE /\ written' \in {Unwritten, written} /\ ST \notin 2 .. 5
    BY <1>1, <1>2, StartsInOne DEF Slave, ByteEnds
  <2>2. BYTE' \in 0 .. BYTE_NUM
    BY <1>1, WriterKeeps DEF WriterTypeOK
  <2>3. heard' \in Seq(Bytes) /\ Len(heard') = 0 /\ deaf' \in BOOLEAN
    BY <2>1, EmptySeq
  <2>4. HeardInv'
    BY <2>2, <2>3 DEF HeardInv, BYTE_NUM
  <2>5. written' \in [Entries -> Entries \cup {NONE}]
    BY <2>1 DEF Unwritten
  <2> QED BY <2>3, <2>4, <2>5
<1>3. CASE ~StartCondition /\ ByteEnds
  <2>1. BitDone(mI2C_DATA, SDAI) /\ CNT = 9 /\ Len(heard) <= BYTE /\ BYTE \in 0 .. 2
    BY <1>1, <1>3 DEF ByteEnds, HeardInv, WriterStep, Idle, Start, ClockLow, Shift,
       ClockHigh, Stop, Finish, WaitGoLow, Begin, WriterTypeOK, BYTE_NUM
  <2>2. IF BYTE = 2 THEN ST' = 6 ELSE ST' = 2 /\ BYTE' = BYTE + 1
    BY <2>1 DEF BitDone, BYTE_NUM
  <2>3. A \in Bytes
    BY <1>1 DEF WriterTypeOK
  <2>4. /\ heard' = IF Acknowledges THEN Append(heard, A) ELSE heard
        /\ deaf' = ~Acknowledges
    BY <1>1, <1>3 DEF Slave
  <2>5. heard' \in Seq(Bytes) /\ Len(heard') <= Len(heard) + 1 /\ Len(heard) \in Nat
    BY <2>3, <2>4, AppendByte
  <2>6. written' \in [Entries -> Entries \cup {NONE}]
    <3>1. CASE written' \in {Unwritten, written}
      BY <3>1 DEF Unwritten
    <3>2. CASE written' = [written EXCEPT ![heard[2].of] = A.of] /\ Len(heard) = 2
      <4>1. heard \in Seq(Bytes) /\ 2 \in 1 .. Len(heard)
        BY <3>2
      <4>2. heard[2] \in Bytes
        BY <4>1, ByteOf, Zenon
      <4> QED BY <3>2, <4>2, <2>3 DEF Bytes
    <3> QED BY <1>1, <3>1, <3>2 DEF Slave
  <2> QED BY <2>1, <2>2, <2>4, <2>5, <2>6 DEF HeardInv, Acknowledges
<1>4. CASE ~StartCondition /\ ~ByteEnds
  <2>1. UNCHANGED <<heard, deaf>> /\ written' \in {Unwritten, written} /\ ST # 1
    BY <1>1, <1>4, StartsInOne DEF Slave
  <2>2. ST' \in 2 .. 5 => ST \in 2 .. 5 /\ BYTE' = BYTE
    BY <1>1, <1>4, <2>1 DEF ByteEnds, WriterStep, Idle, Start, ClockLow, Shift,
       ClockHigh, BitDone, Stop, Finish, WaitGoLow, Begin, WriterTypeOK
  <2> QED BY <2>1, <2>2 DEF HeardInv, Unwritten
<1> QED BY <1>2, <1>3, <1>4

-----------------------------------------------------------------------------
(* Type correctness. *)

\* The FSM's registers, in a predicate of their own.
FsmTypeOK ==
  /\ mI2C_DATA \in Entries /\ mI2C_GO \in {0, 1}
  /\ LUT_INDEX \in 0 .. LUT_SIZE /\ mSetup_ST \in 0 .. 2 /\ READY \in {0, 1}

LEMMA FsmKeeps ==
  ASSUME FsmTypeOK, Config
  PROVE  FsmTypeOK'
BY ConfigConstants DEF FsmTypeOK, Config, Sending, Sent, LoadEntry, AwaitEnd, NextEntry

LEMMA CountersKeep ==
  ASSUME TypeOK, WriterInv, HeardInv, [Next]_vars
  PROVE  TypeOK' /\ WriterInv' /\ HeardInv'
<1>1. CASE Cycle
  <2>1. /\ mI2C_CLK_DIV' \in 0 .. ClkDiv /\ mI2C_CTRL_CLK' \in {0, 1}
        /\ UNCHANGED <<iRST_N, HDMI_TX_INT, listening>>
    BY <1>1, ConfigConstants DEF Cycle, fsm, writer, slave, TypeOK
  <2>2. CASE ControlEdge
    <3>1. FsmTypeOK'
      BY <2>2, FsmKeeps DEF ControlEdge, TypeOK, FsmTypeOK
    <3>2. WriterTypeOK' /\ WriterInv'
      <4>1. SDAI \in {0, 1}
        BY DEF SDAI
      <4> QED BY <2>2, <4>1, WriterKeeps DEF ControlEdge, TypeOK
    <3>3. /\ heard' \in Seq(Bytes) /\ Len(heard') <= 3 /\ deaf' \in BOOLEAN
          /\ written' \in [Entries -> Entries \cup {NONE}]
          /\ HeardInv'
      BY <2>2, <3>1, SlaveKeeps DEF FsmTypeOK
    <3> QED BY <2>1, <3>1, <3>2, <3>3 DEF TypeOK, FsmTypeOK
  <2>3. CASE UNCHANGED <<fsm, writer, slave>>
    BY <2>1, <2>3 DEF fsm, writer, slave, TypeOK, WriterTypeOK, WriterInv, HeardInv
  <2> QED BY <1>1, <2>2, <2>3 DEF Cycle
<1>2. CASE AssertReset
  BY <1>2, ConfigConstants
     DEF AssertReset, WriterReset, TypeOK, WriterTypeOK, WriterInv, HeardInv, Unwritten
<1>3. CASE ReleaseReset \/ Interrupt \/ PlugOrUnplug \/ UNCHANGED vars
  <2>1. /\ UNCHANGED <<divider, fsm, writer, slave>>
        /\ iRST_N' \in {0, 1} /\ HDMI_TX_INT' \in {0, 1} /\ listening' \in {0, 1}
    BY <1>3 DEF ReleaseReset, Interrupt, PlugOrUnplug, vars, TypeOK
  <2> QED BY <2>1 DEF divider, fsm, writer, slave, TypeOK, WriterTypeOK, WriterInv, HeardInv
<1> QED BY <1>1, <1>2, <1>3 DEF Next

LEMMA CountersStart == Init => TypeOK /\ WriterInv /\ HeardInv
<1> SUFFICES ASSUME Init PROVE TypeOK /\ WriterInv /\ HeardInv
  OBVIOUS
<1>1. WriterTypeOK /\ ST = 0
  BY LoadedIsByte DEF Init, WriterInit, WriterTypeOK, BYTE_NUM
<1>2. heard \in Seq(Bytes) /\ Len(heard) = 0
  BY EmptySeq DEF Init
<1> QED BY <1>1, <1>2, ConfigConstants DEF Init, TypeOK, WriterInv, HeardInv, Unwritten

\* For every table, every register keeps the range of its declaration; the bit
\* counter does because of where it is when a byte ends.
THEOREM TypeCorrect == Spec => []TypeOK
<1>1. TypeOK /\ (WriterInv /\ HeardInv) /\ [Next]_vars
        => TypeOK' /\ (WriterInv /\ HeardInv)'
  BY CountersKeep
<1> QED BY CountersStart, <1>1, PTL DEF Spec

\* Where SDA may move under a high clock, for one edge of the writer.
LEMMA LinesStep ==
  ASSUME WriterTypeOK, WriterInv, NEW GO \in {0, 1}, NEW word \in Entries,
         NEW sda \in {0, 1}, WriterStep(GO, word, sda),
         SCLO = 1, SCLO' = 1, SDAO' # SDAO
  PROVE  \/ SDAO' = 0 /\ CNT = 0 /\ BYTE = 0
         \/ SDAO' = 1 /\ CNT = 9 /\ BYTE = BYTE_NUM
         \/ ST = 0
<1> USE DEF WriterTypeOK, WriterInv, Drive
<1>1. CASE Idle(GO)
  BY <1>1 DEF Idle
<1>2. CASE Start(word)
  BY <1>2 DEF Start
<1>3. CASE ClockLow \/ Shift \/ ClockHigh \/ BitDone(word, sda)
  BY <1>3 DEF ClockLow, Shift, ClockHigh, BitDone
<1>4. CASE Stop
  <2>1. ST \in {6, 7, 8} /\ CNT = 9 /\ BYTE = BYTE_NUM
    BY <1>4 DEF Stop
  <2> QED BY <1>4, <2>1 DEF Stop
<1>5. CASE Finish \/ WaitGoLow(GO) \/ Begin
  BY <1>5 DEF Finish, WaitGoLow, Begin
<1> QED BY <1>1, <1>2, <1>3, <1>4, <1>5 DEF WriterStep

\* BusFraming: for every table, divider and slave, SDA moves under a high clock
\* only to start before the first bit and to stop after the last bit of three
\* bytes, until a reset lets go of the lines.
THEOREM LinesAreFramed == Spec => BusFraming
<1>1. TypeOK /\ WriterInv /\ [Next]_vars
        => [SCLO = 1 /\ SCLO' = 1 /\ SDAO' # SDAO =>
              \/ SDAO' = 0 /\ CNT = 0 /\ BYTE = 0
              \/ SDAO' = 1 /\ CNT = 9 /\ BYTE = BYTE_NUM
              \/ ST = 0]_vars
  <2> SUFFICES ASSUME TypeOK, WriterInv, Next, SCLO = 1, SCLO' = 1, SDAO' # SDAO
               PROVE  \/ SDAO' = 0 /\ CNT = 0 /\ BYTE = 0
                      \/ SDAO' = 1 /\ CNT = 9 /\ BYTE = BYTE_NUM
                      \/ ST = 0
    OBVIOUS
  <2>1. ControlEdge
    BY DEF Next, Cycle, AssertReset, WriterReset, ReleaseReset, Interrupt, PlugOrUnplug, writer
  <2>2. SDAI \in {0, 1} /\ WriterStep(mI2C_GO, mI2C_DATA, SDAI)
    BY <2>1 DEF ControlEdge, SDAI
  <2>3. WriterTypeOK /\ mI2C_GO \in {0, 1} /\ mI2C_DATA \in Entries
    BY DEF TypeOK
  <2> QED BY <2>2, <2>3, LinesStep
<1>2. TypeOK /\ (WriterInv /\ HeardInv) /\ [Next]_vars
        => TypeOK' /\ (WriterInv /\ HeardInv)'
  BY CountersKeep
<1> QED BY CountersStart, <1>1, <1>2, PTL DEF Spec, BusFraming

-----------------------------------------------------------------------------
(* The FSM and the writer together. *)

LEMMA WriterMoves ==
  ASSUME WriterTypeOK, WriterInv, NEW GO \in {0, 1}, NEW word \in Entries,
         NEW sda \in {0, 1}, WriterStep(GO, word, sda)
  PROVE  /\ ST = 0 => ST' = IF GO = 1 THEN 30 ELSE 0
         /\ ST = 1 => ST' = 2 /\ CNT' = 0 /\ BYTE' = 0
         /\ ST \in 2 .. 4 => ST' = ST + 1 /\ BYTE' = BYTE /\ A' = A
         /\ ST \in 2 .. 4 => ACK_OK' = ACK_OK
         /\ ST = 5 => BitDone(word, sda) /\ ST' \in {2, 6}
         /\ ST \in 6 .. 8 => ST' = ST + 1
         /\ ST = 9 => ST' = 30
         /\ ST \in 6 .. 9 => ACK_OK' = ACK_OK
         /\ ST = 30 => ST' = (IF GO = 0 THEN 31 ELSE 30) /\ ACK_OK' = ACK_OK
         /\ ST = 31 => ST' = 1
<1> USE DEF WriterTypeOK, WriterInv
<1>1. CASE ST \in {0, 1}
  BY <1>1 DEF WriterStep, Idle, Start, ClockLow, Shift, ClockHigh, BitDone, Stop,
     Finish, WaitGoLow, Begin
<1>2. CASE ST \in 2 .. 4
  BY <1>2 DEF WriterStep, Idle, Start, ClockLow, Shift, ClockHigh, BitDone, Stop,
     Finish, WaitGoLow, Begin
<1>3. CASE ST = 5
  <2>1. BitDone(word, sda)
    BY <1>3 DEF WriterStep, Idle, Start, ClockLow, Shift, ClockHigh, Stop, Finish,
       WaitGoLow, Begin
  <2> QED BY <1>3, <2>1 DEF BitDone
<1>4. CASE ST \in 6 .. 9
  BY <1>4 DEF WriterStep, Idle, Start, ClockLow, Shift, ClockHigh, BitDone, Stop,
     Finish, WaitGoLow, Begin
<1>5. CASE ST \in {30, 31}
  BY <1>5 DEF WriterStep, Idle, Start, ClockLow, Shift, ClockHigh, BitDone, Stop,
     Finish, WaitGoLow, Begin
<1> QED BY <1>1, <1>2, <1>3, <1>4, <1>5

\* The FSM reads an end only where the writer has one, and after a refusal only
\* once more before the next transfer.
LEMMA HandshakeStep ==
  ASSUME TypeOK, WriterInv, Handshake, ControlEdge
  PROVE  Handshake'
<1>1. SDAI \in {0, 1} /\ WriterStep(mI2C_GO, mI2C_DATA, SDAI) /\ Config
  BY DEF ControlEdge, SDAI
<1>2. /\ mI2C_GO \in {0, 1} /\ mI2C_DATA \in Entries /\ WriterTypeOK
      /\ LUT_INDEX \in 0 .. LUT_SIZE /\ LUT_SIZE \in 1 .. 63
      /\ mSetup_ST \in 0 .. 2 /\ ST \in 0 .. 9 \cup {30, 31} /\ ACK_OK \in {0, 1}
  BY ConfigConstants DEF TypeOK, WriterTypeOK
<1>3. /\ ST' = 0 => ST = 0 /\ mI2C_GO = 0
      /\ ST = 0 /\ mI2C_GO = 1 => ST' = 30
      /\ ST = 1 => ST' = 2 /\ CNT' = 0 /\ BYTE' = 0
      /\ ST \in 2 .. 8 => ST' \in 2 .. 9
      /\ ST = 9 => ST' = 30
      /\ ST = 30 => ST' = (IF mI2C_GO = 0 THEN 31 ELSE 30) /\ ACK_OK' = ACK_OK
      /\ ST = 31 => ST' = 1
      /\ ST \in 1 .. 9 => mI2C_END = 0
  BY <1>1, <1>2, WriterMoves DEF WriterInv, mI2C_END
<1>4. CASE Sending /\ LoadEntry
  BY <1>2, <1>3, <1>4 DEF Sending, LoadEntry, Handshake, OnTheBus
<1>5. CASE Sending /\ AwaitEnd
  BY <1>2, <1>3, <1>5 DEF Sending, AwaitEnd, Handshake, OnTheBus, mI2C_ACK
<1>6. CASE Sending /\ NextEntry
  BY <1>2, <1>3, <1>6 DEF Sending, NextEntry, Handshake, OnTheBus
<1>7. CASE Sent
  BY <1>2, <1>3, <1>7 DEF Sent, Handshake, OnTheBus
<1> QED BY <1>1, <1>4, <1>5, <1>6, <1>7 DEF Config, Sending

\* Where the FSM goes, as far as the bytes in flight are concerned.
LEMMA FsmMoves ==
  ASSUME TypeOK, WriterInv, Handshake, Config, LUT_INDEX' > 0, OnTheBus' > 0
  PROVE  \/ /\ LUT_INDEX' = LUT_INDEX
            /\ mSetup_ST' = 1 => mSetup_ST = 1 \/ ST \in {1, 2, 30, 31}
            /\ mSetup_ST' = 1 /\ ST = 30 => mSetup_ST = 1 \/ mI2C_GO = 0
            /\ mSetup_ST' = 2 => mSetup_ST = 1 /\ ST = 30 /\ ACK_OK = 0
         \/ /\ mSetup_ST = 2 /\ mSetup_ST' = 0 /\ LUT_INDEX' = LUT_INDEX + 1
            /\ ST \in {1, 30} /\ (ST = 1 => LUT_INDEX = 0)
<1>1. /\ LUT_INDEX \in 0 .. LUT_SIZE /\ LUT_SIZE \in 1 .. 63
      /\ mSetup_ST \in 0 .. 2 /\ ST \in 0 .. 9 \cup {30, 31} /\ ACK_OK \in {0, 1}
  BY ConfigConstants DEF TypeOK, WriterTypeOK
<1>2. ST \in 1 .. 9 => mI2C_END = 0
  BY DEF WriterInv, mI2C_END
<1> USE <1>1 DEF Handshake
<1>3. CASE Sending /\ LoadEntry
  BY <1>3 DEF Sending, LoadEntry
<1>4. CASE Sending /\ AwaitEnd
  BY <1>2, <1>4 DEF Sending, AwaitEnd, mI2C_ACK
<1>5. CASE Sending /\ NextEntry
  BY <1>5 DEF Sending, NextEntry
<1>6. CASE Sent
  BY <1>6 DEF Sent
<1> QED BY <1>3, <1>4, <1>5, <1>6 DEF Config, Sending

\* At the end of a byte, if no acknowledge is missing, the byte was heard.
LEMMA NinthBit ==
  ASSUME TypeOK, WriterInv, InFlight, ControlEdge, ST = 5, CNT = 9, ACK_OK' = 0
  PROVE  /\ ~StartCondition /\ ByteEnds /\ Acknowledges /\ ACK_OK = 0
         /\ heard' = Append(heard, A) /\ ~deaf'
         /\ heard \in Seq(Bytes) /\ A \in Bytes /\ Len(heard) = BYTE
<1>1. /\ SDAI \in {0, 1} /\ WriterStep(mI2C_GO, mI2C_DATA, SDAI) /\ Slave
      /\ mI2C_GO \in {0, 1} /\ mI2C_DATA \in Entries /\ WriterTypeOK
  BY DEF ControlEdge, SDAI, TypeOK
<1>2. BitDone(mI2C_DATA, SDAI)
  BY <1>1, WriterMoves
<1>3. ACK_OK = 0 /\ SDAI = 0
  BY <1>1, <1>2 DEF BitDone, WriterTypeOK
<1>4. Acknowledges
  BY <1>3 DEF SDAI, WriterInv
<1>5. ~StartCondition /\ ByteEnds
  BY <1>1, StartsInOne DEF ByteEnds
<1>6. heard' = Append(heard, A) /\ ~deaf'
  BY <1>1, <1>4, <1>5 DEF Slave
<1>7. heard \in Seq(Bytes) /\ A \in Bytes /\ Len(heard) = BYTE
  BY <1>3 DEF TypeOK, WriterTypeOK, InFlight
<1> QED BY <1>3, <1>4, <1>5, <1>6, <1>7

\* No acknowledge is missed: what the transmitter heard follows what is sent.
LEMMA ListenerStep ==
  ASSUME TypeOK, WriterInv, InFlight, ControlEdge, ST' \in 2 .. 5, ACK_OK' = 0
  PROVE  ~deaf' /\ Len(heard') = BYTE'
<1>1. /\ SDAI \in {0, 1} /\ WriterStep(mI2C_GO, mI2C_DATA, SDAI) /\ Slave
      /\ mI2C_GO \in {0, 1} /\ mI2C_DATA \in Entries /\ WriterTypeOK
  BY DEF ControlEdge, SDAI, TypeOK
<1>2. ST \in 1 .. 5
  BY <1>1, WriterMoves DEF WriterTypeOK
<1>3. CASE ST = 1
  BY <1>1, <1>3, StartsInOne, WriterMoves, EmptySeq DEF Slave
<1>4. CASE ST \in 2 .. 4
  BY <1>1, <1>4, StartsInOne, WriterMoves DEF Slave, ByteEnds, InFlight
<1>5. CASE ST = 5 /\ CNT # 9
  <2>1. UNCHANGED <<BYTE, ACK_OK>>
    BY <1>1, <1>5, WriterMoves DEF BitDone
  <2> QED BY <1>1, <1>5, <2>1, StartsInOne DEF Slave, ByteEnds, InFlight
<1>6. CASE ST = 5 /\ CNT = 9
  <2>1. /\ heard' = Append(heard, A) /\ ~deaf'
        /\ heard \in Seq(Bytes) /\ A \in Bytes /\ Len(heard) = BYTE
    BY <1>6, NinthBit
  <2>2. BYTE' = BYTE + 1
    BY <1>1, <1>6, WriterMoves DEF BitDone
  <2> QED BY <2>1, <2>2, AppendByte
<1> QED BY <1>2, <1>3, <1>4, <1>5, <1>6

\* What the writer loads is the entry whose turn it is.
LEMMA LoadsIt ==
  ASSUME TypeOK, WriterInv, Handshake, ControlEdge, ST \in 2 .. 5, LUT_INDEX' > 0, OnTheBus' > 0
  PROVE  LUT_INDEX' = LUT_INDEX /\ OnTheBus' = OnTheBus /\ (ST = 5 => mI2C_DATA = OnTheBus)
<1>1. Config /\ LUT_INDEX \in 0 .. LUT_SIZE /\ LUT_SIZE \in 1 .. 63 /\ mSetup_ST \in 0 .. 2
  BY ConfigConstants DEF ControlEdge, TypeOK
<1>2. LUT_INDEX' = LUT_INDEX
  BY <1>1, FsmMoves
<1> QED BY <1>1, <1>2 DEF Handshake, OnTheBus

\* A setting that is taken after the first entry is the data of the entry whose
\* turn it is, for its register.
LEMMA SettingTaken ==
  ASSUME TypeOK, WriterInv, HeardInv, InFlight, ControlEdge,
         LUT_INDEX > 0, OnTheBus > 0, LUT_INDEX' >= LUT_INDEX
  PROVE  /\ written' = written \/ written' = [written EXCEPT ![OnTheBus] = OnTheBus]
         /\ \A e \in Entries : written[e] = e => written'[e] = e
<1>1. Slave /\ LUT_INDEX \in Int /\ written \in [Entries -> Entries \cup {NONE}]
  BY DEF ControlEdge, TypeOK
<1>2. written' # written => ByteEnds /\ Len(heard) = 2 /\ written' = [written EXCEPT ![heard[2].of] = A.of]
  <2>1. LUT_INDEX' \in Int
    BY ConfigConstants DEF ControlEdge, TypeOK, Config, Sending, Sent, LoadEntry, AwaitEnd, NextEntry
  <2> QED BY <1>1, <2>1 DEF Slave
<1>3. ByteEnds /\ Len(heard) = 2 => A.of = OnTheBus /\ heard[2].of = OnTheBus
  BY DEF ByteEnds, HeardInv, InFlight, TypeOK, WriterTypeOK
<1>4. written' = written \/ written' = [written EXCEPT ![OnTheBus] = OnTheBus]
  BY <1>2, <1>3
<1> QED BY <1>1, <1>4

LEMMA InFlightStep ==
  ASSUME TypeOK, WriterInv, HeardInv, Handshake, InFlight, ControlEdge
  PROVE  InFlight'
<1>1. /\ SDAI \in {0, 1} /\ WriterStep(mI2C_GO, mI2C_DATA, SDAI) /\ Slave /\ Config
      /\ mI2C_GO \in {0, 1} /\ mI2C_DATA \in Entries /\ WriterTypeOK
      /\ LUT_INDEX \in 0 .. LUT_SIZE /\ LUT_SIZE \in 1 .. 63
      /\ ST \in 0 .. 9 \cup {30, 31} /\ BYTE \in 0 .. 2 /\ mSetup_ST \in 0 .. 2
  BY ConfigConstants DEF ControlEdge, SDAI, TypeOK, WriterTypeOK, BYTE_NUM
<1>2. ST' \in 2 .. 5 /\ ACK_OK' = 0 => ~deaf' /\ Len(heard') = BYTE'
  BY ListenerStep
<1>3. ASSUME LUT_INDEX' > 0, OnTheBus' > 0
      PROVE  /\ ST' \in 2 .. 5 /\ BYTE' > 0 => A'.of = OnTheBus'
             /\ ST' \in 2 .. 5 /\ Len(heard') = 2 => heard'[2].of = OnTheBus'
  <2> SUFFICES ASSUME ST' \in 2 .. 5
               PROVE  /\ BYTE' > 0 => A'.of = OnTheBus'
                      /\ Len(heard') = 2 => heard'[2].of = OnTheBus'
    OBVIOUS
  <2>1. CASE ST = 1
    <3>1. BYTE' = 0 /\ Len(heard') = 0
      BY <1>1, <2>1, WriterMoves, StartsInOne, EmptySeq DEF Slave
    <3> QED BY <3>1
  <2>2. CASE ST # 1
    <3>1. ST \in 2 .. 5
      BY <1>1, <2>2, WriterMoves
    <3>2. LUT_INDEX' = LUT_INDEX /\ OnTheBus' = OnTheBus /\ (ST = 5 => mI2C_DATA = OnTheBus)
      BY <1>3, <3>1, LoadsIt
    <3>3. CASE ST # 5 \/ CNT # 9
      <4>1. UNCHANGED <<A, BYTE>>
        BY <1>1, <3>1, <3>3, WriterMoves DEF BitDone
      <4>2. heard' = heard
        BY <1>1, <3>1, <3>3, StartsInOne DEF Slave, ByteEnds
      <4> QED BY <1>3, <3>1, <3>2, <4>1, <4>2 DEF InFlight
    <3>4. CASE ST = 5 /\ CNT = 9
      <4>1. BYTE # 2 /\ BYTE' = BYTE + 1 /\ A'.of = OnTheBus'
        BY <1>1, <3>2, <3>4, WriterMoves, LoadedIsByte DEF BitDone, BYTE_NUM
      <4>2. heard' = heard \/ heard' = Append(heard, A)
        BY <1>1, <3>4, StartsInOne DEF Slave, ByteEnds
      <4>3. heard \in Seq(Bytes) /\ Len(heard) \in Nat /\ Len(heard) <= BYTE /\ A \in Bytes
        BY <3>1 DEF TypeOK, WriterTypeOK, HeardInv
      <4>4. Len(heard) < 2
        BY <1>1, <4>1, <4>3 DEF TypeOK, WriterTypeOK
      <4>5. Len(heard') = 2 => Len(heard) = 1 /\ heard'[2] = A
        BY <4>2, <4>3, <4>4, SecondIsNew, Zenon
      <4>6. Len(heard') = 2 => BYTE > 0
        <5>1. BYTE \in 0 .. 2
          BY <1>1 DEF TypeOK, WriterTypeOK, BYTE_NUM
        <5>2. \A b \in 0 .. 2 : 1 <= b => b > 0
          OBVIOUS
        <5> QED BY <4>3, <4>5, <5>1, <5>2, Zenon
      <4> QED BY <1>3, <3>1, <3>2, <4>1, <4>5, <4>6 DEF InFlight
    <3> QED BY <3>3, <3>4
  <2> QED BY <2>1, <2>2
<1>4. ASSUME LUT_INDEX' \in 1 .. LUT_SIZE - 1
      PROVE  /\ mSetup_ST' = 1 /\ ST' \in 6 .. 9 \cup {30} /\ ACK_OK' = 0
                  => written'[LUT_INDEX'] = LUT_INDEX'
             /\ mSetup_ST' = 2 => written'[LUT_INDEX'] = LUT_INDEX'
  <2>1. LUT_INDEX' > 0 /\ OnTheBus' > 0
    BY <1>1, <1>4 DEF OnTheBus
  <2>2. \/ /\ LUT_INDEX' = LUT_INDEX
           /\ mSetup_ST' = 1 => mSetup_ST = 1 \/ ST \in {1, 2, 30, 31}
           /\ mSetup_ST' = 1 /\ ST = 30 => mSetup_ST = 1 \/ mI2C_GO = 0
           /\ mSetup_ST' = 2 => mSetup_ST = 1 /\ ST = 30 /\ ACK_OK = 0
        \/ mSetup_ST' = 0
    BY <1>1, <2>1, FsmMoves
  <2>3. CASE mSetup_ST' = 0
    BY <2>3
  <2>4. CASE mSetup_ST' # 0
    <3>1. LUT_INDEX' = LUT_INDEX /\ LUT_INDEX \in 1 .. LUT_SIZE - 1 /\ LUT_INDEX \in Entries
          /\ OnTheBus = LUT_INDEX /\ OnTheBus > 0
      BY <1>1, <1>4, <2>2, <2>4, ConfigConstants DEF OnTheBus
    <3>2. written[LUT_INDEX] = LUT_INDEX => written'[LUT_INDEX] = LUT_INDEX
      BY <1>1, <3>1, SettingTaken
    <3>3. CASE mSetup_ST' = 2
      BY <2>2, <3>1, <3>2, <3>3 DEF InFlight
    <3>4. CASE mSetup_ST' = 1 /\ ST' \in 6 .. 9 \cup {30} /\ ACK_OK' = 0
      <4>1. ST \in 5 .. 9 \cup {30} /\ mSetup_ST = 1
        BY <1>1, <2>2, <3>1, <3>4, WriterMoves DEF Handshake
      <4>2. CASE ST = 5
        <5>1. CNT = 9 /\ BYTE = 2
          BY <1>1, <3>4, <4>2, WriterMoves DEF BitDone, BYTE_NUM
        <5>2. ~StartCondition /\ ByteEnds /\ Acknowledges /\ Len(heard) = 2
          BY <3>4, <4>2, <5>1, NinthBit
        <5>3. written' = [written EXCEPT ![heard[2].of] = A.of]
          BY <1>1, <3>1, <5>2 DEF Slave
        <5>4. heard[2].of = LUT_INDEX /\ A.of = LUT_INDEX
          BY <3>1, <4>2, <5>1, <5>2 DEF InFlight
        <5>5. written \in [Entries -> Entries \cup {NONE}]
          BY DEF TypeOK
        <5> QED BY <3>1, <5>3, <5>4, <5>5
      <4>3. CASE ST \in 6 .. 9 \cup {30}
        <5>1. ACK_OK = 0
          BY <1>1, <3>4, <4>3, WriterMoves
        <5> QED BY <3>1, <3>2, <4>1, <4>3, <5>1 DEF InFlight
      <4> QED BY <4>1, <4>2, <4>3
    <3> QED BY <3>3, <3>4
  <2> QED BY <2>3, <2>4
<1> QED BY <1>2, <1>3, <1>4 DEF InFlight

\* The rest of a clock cycle, and what the environment does, moves neither the
\* FSM nor the writer; a reset starts both again.
LEMMA ConfigStep ==
  ASSUME TypeOK, WriterInv, HeardInv, Handshake, InFlight, [Next]_vars
  PROVE  Handshake' /\ InFlight'
<1>1. CASE ControlEdge
  BY <1>1, HandshakeStep, InFlightStep
<1>2. CASE UNCHANGED <<fsm, writer, slave>>
  BY <1>2 DEF fsm, writer, slave, Handshake, InFlight, OnTheBus
<1>3. CASE AssertReset
  BY <1>3, ConfigConstants DEF AssertReset, WriterReset, Handshake, InFlight, TypeOK, OnTheBus
<1> QED BY <1>1, <1>2, <1>3
        DEF Next, Cycle, ReleaseReset, Interrupt, PlugOrUnplug, vars

\* An entry that is passed, the first aside, is one the transmitter took, and
\* what it takes afterwards is another's.
LEMMA PassStep ==
  ASSUME TypeOK, WriterInv, HeardInv, Handshake, InFlight, PassedMeansTaken, [Next]_vars
  PROVE  PassedMeansTaken'
<1>1. /\ LUT_INDEX \in 0 .. LUT_SIZE /\ LUT_SIZE \in 1 .. 63 /\ mSetup_ST \in 0 .. 2
      /\ Entries = 0 .. LUT_SIZE - 1
  BY ConfigConstants DEF TypeOK
<1>2. CASE ControlEdge
  <2>1. \/ LUT_INDEX' = LUT_INDEX
        \/ LUT_INDEX' = 0
        \/ LUT_INDEX' = LUT_INDEX + 1 /\ mSetup_ST = 2 /\ LUT_INDEX < LUT_SIZE
    BY <1>2 DEF ControlEdge, Config, Sending, Sent, LoadEntry, AwaitEnd, NextEntry
  <2> SUFFICES ASSUME NEW e \in 1 .. LUT_INDEX' - 1
               PROVE  written'[e] = e
    BY Zenon DEF PassedMeansTaken
  <2>2. /\ LUT_INDEX' >= LUT_INDEX /\ e \in Entries /\ LUT_INDEX > 0 /\ OnTheBus > 0
        /\ e \in 1 .. LUT_INDEX - 1 \/ (e = LUT_INDEX /\ mSetup_ST = 2 /\ LUT_INDEX < LUT_SIZE)
    BY <1>1, <2>1 DEF OnTheBus
  <2>3. written[e] = e
    BY <1>1, <2>2 DEF PassedMeansTaken, InFlight
  <2> QED BY <1>2, <2>2, <2>3, SettingTaken
<1>3. CASE UNCHANGED <<fsm, writer, slave>>
  BY <1>3, Zenon DEF fsm, slave, PassedMeansTaken
<1>4. CASE AssertReset
  BY <1>4 DEF AssertReset, PassedMeansTaken
<1> QED BY <1>2, <1>3, <1>4
        DEF Next, Cycle, ReleaseReset, Interrupt, PlugOrUnplug, vars

\* For a table of any size: however the transmitter comes, goes, refuses bytes
\* or asks for the table again, and whenever the reset comes, the FSM passes no
\* entry but the first that the transmitter has not taken whole, and no later
\* transfer, mixed by a restart of the table or not, spoils its register.
THEOREM NoEntryIsLost == Spec => []PassedMeansTaken
<1> DEFINE IInv == WriterInv /\ HeardInv /\ Handshake /\ InFlight /\ PassedMeansTaken
<1>1. Init => TypeOK /\ IInv
  <2> SUFFICES ASSUME Init PROVE Handshake /\ InFlight /\ PassedMeansTaken
    BY CountersStart
  <2> QED BY ConfigConstants DEF Init, WriterInit, Handshake, InFlight, PassedMeansTaken
<1>2. TypeOK /\ IInv /\ [Next]_vars => TypeOK' /\ IInv'
  BY CountersKeep, ConfigStep, PassStep
<1>3. IInv => PassedMeansTaken
  OBVIOUS
<1> QED BY <1>1, <1>2, <1>3, PTL DEF Spec
=============================================================================
