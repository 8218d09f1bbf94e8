----------------------------- MODULE HdmiConfig ------------------------------
(***************************************************************************)
(* telecran/i2c/I2C_HDMI_Config.v and I2C_Controller.v: the FSM that sends *)
(* a table of register settings to the HDMI transmitter, one I2C write per *)
(* entry, and sends it again when the transmitter asks by HDMI_TX_INT.     *)
(*                                                                         *)
(* A Cycle is one rising edge of iCLK; when the divider makes the control  *)
(* clock rise, the FSM and the writer each take a step on that same edge.  *)
(* The transmitter is external: it acknowledges the bytes that come while  *)
(* it is listening, and takes a setting with the third acknowledge.        *)
(***************************************************************************)
EXTENDS I2cWriter, Sequences

CONSTANTS
  LUT_SIZE,     \* number of entries in the table
  ClkDiv        \* CLK_Freq / I2C_Freq

\* LUT_INDEX has six bits and mI2C_CLK_DIV sixteen: neither may wrap.
ASSUME ConfigConstants ==
  /\ LUT_SIZE \in 1 .. 63
  /\ Entries = 0 .. LUT_SIZE - 1
  /\ ClkDiv \in 0 .. 2^16 - 1

VARIABLES
  iRST_N,
  mI2C_CLK_DIV, mI2C_CTRL_CLK,
  mI2C_DATA,                    \* the entry whose data the register holds
  mI2C_GO, LUT_INDEX, mSetup_ST, READY,
  HDMI_TX_INT,                  \* active low request of the transmitter
  listening,                    \* the transmitter acknowledges (1) or not (0)
  heard,                        \* bytes it acknowledged since the last start
  deaf,                         \* it has missed one, and waits for a start
  written                       \* by entry, whose data its register was given
                                \* last since the table was begun

divider == <<mI2C_CLK_DIV, mI2C_CTRL_CLK>>
fsm == <<mI2C_DATA, mI2C_GO, LUT_INDEX, mSetup_ST, READY>>
slave == <<heard, deaf, written>>
vars == <<iRST_N, divider, fsm, writer, HDMI_TX_INT, listening, slave>>

mI2C_END == END_OK
mI2C_ACK == ACK_OK

\* SDA is low when either end pulls it.
Acknowledges == listening = 1 /\ ~deaf
SDAI == IF SDAO = 1 /\ ~Acknowledges THEN 1 ELSE 0

NONE == -1
Unwritten == [e \in Entries |-> NONE]

Init ==
  /\ iRST_N = 0
  /\ mI2C_CLK_DIV = 0 /\ mI2C_CTRL_CLK = 0
  /\ mI2C_DATA \in Entries
  /\ mI2C_GO = 0 /\ LUT_INDEX = 0 /\ mSetup_ST = 0 /\ READY = 0
  /\ WriterInit
  /\ HDMI_TX_INT = 1 /\ listening \in {0, 1}
  /\ heard = <<>> /\ deaf = TRUE /\ written = Unwritten

-----------------------------------------------------------------------------
(* The configuration FSM, for one edge of the control clock. *)

LoadEntry ==
  /\ mSetup_ST = 0 /\ mSetup_ST' = 1
  /\ mI2C_DATA' = LUT_INDEX
  /\ mI2C_GO' = 1
  /\ UNCHANGED LUT_INDEX

AwaitEnd ==
  /\ mSetup_ST = 1
  /\ IF mI2C_END = 1
       THEN mI2C_GO' = 0 /\ mSetup_ST' = IF mI2C_ACK = 0 THEN 2 ELSE 0
       ELSE UNCHANGED <<mI2C_GO, mSetup_ST>>
  /\ UNCHANGED <<mI2C_DATA, LUT_INDEX>>

NextEntry ==
  /\ mSetup_ST = 2 /\ mSetup_ST' = 0
  /\ LUT_INDEX' = LUT_INDEX + 1
  /\ UNCHANGED <<mI2C_DATA, mI2C_GO>>

Sending ==
  /\ LUT_INDEX < LUT_SIZE
  /\ READY' = 0
  /\ LoadEntry \/ AwaitEnd \/ NextEntry

\* Once the table is sent, a request of the transmitter begins it again.
Sent ==
  /\ LUT_INDEX >= LUT_SIZE
  /\ READY' = 1
  /\ LUT_INDEX' = IF HDMI_TX_INT = 0 THEN 0 ELSE LUT_INDEX
  /\ UNCHANGED <<mI2C_DATA, mI2C_GO, mSetup_ST>>

Config == Sending \/ Sent

-----------------------------------------------------------------------------
(* The transmitter's side of the bus. *)

StartCondition == SDAO = 1 /\ SCLO = 1 /\ SDAO' = 0 /\ SCLO' = 1
ByteEnds == ST = 5 /\ CNT = 9

Slave ==
  /\ IF StartCondition
       THEN heard' = <<>> /\ deaf' = FALSE
     ELSE IF ByteEnds
       THEN /\ heard' = IF Acknowledges THEN Append(heard, A) ELSE heard
            /\ deaf' = ~Acknowledges
     ELSE UNCHANGED <<heard, deaf>>
  /\ written' =
       IF LUT_INDEX' < LUT_INDEX THEN Unwritten
       ELSE IF ByteEnds /\ Acknowledges /\ Len(heard) = 2
         THEN [written EXCEPT ![heard[2].of] = A.of]
       ELSE written

ControlEdge == Config /\ WriterStep(mI2C_GO, mI2C_DATA, SDAI) /\ Slave

Cycle ==
  /\ iRST_N = 1
  /\ IF mI2C_CLK_DIV < ClkDiv
       THEN /\ mI2C_CLK_DIV' = mI2C_CLK_DIV + 1
            /\ UNCHANGED <<mI2C_CTRL_CLK, fsm, writer, slave>>
       ELSE /\ mI2C_CLK_DIV' = 0
            /\ mI2C_CTRL_CLK' = 1 - mI2C_CTRL_CLK
            /\ IF mI2C_CTRL_CLK = 0 THEN ControlEdge
                                    ELSE UNCHANGED <<fsm, writer, slave>>
  /\ UNCHANGED <<iRST_N, HDMI_TX_INT, listening>>

AssertReset ==
  /\ iRST_N = 1 /\ iRST_N' = 0
  /\ mI2C_CLK_DIV' = 0 /\ mI2C_CTRL_CLK' = 0
  /\ READY' = 0 /\ LUT_INDEX' = 0 /\ mSetup_ST' = 0 /\ mI2C_GO' = 0
  /\ WriterReset
  /\ written' = Unwritten
  /\ UNCHANGED <<mI2C_DATA, HDMI_TX_INT, listening, heard, deaf>>

ReleaseReset ==
  /\ iRST_N = 0 /\ iRST_N' = 1
  /\ UNCHANGED <<divider, fsm, writer, HDMI_TX_INT, listening, slave>>

\* The transmitter raises or drops its request, and comes and goes.
Interrupt ==
  /\ HDMI_TX_INT' = 1 - HDMI_TX_INT
  /\ UNCHANGED <<iRST_N, divider, fsm, writer, listening, slave>>

PlugOrUnplug ==
  /\ listening' = 1 - listening
  /\ UNCHANGED <<iRST_N, divider, fsm, writer, HDMI_TX_INT, slave>>

Next == Cycle \/ AssertReset \/ ReleaseReset \/ Interrupt \/ PlugOrUnplug

Spec == Init /\ [][Next]_vars

\* The 50 MHz oscillator never stops.
FairSpec == Spec /\ WF_vars(Cycle)

-----------------------------------------------------------------------------
(* Properties. *)

TypeOK ==
  /\ iRST_N \in {0, 1}
  /\ mI2C_CLK_DIV \in 0 .. ClkDiv /\ mI2C_CTRL_CLK \in {0, 1}
  /\ mI2C_DATA \in Entries /\ mI2C_GO \in {0, 1}
  /\ LUT_INDEX \in 0 .. LUT_SIZE /\ mSetup_ST \in 0 .. 2 /\ READY \in {0, 1}
  /\ WriterTypeOK
  /\ HDMI_TX_INT \in {0, 1} /\ listening \in {0, 1}
  /\ heard \in Seq(Bytes) /\ Len(heard) <= 3 /\ deaf \in BOOLEAN
  /\ written \in [Entries -> Entries \cup {NONE}]

\* Every entry after the first that the FSM has passed was taken whole by the
\* transmitter in this run of the table, however often a byte was refused, and
\* its register still holds it: no later transfer, and none that changed its
\* word half way because the table began again, has given it other data.
PassedMeansTaken ==
  \A e \in 1 .. LUT_INDEX - 1 : written[e] = e

\* While the clock is high SDA moves only to start, before any byte, and to
\* stop, when three bytes have been clocked: no data bit looks like either.
\* The reset is the exception: it lets go of both lines wherever they are.
BusFraming ==
  [][SCLO = 1 /\ SCLO' = 1 /\ SDAO' # SDAO =>
       \/ SDAO' = 0 /\ CNT = 0 /\ BYTE = 0
       \/ SDAO' = 1 /\ CNT = 9 /\ BYTE = BYTE_NUM
       \/ ST = 0]_vars

\* The table gets through once the transmitter keeps listening and keeps its
\* request up.
GetsReady ==
  <>[](iRST_N = 1 /\ listening = 1 /\ HDMI_TX_INT = 1) => <>[](READY = 1)
=============================================================================
