------------------------------ MODULE I2cWriter ------------------------------
(***************************************************************************)
(* telecran/i2c/I2C_WRITE_WDATA.v: the state machine that shifts three     *)
(* bytes out on SDA, four control clock edges a bit, nine bits a byte.     *)
(*                                                                         *)
(* A byte is abstracted to a record: which of the three it is, and the     *)
(* entry of the table it was loaded from.  Its eight bits are then not     *)
(* known, so SDA takes either value while they go out; the ninth bit, a 1  *)
(* appended to every byte, leaves SDA to the slave.                        *)
(***************************************************************************)
EXTENDS Integers

CONSTANT Entries      \* what the word on REG_DATA may come from

VARIABLES ST, CNT, BYTE, A, SDAO, SCLO, END_OK, ACK_OK

lines == <<SDAO, SCLO>>
writer == <<ST, CNT, BYTE, A, SDAO, SCLO, END_OK, ACK_OK>>

BYTE_NUM == 2
Bytes == [part : {"address", "register", "data"}, of : Entries]
Loaded(part, entry) == [part |-> part, of |-> entry]

WriterInit ==
  /\ ST = 0
  /\ CNT = 0 /\ BYTE = 0 /\ A \in {Loaded("address", e) : e \in Entries}
  /\ SDAO \in {0, 1} /\ SCLO \in {0, 1} /\ END_OK \in {0, 1} /\ ACK_OK \in {0, 1}

Drive(sda, scl) == SDAO' = sda /\ SCLO' = scl

Idle(GO) ==
  /\ ST = 0
  /\ Drive(1, 1)
  /\ ACK_OK' = 0 /\ CNT' = 0 /\ END_OK' = 1 /\ BYTE' = 0
  /\ ST' = IF GO = 1 THEN 30 ELSE 0
  /\ UNCHANGED A

Start(word) ==
  /\ ST = 1 /\ ST' = 2
  /\ Drive(0, 1)
  /\ A' = Loaded("address", word)
  /\ UNCHANGED <<CNT, BYTE, END_OK, ACK_OK>>

\* Mutant: the clock is not brought down before the bits.
ClockLow_LeavesClock ==
  ST = 2 /\ ST' = 3 /\ Drive(0, SCLO) /\ UNCHANGED <<CNT, BYTE, A, END_OK, ACK_OK>>

ClockLow == ST = 2 /\ ST' = 3 /\ Drive(0, 0) /\ UNCHANGED <<CNT, BYTE, A, END_OK, ACK_OK>>

Shift ==
  /\ ST = 3 /\ ST' = 4
  /\ SDAO' \in IF CNT = 8 THEN {1} ELSE {0, 1}
  /\ UNCHANGED <<SCLO, CNT, BYTE, A, END_OK, ACK_OK>>

ClockHigh ==
  /\ ST = 4 /\ ST' = 5
  /\ SCLO' = 1 /\ CNT' = CNT + 1
  /\ UNCHANGED <<SDAO, BYTE, A, END_OK, ACK_OK>>

\* Mutant: the acknowledge of the last byte is not looked at.
BitDone_LastAckIgnored(word, SDAI) ==
  /\ ST = 5
  /\ SCLO' = 0 /\ UNCHANGED <<SDAO, END_OK>>
  /\ IF CNT = 9
       THEN IF BYTE = BYTE_NUM
              THEN ST' = 6 /\ UNCHANGED <<CNT, BYTE, A, ACK_OK>>
              ELSE /\ ST' = 2 /\ CNT' = 0 /\ BYTE' = BYTE + 1
                   /\ A' = Loaded(IF BYTE = 0 THEN "register" ELSE "data", word)
                   /\ ACK_OK' = IF SDAI = 1 THEN 1 ELSE ACK_OK
       ELSE ST' = 2 /\ UNCHANGED <<CNT, BYTE, A, ACK_OK>>

\* The clock falls; after the ninth bit the acknowledge is on SDAI.  A missing
\* acknowledge is remembered until the next transfer starts.
BitDone(word, SDAI) ==
  /\ ST = 5
  /\ SCLO' = 0 /\ UNCHANGED <<SDAO, END_OK>>
  /\ IF CNT = 9
       THEN /\ ACK_OK' = IF SDAI = 1 THEN 1 ELSE ACK_OK
            /\ IF BYTE = BYTE_NUM
                 THEN ST' = 6 /\ UNCHANGED <<CNT, BYTE, A>>
                 ELSE /\ ST' = 2 /\ CNT' = 0 /\ BYTE' = BYTE + 1
                      /\ A' = Loaded(IF BYTE = 0 THEN "register" ELSE "data", word)
       ELSE ST' = 2 /\ UNCHANGED <<CNT, BYTE, A, ACK_OK>>

\* The three edges of a stop condition.
Stop ==
  /\ ST \in 6 .. 8 /\ ST' = ST + 1
  /\ IF ST = 6 THEN Drive(0, 0) ELSE IF ST = 7 THEN Drive(0, 1) ELSE Drive(1, 1)
  /\ UNCHANGED <<CNT, BYTE, A, END_OK, ACK_OK>>

Finish ==
  /\ ST = 9 /\ ST' = 30
  /\ Drive(1, 1)
  /\ CNT' = 0 /\ END_OK' = 1 /\ BYTE' = 0
  /\ UNCHANGED <<A, ACK_OK>>

WaitGoLow(GO) ==
  /\ ST = 30
  /\ ST' = IF GO = 0 THEN 31 ELSE 30
  /\ UNCHANGED <<CNT, BYTE, A, SDAO, SCLO, END_OK, ACK_OK>>

\* Mutant: a missing acknowledge is never forgotten.
Begin_KeepsAck ==
  /\ ST = 31 /\ ST' = 1
  /\ END_OK' = 0
  /\ UNCHANGED <<CNT, BYTE, A, SDAO, SCLO, ACK_OK>>

Begin ==
  /\ ST = 31 /\ ST' = 1
  /\ END_OK' = 0 /\ ACK_OK' = 0
  /\ UNCHANGED <<CNT, BYTE, A, SDAO, SCLO>>

\* One edge of PT_CK.
WriterStep(GO, word, SDAI) ==
  \/ Idle(GO) \/ Start(word) \/ ClockLow \/ Shift \/ ClockHigh
  \/ BitDone(word, SDAI) \/ Stop \/ Finish \/ WaitGoLow(GO) \/ Begin

\* RESET_N low resets the state only: the lines keep their levels.
WriterReset == ST' = 0 /\ UNCHANGED <<CNT, BYTE, A, SDAO, SCLO, END_OK, ACK_OK>>

WriterTypeOK ==
  /\ ST \in 0 .. 9 \cup {30, 31} /\ CNT \in 0 .. 9 /\ BYTE \in 0 .. BYTE_NUM
  /\ A \in Bytes
  /\ SDAO \in {0, 1} /\ SCLO \in {0, 1} /\ END_OK \in {0, 1} /\ ACK_OK \in {0, 1}
=============================================================================
