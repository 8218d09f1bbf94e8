----------------------------- MODULE MCJtagUart -----------------------------
(* Rings of three slots, which hold two bytes, behind FIFOs of one; reads   *)
(* and writes of one or two bytes, which may need two pieces.  The bytes of *)
(* each direction alternate between two values: then a byte differs from    *)
(* its neighbours, and, as three is odd, from what its slot held before it. *)
EXTENDS JtagUart

Before(s) == (s + BUF_LEN - 1) % BUF_LEN

\* The last byte the host has sent, and the last one a writer has published.
LastSent == IF hw_rx # <<>> THEN hw_rx[Len(hw_rx)] ELSE rx_buf[Before(rx_in)]
LastWritten == tx_buf[Before(tx_in)]

BytesAlternate ==
  /\ \A b \in Bytes : hw_rx' = Append(hw_rx, b) => b # LastSent
  /\ op = "write" /\ op' = "write_publish" =>
       LET data == <<LastWritten>> \o piece'
       IN  \A k \in 2 .. Len(data) : data[k] # data[k - 1]

\* Both buffers are zero at first.
AlternatingSpec ==
  /\ Init /\ rx_buf = [s \in Slots |-> 0]
  /\ [][Next /\ BytesAlternate]_vars
  /\ WF_vars(Irq) /\ WF_vars(Continue) /\ WF_vars(TimeoutCallback)
=============================================================================
