-------------------------------- MODULE Dpram --------------------------------
(***************************************************************************)
(* telecran/dpram.vhd: what one rising edge common to both ports does to   *)
(* the memory.  The memory is a shared variable that two processes access  *)
(* on the same edge, so the order of the two is not defined: Edge gives    *)
(* the outcome of each.  A port is a record of its inputs at the edge.     *)
(***************************************************************************)
EXTENDS Integers

Write(ram, port) ==
  IF port.we = 1 THEN [ram EXCEPT ![port.addr] = port.data] ELSE ram

\* Port x before port y, and what each then finds at its address.
InOrder(ram, x, y) ==
  LET first == Write(ram, x)
      both == Write(first, y)
  IN  [ram |-> both, q |-> first[x.addr], r |-> both[y.addr]]

\* The memory after the edge, with the outputs of port A and port B.
Edge(ram, a, b) ==
  LET ab == InOrder(ram, a, b)
      ba == InOrder(ram, b, a)
  IN  { [ram |-> ab.ram, q_a |-> ab.q, q_b |-> ab.r],
        [ram |-> ba.ram, q_a |-> ba.r, q_b |-> ba.q] }
=============================================================================
