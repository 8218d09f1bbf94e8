---------------------------- MODULE FeatureList ----------------------------
(***************************************************************************)
(* The walk of a device feature list (intel_fpga_api_cmn_dfl.c) and the    *)
(* table of interfaces it fills (intel_fpga_api_cmn_inf.c).                *)
(*                                                                         *)
(* A list is in a ROM: headers, each with the next one and a list of       *)
(* parameter blocks, some of which branch to a list of their own.  It is   *)
(* walked twice, once to count the interfaces and once to describe them,   *)
(* by a function that calls itself.  What it returns to are frames here,   *)
(* without those of the last call a function makes.                        *)
(***************************************************************************)
EXTENDS Integers, Sequences, FiniteSets

CONSTANTS
  Headers, First,              \* addresses of headers, the one to start at
  NONE,
  ROMs,                        \* what the hardware may hold
  DFH_PARENT_STACK_INCR_SIZE,  \* 8 in the source
  MaxOpen                      \* interfaces open at once, a bound

\* next is NONE at the end of a list; a block is a header it branches to or
\* NONE; the last block may carry data itself or be followed by an empty one.
ROMType == [next : [Headers -> Headers \cup {NONE}],
            blocks : [Headers -> Seq(Headers \cup {NONE})],
            last_has_data : [Headers -> BOOLEAN]]

ASSUME FeatureConstants ==
  /\ First \in Headers /\ NONE \notin Headers
  /\ DFH_PARENT_STACK_INCR_SIZE \in Nat \ {0, 1} /\ MaxOpen \in Nat
  /\ \A r \in ROMs : r \in ROMType

VARIABLES
  rom,                          \* never changes
  phase,                        \* idle, count, collect; corrupt: the heap was overwritten
  frames,                       \* calls to return to: a header, the next of its blocks
  head, top, size,              \* dfh_parent_stack
  s_scanned_interface_count, s_interface_index,
  interface_vec,                \* g_common_fpga_interface_info_vec, from 0
  live                          \* the blocks of the heap that are allocated

walk == <<phase, frames>>
indices == <<s_scanned_interface_count, s_interface_index>>
dfh_parent_stack == <<head, top, size>>
vars == <<rom, walk, dfh_parent_stack, indices, interface_vec, live>>

-----------------------------------------------------------------------------
(* The stack of parents.  It starts as zeros, so that slot 0 is not used. *)

Zeros(n) == [i \in 0 .. n - 1 |-> 0]

dfh_parent_stack_peek == head[top]

\* Mutant: the slot that is not used was counted.
Room_Less == IF top = size THEN size + DFH_PARENT_STACK_INCR_SIZE - 1 ELSE size

\* The size of the stack after dfh_parent_stack_resize, before a push.
Room == IF top = size THEN size + DFH_PARENT_STACK_INCR_SIZE ELSE size

\* Is the slot that a push writes outside?
Overruns == top + 1 >= Room

dfh_parent_stack_push(data) ==
  /\ size' = Room /\ top' = top + 1
  /\ head' = [i \in 0 .. Room - 1 |->
                IF i = top + 1 THEN data ELSE IF i < size THEN head[i] ELSE 0]

\* The top of the stack never goes below 0: it was 0 before the first push.
dfh_parent_stack_pop == top' = top - 1 /\ UNCHANGED <<head, size>>

-----------------------------------------------------------------------------
(* The table of interfaces. *)

Interfaces == DOMAIN interface_vec
Empty == [dfh |-> NONE, parent |-> 0, num_of_parameters |-> 0,
          is_mmio_opened |-> FALSE, is_interrupt_opened |-> FALSE]

\* Parameters that are kept: the empty block after the last one is counted.
NumOfParameters(d) ==
  LET n == Len(rom.blocks[d])
  IN  IF n = 0 \/ rom.last_has_data[d] THEN n ELSE n + 1

\* What set_parameter_properties allocates for header d at index i.
Allocated(i, d) ==
  IF rom.blocks[d] = <<>> THEN {}
    ELSE {<<"parameters", i, 0>>} \cup {<<"data", i, j>> : j \in 1 .. Len(rom.blocks[d])}

\* Mutant: the last parameter's data is left.
Freed_ButLast(vec, n) ==
  UNION {{<<"parameters", i, 0>>} \cup {<<"data", i, j>> : j \in 1 .. vec[i].num_of_parameters - 1}
           : i \in {k \in DOMAIN vec : k >= n}}

\* What shortening the table to n interfaces frees, and nothing if it grows.
Freed(vec, n) ==
  UNION {{<<"parameters", i, 0>>} \cup {<<"data", i, j>> : j \in 1 .. vec[i].num_of_parameters}
           : i \in {k \in DOMAIN vec : k >= n}}

\* common_fpga_interface_info_vec_resize
Resized(vec, n) == [i \in 0 .. n - 1 |-> IF i \in DOMAIN vec THEN vec[i] ELSE Empty]
Cleared(heap, vec) == heap \ (Freed(vec, 0) \cup {<<"vec", 0, 0>>})

-----------------------------------------------------------------------------
(* A walk. *)

Described(d, parent) ==
  [dfh |-> d, parent |-> parent, num_of_parameters |-> NumOfParameters(d),
   is_mmio_opened |-> FALSE, is_interrupt_opened |-> FALSE]

\* deal_with_interface_at_current_level up to its parameters; parent is what
\* is at the top of the stack by then.
Visit(d, parent) ==
  IF phase = "count"
    THEN /\ s_scanned_interface_count' = s_scanned_interface_count + 1
         /\ UNCHANGED <<s_interface_index, interface_vec, live>>
    ELSE /\ s_interface_index' = s_interface_index + 1
         /\ interface_vec' = [interface_vec EXCEPT ![s_interface_index + 1] = Described(d, parent)]
         /\ live' = live \cup Allocated(s_interface_index + 1, d)
         /\ UNCHANGED s_scanned_interface_count

Walking == phase \in {"count", "collect"} /\ UNCHANGED rom
Frame(d) == [dfh |-> d, block |-> 1]
frame == frames[Len(frames)]
Returned == SubSeq(frames, 1, Len(frames) - 1)
Blocks == rom.blocks[frame.dfh]
Advanced == Append(Returned, [frame EXCEPT !.block = @ + 1])

\* common_dfl_scan_multi_interfaces, up to the first header.
StartScan ==
  /\ phase = "idle" /\ phase' = "count" /\ UNCHANGED rom
  /\ s_scanned_interface_count' = 1 /\ frames' = <<Frame(First)>>
  /\ interface_vec' = Resized(interface_vec, 0)
  /\ live' = Cleared(live, interface_vec) \cup {<<"stack", 0, 0>>}
  /\ dfh_parent_stack_push(-1)
  /\ UNCHANGED s_interface_index

\* Mutant: a block that is the last and carries data is not looked at.
NextBlock_NotLast ==
  /\ Walking /\ frames # <<>> /\ frame.block <= Len(Blocks)
  /\ \/ Blocks[frame.block] = NONE
     \/ frame.block = Len(Blocks) /\ rom.last_has_data[frame.dfh]
  /\ frames' = Advanced
  /\ UNCHANGED <<phase, dfh_parent_stack, indices, interface_vec, live>>

\* A parameter block that is no branch.
NextBlock ==
  /\ Walking /\ frames # <<>> /\ frame.block <= Len(Blocks)
  /\ Blocks[frame.block] = NONE
  /\ frames' = Advanced
  /\ UNCHANGED <<phase, dfh_parent_stack, indices, interface_vec, live>>

\* Mutant: the parent of a branch is that of the header that branches.
Branch_Grandparent ==
  /\ Walking /\ frames # <<>> /\ frame.block <= Len(Blocks)
  /\ Blocks[frame.block] # NONE
  /\ IF Overruns
       THEN /\ phase' = "corrupt"
            /\ UNCHANGED <<frames, dfh_parent_stack, indices, interface_vec, live>>
       ELSE /\ dfh_parent_stack_push(dfh_parent_stack_peek)
            /\ frames' = Append(Advanced, Frame(Blocks[frame.block]))
            /\ Visit(Blocks[frame.block], dfh_parent_stack_peek)
            /\ UNCHANGED phase

\* handle_branch_param_id: the branch is walked before the blocks after it.
\* What it pushes is the index of the last interface described.
Branch ==
  /\ Walking /\ frames # <<>> /\ frame.block <= Len(Blocks)
  /\ Blocks[frame.block] # NONE
  /\ IF Overruns
       THEN /\ phase' = "corrupt"
            /\ UNCHANGED <<frames, dfh_parent_stack, indices, interface_vec, live>>
       ELSE /\ dfh_parent_stack_push(s_interface_index)
            /\ frames' = Append(Advanced, Frame(Blocks[frame.block]))
            /\ Visit(Blocks[frame.block], s_interface_index)
            /\ UNCHANGED phase

\* The next header of the same list.
NextFeature ==
  /\ Walking /\ frames # <<>> /\ frame.block > Len(Blocks)
  /\ rom.next[frame.dfh] # NONE
  /\ frames' = Append(Returned, Frame(rom.next[frame.dfh]))
  /\ Visit(rom.next[frame.dfh], dfh_parent_stack_peek)
  /\ UNCHANGED <<phase, dfh_parent_stack>>

EndOfList ==
  /\ Walking /\ frames # <<>> /\ frame.block > Len(Blocks)
  /\ rom.next[frame.dfh] = NONE
  /\ dfh_parent_stack_pop /\ frames' = Returned
  /\ UNCHANGED <<phase, indices, interface_vec, live>>

\* All are counted: the table is made, and the second walk begins.
StartCollecting ==
  /\ Walking /\ phase = "count" /\ frames = <<>>
  /\ phase' = "collect" /\ frames' = <<Frame(First)>>
  /\ s_interface_index' = 0
  /\ interface_vec' = [Resized(interface_vec, s_scanned_interface_count)
                         EXCEPT ![0] = Described(First, -1)]
  /\ live' = live \cup {<<"vec", 0, 0>>} \cup Allocated(0, First)
  /\ dfh_parent_stack_push(-1)
  /\ UNCHANGED s_scanned_interface_count

\* All are described: the stack is given back.
EndScan ==
  /\ Walking /\ phase = "collect" /\ frames = <<>>
  /\ phase' = "idle"
  /\ size' = 0 /\ head' = Zeros(0) /\ UNCHANGED top
  /\ live' = live \ {<<"stack", 0, 0>>}
  /\ UNCHANGED <<frames, indices, interface_vec>>

Walk == NextBlock \/ Branch \/ NextFeature \/ EndOfList \/ StartCollecting \/ EndScan

-----------------------------------------------------------------------------
(* What a program calls.  An index beyond the table does nothing. *)

Set(i, field, value) ==
  /\ phase = "idle"
  /\ interface_vec' = [interface_vec EXCEPT ![i] = [@ EXCEPT ![field] = value]]
  /\ UNCHANGED <<rom, walk, dfh_parent_stack, indices, live>>

Open == {i \in Interfaces : interface_vec[i].is_mmio_opened \/ interface_vec[i].is_interrupt_opened}

fpga_open(i) ==
  ~interface_vec[i].is_mmio_opened /\ Cardinality(Open \cup {i}) <= MaxOpen
    /\ Set(i, "is_mmio_opened", TRUE)

fpga_interrupt_open(i) ==
  ~interface_vec[i].is_interrupt_opened /\ Cardinality(Open \cup {i}) <= MaxOpen
    /\ Set(i, "is_interrupt_opened", TRUE)

fpga_close(i) == Set(i, "is_mmio_opened", FALSE)
fpga_interrupt_close(i) == Set(i, "is_interrupt_opened", FALSE)

fpga_platform_cleanup ==
  /\ phase = "idle" /\ Interfaces # {}
  /\ interface_vec' = Resized(interface_vec, 0)
  /\ live' = Cleared(live, interface_vec)
  /\ UNCHANGED <<rom, walk, dfh_parent_stack, indices>>

-----------------------------------------------------------------------------
Init ==
  /\ rom \in ROMs
  /\ phase = "idle" /\ frames = <<>>
  /\ head = Zeros(0) /\ top = 0 /\ size = 0
  /\ s_scanned_interface_count = 0 /\ s_interface_index = 0
  /\ interface_vec = Zeros(0) /\ live = {}

Next ==
  \/ StartScan \/ Walk
  \/ \E i \in Interfaces :
       fpga_open(i) \/ fpga_close(i) \/ fpga_interrupt_open(i) \/ fpga_interrupt_close(i)
  \/ fpga_platform_cleanup

Spec == Init /\ [][Next]_vars

-----------------------------------------------------------------------------
(* Properties. *)

\* The walk stays in the ROM and its stack within itself; an interface is
\* empty until it is described.
TypeOK ==
  /\ rom \in ROMType /\ phase \in {"idle", "count", "collect", "corrupt"}
  /\ frames \in Seq([dfh : Headers, block : Nat \ {0}])
  /\ size \in Nat /\ top \in Nat /\ head \in [0 .. size - 1 -> Int]
  /\ s_scanned_interface_count \in Nat /\ s_interface_index \in Nat
  /\ interface_vec \in [Interfaces -> [dfh : Headers \cup {NONE}, parent : Int,
       num_of_parameters : Nat, is_mmio_opened : BOOLEAN, is_interrupt_opened : BOOLEAN]]

Scanned == phase = "idle" /\ Interfaces # {}

\* What a header refers to: the branch of each of its blocks, and the next header.
Slots(d) == 1 .. Len(rom.blocks[d]) + 1
Reference(d, k) == IF k = Len(rom.blocks[d]) + 1 THEN rom.next[d] ELSE rom.blocks[d][k]

\* The lists are a tree that holds all headers: no two references to one header,
\* none to the first, and no header that cannot be reached.
ListsAreATree ==
  /\ \A d, e \in Headers : \A k \in Slots(d), l \in Slots(e) :
       Reference(d, k) # NONE /\ Reference(d, k) = Reference(e, l) => d = e /\ k = l
  /\ \A d \in Headers : \A k \in Slots(d) : Reference(d, k) # First
  /\ \A S \in SUBSET Headers :
       /\ First \in S
       /\ \A d \in S : \A k \in Slots(d) : Reference(d, k) \in S \cup {NONE}
       => S = Headers

\* A scan of lists that are a tree describes every header once, a list in its
\* order and a branch after the header it leaves from.
\* [deal_with_interface_at_current_level]
EveryFeatureOnce ==
  Scanned /\ ListsAreATree =>
    /\ {interface_vec[i].dfh : i \in Interfaces} = Headers
    /\ Cardinality(Interfaces) = Cardinality(Headers)
    /\ \A i, j \in Interfaces : \A k \in Slots(interface_vec[i].dfh) :
         Reference(interface_vec[i].dfh, k) = interface_vec[j].dfh => i < j

\* The header a list was branched to from, NONE for the list of the first.
Brancher(e) == {d \in Headers : \E k \in DOMAIN rom.blocks[d] : rom.blocks[d][k] = e}
ParentOf[d \in Headers] ==
  IF Brancher(d) # {} THEN CHOOSE b \in Brancher(d) : TRUE
  ELSE IF d = First THEN NONE
  ELSE ParentOf[CHOOSE e \in Headers : rom.next[e] = d]

Branches(d) == {k \in DOMAIN rom.blocks[d] : rom.blocks[d][k] # NONE}

\* The parent of an interface is the one that branched to its list, however
\* deep the lists before it went, as long as no interface branches twice and the
\* lists are a tree.
\* "Index to the FPGA_INTERFACE_INFO of the parent; -1 if there is no parent"
\* [dfh_parent, handle_branch_param_id]
ParentIsTheBrancher ==
  Scanned /\ ListsAreATree /\ (\A d \in Headers : Cardinality(Branches(d)) <= 1) =>
    \A i \in Interfaces :
      LET p == interface_vec[i].parent
      IN  IF ParentOf[interface_vec[i].dfh] = NONE THEN p = -1
          ELSE p \in Interfaces /\ interface_vec[p].dfh = ParentOf[interface_vec[i].dfh]

\* The stack of parents is overrun by lists nested as deep as it is large,
\* less the two slots that are lost, and by no others.  [dfh_parent_stack_push]
OverrunOnlyWhenDeep ==
  phase = "corrupt" => Len(frames) + 1 >= DFH_PARENT_STACK_INCR_SIZE

\* Between scans the heap holds the table, what it refers to and nothing else,
\* however often it was scanned.  [common_fpga_interface_info_vec_reserve,
\* set_parameter_properties, dfh_parent_stack_resize]
HeapIsTheTable ==
  phase = "idle" =>
    live = IF Interfaces = {} THEN {}
           ELSE {<<"vec", 0, 0>>} \cup
                UNION {Allocated(i, interface_vec[i].dfh) : i \in Interfaces}

=============================================================================
