------------------------- MODULE FeatureListProofs -------------------------
(***************************************************************************)
(* Theorems about the walk of a feature list, for every ROM, also for one  *)
(* whose lists never end, and every size of the stack of parents.          *)
(***************************************************************************)
EXTENDS FeatureList, SequenceTheorems, FiniteSetTheorems, WellFoundedInduction, TLAPS

FrameType == [dfh : Headers, block : Nat \ {0}]
Interface == [dfh : Headers \cup {NONE}, parent : Int, num_of_parameters : Nat,
              is_mmio_opened : BOOLEAN, is_interrupt_opened : BOOLEAN]
INCR == DFH_PARENT_STACK_INCR_SIZE

(* The stack holds one parent for every call that has not returned.  It is *)
(* made with the first push and never becomes larger: when it could grow,  *)
(* the push before has gone past its end.                                  *)
StackOK ==
  /\ top = Len(frames)
  /\ phase \in {"count", "collect", "corrupt"} => size = INCR
  /\ phase = "idle" => size = 0 /\ frames = <<>>
  /\ top < INCR
  /\ phase = "corrupt" => top + 1 >= INCR

IndInv == TypeOK /\ StackOK

-----------------------------------------------------------------------------
(* What a step is made of. *)

LEMMA FrameTyped ==
  ASSUME TypeOK, frames # <<>>
  PROVE  /\ frame \in FrameType
         /\ Returned \in Seq(FrameType) /\ Len(Returned) = Len(frames) - 1
         /\ Advanced \in Seq(FrameType) /\ Len(Advanced) = Len(frames)
<1> DEFINE n == Len(frames)
<1>1. frames \in Seq(FrameType) /\ n \in Nat \ {0}  BY DEF TypeOK, FrameType
<1>2. frame \in FrameType  BY <1>1 DEF frame
<1>3. Returned \in Seq(FrameType) /\ Len(Returned) = n - 1
  <2>1. \A i \in 1 .. n - 1 : frames[i] \in FrameType  BY <1>1
  <2>2. n - 1 \in Int /\ 1 \in Int  BY <1>1
  <2>3. /\ SubSeq(frames, 1, n - 1) \in Seq(FrameType)
        /\ Len(SubSeq(frames, 1, n - 1)) = IF 1 <= n - 1 THEN n - 1 - 1 + 1 ELSE 0
    BY <2>1, <2>2, SubSeqProperties
  <2>5. Returned = SubSeq(frames, 1, n - 1)  BY DEF Returned
  <2> HIDE DEF n
  <2>4. n - 1 = IF 1 <= n - 1 THEN n - 1 - 1 + 1 ELSE 0  BY <1>1
  <2> QED  BY <2>3, <2>4, <2>5
<1>4. [frame EXCEPT !.block = @ + 1] \in FrameType  BY <1>2 DEF FrameType
<1>5. Advanced \in Seq(FrameType) /\ Len(Advanced) = n
  BY <1>1, <1>3, <1>4, AppendProperties DEF Advanced
<1> QED  BY <1>2, <1>3, <1>5

LEMMA RomTyped ==
  ASSUME TypeOK, NEW d \in Headers
  PROVE  /\ rom.next[d] \in Headers \cup {NONE}
         /\ rom.blocks[d] \in Seq(Headers \cup {NONE})
         /\ NumOfParameters(d) \in Nat
  BY DEF TypeOK, ROMType, NumOfParameters

\* Where a walk goes to.
LEMMA BranchTo ==
  ASSUME TypeOK, Branch
  PROVE  Blocks[frame.block] \in Headers
<1>1. frame \in FrameType  BY FrameTyped DEF Branch
<1>2. Blocks \in Seq(Headers \cup {NONE})
  BY <1>1, RomTyped DEF Blocks, FrameType
<1>3. frame.block \in 1 .. Len(Blocks)
  BY <1>1, <1>2 DEF Branch, FrameType
<1> QED  BY <1>2, <1>3 DEF Branch

LEMMA NextTo ==
  ASSUME TypeOK, NextFeature
  PROVE  rom.next[frame.dfh] \in Headers
<1>1. frame \in FrameType  BY FrameTyped DEF NextFeature
<1> QED  BY <1>1, RomTyped DEF NextFeature, FrameType

\* A push on a stack that is empty, or is not full.
LEMMA Push ==
  ASSUME TypeOK, NEW data \in Int,
         (size = 0 /\ top = 0) \/ (size = INCR /\ top + 1 < INCR),
         dfh_parent_stack_push(data)
  PROVE  /\ size' = INCR /\ top' = top + 1
         /\ head' \in [0 .. INCR - 1 -> Int]
<1>1. Room = INCR  BY FeatureConstants DEF Room, INCR, TypeOK
<1>2. head' \in [0 .. INCR - 1 -> Int]
  BY <1>1, FeatureConstants DEF dfh_parent_stack_push, TypeOK, INCR
<1>3. size' = INCR /\ top' = top + 1  BY <1>1 DEF dfh_parent_stack_push
<1> QED  BY <1>2, <1>3

-----------------------------------------------------------------------------
LEMMA InitIndInv == Init => IndInv
<1> SUFFICES ASSUME Init PROVE IndInv  OBVIOUS
<1> USE FeatureConstants DEF Init, Zeros, Interfaces
<1>1. frames \in Seq(FrameType)  OBVIOUS
<1>2. TypeOK  BY <1>1 DEF TypeOK, FrameType
<1>3. StackOK  BY DEF StackOK, INCR
<1> QED  BY <1>2, <1>3 DEF IndInv

\* What describing or counting a header changes.
LEMMA VisitTyped ==
  ASSUME TypeOK, NEW d \in Headers, NEW parent \in Int, Visit(d, parent)
  PROVE  /\ s_scanned_interface_count' \in Nat /\ s_interface_index' \in Nat
         /\ interface_vec' \in [DOMAIN interface_vec' -> Interface]
<1>1. Described(d, parent) \in Interface
  BY RomTyped DEF Described, Interface
<1>2. CASE phase = "count"
  BY <1>2 DEF Visit, TypeOK, Interface, Interfaces
<1>3. CASE phase # "count"
  <2>1. s_scanned_interface_count' \in Nat /\ s_interface_index' \in Nat
    BY <1>3 DEF Visit, TypeOK
  <2>2. interface_vec \in [DOMAIN interface_vec -> Interface]
    BY DEF TypeOK, Interface, Interfaces
  <2>3. interface_vec' = [interface_vec EXCEPT ![s_interface_index + 1] = Described(d, parent)]
    BY <1>3 DEF Visit
  <2>4. interface_vec' \in [DOMAIN interface_vec' -> Interface]
    BY <1>1, <2>2, <2>3
  <2> QED  BY <2>1, <2>4
<1> QED  BY <1>2, <1>3

LEMMA ResizedTyped ==
  ASSUME TypeOK, NEW n \in Nat
  PROVE  Resized(interface_vec, n) \in [0 .. n - 1 -> Interface]
<1>1. Empty \in Interface  BY DEF Empty, Interface
<1> QED  BY <1>1 DEF Resized, TypeOK, Interface, Interfaces

\* A step of a program leaves the walk alone.
LEMMA SetStep ==
  ASSUME TypeOK, NEW i \in Interfaces, NEW value \in BOOLEAN,
         NEW field \in {"is_mmio_opened", "is_interrupt_opened"}, Set(i, field, value)
  PROVE  /\ interface_vec' \in [DOMAIN interface_vec' -> Interface]
         /\ UNCHANGED <<rom, phase, frames, head, top, size>>
         /\ UNCHANGED <<s_scanned_interface_count, s_interface_index>>
<1>1. interface_vec[i] \in Interface  BY DEF TypeOK, Interface, Interfaces
<1>2. [interface_vec[i] EXCEPT ![field] = value] \in Interface
  <2>1. CASE field = "is_mmio_opened"  BY <1>1, <2>1 DEF Interface
  <2>2. CASE field = "is_interrupt_opened"  BY <1>1, <2>2 DEF Interface
  <2> QED  BY <2>1, <2>2
<1>3. interface_vec' = [interface_vec EXCEPT ![i] = [interface_vec[i] EXCEPT ![field] = value]]
  BY DEF Set, Interfaces
<1> QED  BY <1>2, <1>3 DEF Set, TypeOK, Interface, Interfaces, walk, indices, dfh_parent_stack

-----------------------------------------------------------------------------
LEMMA IndInvStep == IndInv /\ [Next]_vars => IndInv'
<1> SUFFICES ASSUME IndInv, [Next]_vars PROVE IndInv'  OBVIOUS
<1> DEFINE Typed == /\ frames' \in Seq(FrameType)
                    /\ size' \in Nat /\ top' \in Nat /\ head' \in [0 .. size' - 1 -> Int]
                    /\ s_scanned_interface_count' \in Nat /\ s_interface_index' \in Nat
                    /\ interface_vec' \in [DOMAIN interface_vec' -> Interface]
<1>a. TypeOK /\ StackOK  BY DEF IndInv
<1>b. ASSUME Typed, rom' = rom, phase' \in {"idle", "count", "collect", "corrupt"}, StackOK'
      PROVE  IndInv'
  BY <1>a, <1>b DEF IndInv, TypeOK, FrameType, Interface, Interfaces
<1>c. /\ frames \in Seq(FrameType) /\ size \in Nat /\ top \in Nat
      /\ head \in [0 .. size - 1 -> Int]
      /\ s_scanned_interface_count \in Nat /\ s_interface_index \in Nat
      /\ interface_vec \in [DOMAIN interface_vec -> Interface]
      /\ phase \in {"idle", "count", "collect", "corrupt"}
  BY <1>a DEF TypeOK, FrameType, Interface, Interfaces
<1>d. INCR \in Nat \ {0, 1} /\ First \in Headers  BY FeatureConstants DEF INCR
<1>e. ASSUME NEW d \in Headers PROVE Frame(d) \in FrameType
  BY DEF Frame, FrameType
<1>f. ASSUME NEW d \in Headers PROVE <<Frame(d)>> \in Seq(FrameType) /\ Len(<<Frame(d)>>) = 1
  BY <1>e
<1>1. CASE StartScan
  <2>1. size = 0 /\ top = 0 /\ frames = <<>>
    BY <1>1, <1>a DEF StartScan, StackOK
  <2>2. size' = INCR /\ top' = 1 /\ head' \in [0 .. INCR - 1 -> Int]
    <3>1. dfh_parent_stack_push(-1) /\ -1 \in Int  BY <1>1 DEF StartScan
    <3>2. size' = INCR /\ top' = top + 1 /\ head' \in [0 .. INCR - 1 -> Int]
      BY <1>a, <2>1, <3>1, Push
    <3> QED  BY <2>1, <3>2
  <2>3. interface_vec' \in [DOMAIN interface_vec' -> Interface]
    BY <1>1, <1>a, ResizedTyped DEF StartScan
  <2>4. frames' \in Seq(FrameType) /\ Len(frames') = 1
    BY <1>1, <1>d, <1>f DEF StartScan
  <2>5. Typed  BY <1>1, <1>c, <1>d, <2>2, <2>3, <2>4 DEF StartScan, indices
  <2>6. StackOK'  BY <1>1, <1>d, <2>2, <2>4 DEF StartScan, StackOK
  <2> QED  BY <1>1, <1>b, <2>5, <2>6 DEF StartScan
<1>2. CASE NextBlock
  <2>1. Advanced \in Seq(FrameType) /\ Len(Advanced) = Len(frames)
    BY <1>2, <1>a, FrameTyped DEF NextBlock
  <2>2. Typed  BY <1>2, <1>c, <2>1 DEF NextBlock, dfh_parent_stack, indices
  <2>3. StackOK'
    BY <1>2, <1>a, <2>1 DEF NextBlock, StackOK, Walking, dfh_parent_stack
  <2> QED  BY <1>2, <1>b, <1>c, <2>2, <2>3 DEF NextBlock, Walking
<1>3. CASE Branch
  <2>1. CASE Overruns
    <3>1. top + 1 >= INCR
      BY <1>3, <1>a, <1>c, <1>d, <2>1 DEF Branch, Walking, Overruns, Room, StackOK, INCR
    <3>2. StackOK'
      BY <1>3, <1>a, <2>1, <3>1 DEF Branch, Walking, StackOK, dfh_parent_stack
    <3>3. Typed  BY <1>3, <1>c, <2>1 DEF Branch, dfh_parent_stack, indices
    <3> QED  BY <1>3, <1>b, <2>1, <3>2, <3>3 DEF Branch, Walking
  <2>2. CASE ~Overruns
    <3> DEFINE d == Blocks[frame.block]
    <3>1. size = INCR /\ top + 1 < INCR
      BY <1>3, <1>a, <1>c, <1>d, <2>2 DEF Branch, Walking, Overruns, Room, StackOK, INCR
    <3>2. size' = INCR /\ top' = top + 1 /\ head' \in [0 .. INCR - 1 -> Int]
      BY <1>3, <1>a, <1>c, <2>2, <3>1, Push DEF Branch
    <3>3. d \in Headers
      <4>1. frame \in FrameType  BY <1>3, <1>a, FrameTyped DEF Branch
      <4>2. Blocks \in Seq(Headers \cup {NONE})
        BY <1>a, <4>1, RomTyped DEF Blocks, FrameType
      <4>3. frame.block \in 1 .. Len(Blocks)
        BY <1>3, <4>1, <4>2 DEF Branch, FrameType
      <4> QED  BY <1>3, <4>2, <4>3 DEF Branch
    <3>4. frames' \in Seq(FrameType) /\ Len(frames') = Len(frames) + 1
      <4>1. Advanced \in Seq(FrameType) /\ Len(Advanced) = Len(frames)
        BY <1>3, <1>a, FrameTyped DEF Branch
      <4>2. frames' = Append(Advanced, Frame(d))  BY <1>3, <2>2 DEF Branch
      <4>3. Frame(d) \in FrameType  BY <1>e, <3>3
      <4> HIDE DEF d
      <4> QED  BY <4>1, <4>2, <4>3, AppendProperties
    <3>5. Visit(d, s_interface_index)  BY <1>3, <2>2 DEF Branch
    <3>6. /\ s_scanned_interface_count' \in Nat /\ s_interface_index' \in Nat
          /\ interface_vec' \in [DOMAIN interface_vec' -> Interface]
      <4>1. s_interface_index \in Int  BY <1>c
      <4> HIDE DEF d
      <4> QED  BY <1>a, <3>3, <3>5, <4>1, VisitTyped
    <3>7. Typed  BY <1>c, <1>d, <3>2, <3>4, <3>6
    <3>8. phase' = phase /\ rom' = rom /\ phase \in {"count", "collect"}
      BY <1>3, <2>2 DEF Branch, Walking
    <3>9. StackOK'  BY <1>a, <3>1, <3>2, <3>4, <3>8 DEF StackOK
    <3> QED  BY <1>b, <3>7, <3>8, <3>9
  <2> QED  BY <2>1, <2>2
<1>4. CASE NextFeature
  <2> DEFINE d == rom.next[frame.dfh]
  <2>1. frame \in FrameType /\ Returned \in Seq(FrameType) /\ Len(Returned) = Len(frames) - 1
    BY <1>4, <1>a, FrameTyped DEF NextFeature
  <2>2. d \in Headers
    BY <1>4, <1>a, <2>1, RomTyped DEF NextFeature, FrameType
  <2>3. frames' \in Seq(FrameType) /\ Len(frames') = Len(frames)
    <3>1. frames' = Append(Returned, Frame(d))  BY <1>4 DEF NextFeature
    <3>2. Frame(d) \in FrameType  BY <1>e, <2>2
    <3>3. Len(frames) \in Nat  BY <1>c
    <3> HIDE DEF d
    <3> QED  BY <2>1, <3>1, <3>2, <3>3, AppendProperties
  <2>4. dfh_parent_stack_peek \in Int
    BY <1>4, <1>a, <1>c, <1>d DEF NextFeature, Walking, StackOK, dfh_parent_stack_peek
  <2>5. /\ s_scanned_interface_count' \in Nat /\ s_interface_index' \in Nat
        /\ interface_vec' \in [DOMAIN interface_vec' -> Interface]
    <3>1. Visit(d, dfh_parent_stack_peek)  BY <1>4 DEF NextFeature
    <3> HIDE DEF d
    <3> QED  BY <1>a, <2>2, <2>4, <3>1, VisitTyped
  <2>6. Typed  BY <1>4, <1>c, <2>3, <2>5 DEF NextFeature, dfh_parent_stack
  <2>7. StackOK'
    BY <1>4, <1>a, <2>3 DEF NextFeature, Walking, StackOK, dfh_parent_stack
  <2> QED  BY <1>4, <1>b, <1>c, <2>6, <2>7 DEF NextFeature, Walking
<1>5. CASE EndOfList
  <2>1. Returned \in Seq(FrameType) /\ Len(Returned) = Len(frames) - 1 /\ frames # <<>>
    BY <1>5, <1>a, FrameTyped DEF EndOfList
  <2>2. Len(frames) \in Nat \ {0}  BY <1>c, <2>1
  <2>3. top' = top - 1 /\ top - 1 \in Nat /\ UNCHANGED <<head, size, phase, rom>>
    BY <1>5, <1>a, <2>2 DEF EndOfList, Walking, dfh_parent_stack_pop, StackOK
  <2>4. Typed  BY <1>5, <1>c, <2>1, <2>3 DEF EndOfList, indices
  <2>5. StackOK'
    <3>1. phase \in {"count", "collect"} /\ frames' = Returned
      BY <1>5 DEF EndOfList, Walking
    <3> QED  BY <1>a, <1>c, <1>d, <2>1, <2>2, <2>3, <3>1 DEF StackOK
  <2> QED  BY <1>b, <1>c, <2>3, <2>4, <2>5
<1>6. CASE StartCollecting
  <2>1. size = INCR /\ top = 0
    BY <1>6, <1>a DEF StartCollecting, Walking, StackOK
  <2>2. size' = INCR /\ top' = 1 /\ head' \in [0 .. INCR - 1 -> Int]
    BY <1>6, <1>a, <1>d, <2>1, Push DEF StartCollecting
  <2>3. interface_vec' \in [DOMAIN interface_vec' -> Interface]
    <3>1. Described(First, -1) \in Interface
      BY <1>a, <1>d, RomTyped DEF Described, Interface
    <3> QED  BY <1>6, <1>a, <1>c, <3>1, ResizedTyped DEF StartCollecting
  <2>4. frames' \in Seq(FrameType) /\ Len(frames') = 1
    BY <1>6, <1>d, <1>f DEF StartCollecting
  <2>5. Typed  BY <1>6, <1>c, <1>d, <2>2, <2>3, <2>4 DEF StartCollecting
  <2>6. StackOK'  BY <1>6, <1>d, <2>2, <2>4 DEF StartCollecting, StackOK
  <2> QED  BY <1>6, <1>b, <2>5, <2>6 DEF StartCollecting, Walking
<1>7. CASE EndScan
  <2>1. Typed  BY <1>7, <1>c DEF EndScan, Zeros, indices
  <2>2. StackOK'  BY <1>7, <1>a, <1>d DEF EndScan, StackOK
  <2> QED  BY <1>7, <1>b, <2>1, <2>2 DEF EndScan, Walking
<1>8. ASSUME NEW i \in Interfaces,
             fpga_open(i) \/ fpga_close(i) \/ fpga_interrupt_open(i) \/ fpga_interrupt_close(i)
      PROVE  IndInv'
  <2>1. PICK field \in {"is_mmio_opened", "is_interrupt_opened"}, value \in BOOLEAN :
          Set(i, field, value)
    BY <1>8 DEF fpga_open, fpga_close, fpga_interrupt_open, fpga_interrupt_close
  <2>2. /\ interface_vec' \in [DOMAIN interface_vec' -> Interface]
        /\ UNCHANGED <<rom, phase, frames, head, top, size>>
        /\ UNCHANGED <<s_scanned_interface_count, s_interface_index>>
    BY <1>a, <2>1, SetStep
  <2>3. Typed /\ StackOK'  BY <1>a, <1>c, <2>2 DEF StackOK
  <2> QED  BY <1>b, <1>c, <2>2, <2>3
<1>9. CASE fpga_platform_cleanup
  <2>1. interface_vec' \in [DOMAIN interface_vec' -> Interface]
    BY <1>9, <1>a, ResizedTyped DEF fpga_platform_cleanup
  <2>2. UNCHANGED <<rom, phase, frames, head, top, size, s_scanned_interface_count, s_interface_index>>
    BY <1>9 DEF fpga_platform_cleanup, walk, dfh_parent_stack, indices
  <2>3. Typed /\ StackOK'  BY <1>a, <1>c, <2>1, <2>2 DEF StackOK
  <2> QED  BY <1>b, <1>c, <2>2, <2>3
<1>10. CASE UNCHANGED vars
  <2>1. Typed /\ StackOK'
    BY <1>10, <1>a, <1>c DEF vars, walk, dfh_parent_stack, indices, StackOK
  <2> QED  BY <1>10, <1>b, <1>c, <2>1 DEF vars, walk
<1> QED
  BY <1>1, <1>2, <1>3, <1>4, <1>5, <1>6, <1>7, <1>8, <1>9, <1>10 DEF Next, Walk

LEMMA Invariance == Spec => []IndInv
<1> QED  BY InitIndInv, IndInvStep, PTL DEF Spec

-----------------------------------------------------------------------------
(* Both walks visit the same headers.  A walk is what After makes of the   *)
(* frames and the number of headers visited; the first one leaves behind   *)
(* that it ends, and with which number, and the second follows it.         *)

After(r, c) ==
  LET n == Len(c.f)
      t == c.f[n]
      rest == SubSeq(c.f, 1, n - 1)
      past == Append(rest, [t EXCEPT !.block = @ + 1])
  IN  IF t.block <= Len(r.blocks[t.dfh])
      THEN IF r.blocks[t.dfh][t.block] = NONE THEN [f |-> past, n |-> c.n]
           ELSE [f |-> Append(past, Frame(r.blocks[t.dfh][t.block])), n |-> c.n + 1]
      ELSE IF r.next[t.dfh] = NONE THEN [f |-> rest, n |-> c.n]
           ELSE [f |-> Append(rest, Frame(r.next[t.dfh])), n |-> c.n + 1]

\* The first m positions of a walk of the ROM r.
IsRun(r, run, m) ==
  /\ m \in Nat \ {0} /\ run[1] = [f |-> <<Frame(First)>>, n |-> 1]
  /\ \A i \in 1 .. m : run[i].n \in Nat
  /\ \A i \in 1 .. m - 1 : run[i].f # <<>> /\ run[i + 1] = After(r, run[i])
  /\ \A i, j \in 1 .. m : i <= j => run[i].n <= run[j].n

\* A walk of r that ends with total headers visited, and was once where the frames
\* are f and n are visited.
Follows(r, f, n, total) ==
  \E run, m : /\ IsRun(r, run, m)
              /\ run[m] = [f |-> <<>>, n |-> total]
              /\ \E i \in 1 .. m : run[i] = [f |-> f, n |-> n]

WalkInv ==
  /\ phase = "count" =>
       \E run, m : /\ IsRun(rom, run, m)
                   /\ run[m] = [f |-> frames, n |-> s_scanned_interface_count]
  /\ phase = "collect" =>
       Follows(rom, frames, s_interface_index + 1, s_scanned_interface_count)

\* One position alone is a walk.
LEMMA FirstRun ==
  ASSUME NEW r
  PROVE  IsRun(r, [i \in {1} |-> [f |-> <<Frame(First)>>, n |-> 1]], 1)
BY DEF IsRun

\* A walk goes on.
LEMMA LongerRun ==
  ASSUME NEW r, NEW run, NEW m, IsRun(r, run, m), run[m].f # <<>>
  PROVE  \E longer : IsRun(r, longer, m + 1) /\ longer[m + 1] = After(r, run[m])
<1> DEFINE c == After(r, run[m])
           longer == [i \in 1 .. m + 1 |-> IF i <= m THEN run[i] ELSE c]
<1>1. m \in Nat \ {0}  BY DEF IsRun
<1>2. run[m].n \in Nat /\ c.n \in Nat /\ run[m].n <= c.n
  <2>1. run[m].n \in Nat  BY <1>1 DEF IsRun
  <2>2. c.n = run[m].n \/ c.n = run[m].n + 1  BY DEF After
  <2> HIDE DEF c
  <2> QED  BY <2>1, <2>2
<1> HIDE DEF c
<1>3. longer[m + 1] = c /\ \A i \in 1 .. m : longer[i] = run[i]  BY <1>1
<1> HIDE DEF longer
<1>4. \A i \in 1 .. m + 1 : longer[i].n \in Nat
  <2>1. \A i \in 1 .. m : longer[i].n \in Nat  BY <1>3 DEF IsRun
  <2>2. \A i : i \in 1 .. m + 1 <=> i \in 1 .. m \/ i = m + 1  BY <1>1
  <2> QED  BY <1>2, <1>3, <2>1, <2>2
<1>5. \A i \in 1 .. m : longer[i].f # <<>> /\ longer[i + 1] = After(r, longer[i])
  <2> TAKE i \in 1 .. m
  <2>1. CASE i = m  BY <1>1, <1>3, <2>1 DEF c
  <2>2. CASE i # m
    <3>1. i \in 1 .. m - 1 /\ i + 1 \in 1 .. m  BY <1>1, <2>2
    <3>2. run[i].f # <<>> /\ run[i + 1] = After(r, run[i])  BY <3>1 DEF IsRun
    <3> QED  BY <1>3, <3>1, <3>2
  <2> QED  BY <2>1, <2>2
<1>6. ASSUME NEW i \in 1 .. m + 1, NEW j \in 1 .. m + 1, i <= j
      PROVE  longer[i].n <= longer[j].n
  <2>1. CASE j \in 1 .. m
    <3>1. i \in 1 .. m  BY <1>1, <1>6, <2>1
    <3> QED  BY <1>3, <1>6, <2>1, <3>1 DEF IsRun
  <2>2. CASE i \in 1 .. m /\ j = m + 1
    <3>1. run[i].n \in Nat /\ run[i].n <= run[m].n  BY <1>1, <2>2 DEF IsRun
    <3> QED  BY <1>2, <1>3, <2>2, <3>1
  <2>3. CASE i = m + 1 /\ j = m + 1
    BY <1>2, <1>3, <2>3
  <2> QED  BY <1>1, <1>6, <2>1, <2>2, <2>3
<1>7. longer[1] = [f |-> <<Frame(First)>>, n |-> 1]  BY <1>1, <1>3 DEF IsRun
<1>8. (m + 1) - 1 = m /\ m + 1 \in Nat \ {0}  BY <1>1
<1>9. IsRun(r, longer, m + 1)  BY <1>4, <1>5, <1>6, <1>7, <1>8 DEF IsRun
<1> QED  BY <1>3, <1>9 DEF c

\* A step of either walk is After.
LEMMA WalkIsAfter ==
  ASSUME TypeOK, NextBlock \/ Branch \/ NextFeature \/ EndOfList, phase' # "corrupt"
  PROVE  /\ frames # <<>> /\ phase' = phase /\ rom' = rom
         /\ phase = "count" =>
              [f |-> frames', n |-> s_scanned_interface_count'] =
                After(rom, [f |-> frames, n |-> s_scanned_interface_count])
         /\ phase = "collect" =>
              /\ s_scanned_interface_count' = s_scanned_interface_count
              /\ [f |-> frames', n |-> s_interface_index' + 1] =
                   After(rom, [f |-> frames, n |-> s_interface_index + 1])
<1>1. s_interface_index \in Nat /\ s_scanned_interface_count \in Nat  BY DEF TypeOK
<1>2. frame = frames[Len(frames)] /\ Returned = SubSeq(frames, 1, Len(frames) - 1)
      /\ Blocks = rom.blocks[frame.dfh]
      /\ Advanced = Append(Returned, [frame EXCEPT !.block = @ + 1])
  BY DEF frame, Returned, Blocks, Advanced
<1> DEFINE A(k) == After(rom, [f |-> frames, n |-> k])
<1>3. \A k : A(k) =
        IF frame.block <= Len(Blocks)
        THEN IF Blocks[frame.block] = NONE THEN [f |-> Advanced, n |-> k]
             ELSE [f |-> Append(Advanced, Frame(Blocks[frame.block])), n |-> k + 1]
        ELSE IF rom.next[frame.dfh] = NONE THEN [f |-> Returned, n |-> k]
             ELSE [f |-> Append(Returned, Frame(rom.next[frame.dfh])), n |-> k + 1]
  BY <1>2 DEF After
<1>4. frame.block \in Nat /\ Len(Blocks) \in Nat
  <2>1. frames # <<>>  BY DEF NextBlock, Branch, NextFeature, EndOfList
  <2>2. frame \in FrameType  BY <2>1, FrameTyped
  <2> QED  BY <2>2, RomTyped DEF Blocks, FrameType
<1> HIDE DEF A
<1>5. CASE NextBlock
  BY <1>1, <1>3, <1>5 DEF NextBlock, Walking, indices, A
<1>6. CASE Branch
  <2> DEFINE d == Blocks[frame.block]
  <2>1. /\ frames # <<>> /\ phase' = phase /\ rom' = rom /\ phase \in {"count", "collect"}
        /\ frame.block <= Len(Blocks) /\ d # NONE
        /\ frames' = Append(Advanced, Frame(d)) /\ Visit(d, s_interface_index)
    BY <1>6 DEF Branch, Walking
  <2>2. \A k : A(k) = [f |-> frames', n |-> k + 1]  BY <1>3, <2>1
  <2> HIDE DEF d
  <2> QED  BY <1>1, <2>1, <2>2 DEF Visit, A
<1>7. CASE NextFeature
  <2> DEFINE d == rom.next[frame.dfh]
  <2>1. /\ frames # <<>> /\ phase' = phase /\ rom' = rom /\ phase \in {"count", "collect"}
        /\ ~(frame.block <= Len(Blocks)) /\ d # NONE
        /\ frames' = Append(Returned, Frame(d)) /\ Visit(d, dfh_parent_stack_peek)
    BY <1>4, <1>7 DEF NextFeature, Walking
  <2>2. \A k : A(k) = [f |-> frames', n |-> k + 1]  BY <1>3, <2>1
  <2> HIDE DEF d
  <2> QED  BY <1>1, <2>1, <2>2 DEF Visit, A
<1>8. CASE EndOfList
  <2>1. /\ frames # <<>> /\ phase' = phase /\ rom' = rom /\ UNCHANGED indices
        /\ ~(frame.block <= Len(Blocks)) /\ rom.next[frame.dfh] = NONE
        /\ frames' = Returned
    BY <1>4, <1>8 DEF EndOfList, Walking
  <2>2. \A k : A(k) = [f |-> frames', n |-> k]  BY <1>3, <2>1
  <2> QED  BY <2>1, <2>2 DEF indices, A
<1> QED  BY <1>5, <1>6, <1>7, <1>8

LEMMA WalkInvStep == TypeOK /\ WalkInv /\ [Next]_vars => WalkInv'
<1> SUFFICES ASSUME TypeOK, WalkInv, [Next]_vars PROVE WalkInv'  OBVIOUS
<1>1. CASE StartScan
  <2>1. [f |-> frames', n |-> s_scanned_interface_count'] = [f |-> <<Frame(First)>>, n |-> 1]
    BY <1>1 DEF StartScan
  <2>2. phase' = "count"  BY <1>1 DEF StartScan
  <2> DEFINE run == [i \in {1} |-> [f |-> <<Frame(First)>>, n |-> 1]]
  <2>3. run[1] = [f |-> <<Frame(First)>>, n |-> 1]  OBVIOUS
  <2>4. IsRun(rom', run, 1)  BY FirstRun
  <2> HIDE DEF run
  <2> QED  BY <2>1, <2>2, <2>3, <2>4 DEF WalkInv
<1>2. CASE (NextBlock \/ Branch \/ NextFeature \/ EndOfList) /\ phase' # "corrupt"
  <2>1. /\ frames # <<>> /\ phase' = phase /\ rom' = rom
        /\ phase = "count" =>
             [f |-> frames', n |-> s_scanned_interface_count'] =
               After(rom, [f |-> frames, n |-> s_scanned_interface_count])
        /\ phase = "collect" =>
             /\ s_scanned_interface_count' = s_scanned_interface_count
             /\ [f |-> frames', n |-> s_interface_index' + 1] =
                  After(rom, [f |-> frames, n |-> s_interface_index + 1])
    BY <1>2, WalkIsAfter
  <2>2. CASE phase = "count"
    <3>1. PICK run, m : /\ IsRun(rom, run, m)
                        /\ run[m] = [f |-> frames, n |-> s_scanned_interface_count]
      BY <2>2 DEF WalkInv
    <3>2. PICK longer : IsRun(rom, longer, m + 1) /\ longer[m + 1] = After(rom, run[m])
      BY <2>1, <3>1, LongerRun
    <3> QED  BY <2>1, <2>2, <3>1, <3>2 DEF WalkInv
  <2>3. CASE phase = "collect"
    <3>1. PICK run, m : /\ IsRun(rom, run, m)
                        /\ run[m] = [f |-> <<>>, n |-> s_scanned_interface_count]
                        /\ \E i \in 1 .. m : run[i] = [f |-> frames, n |-> s_interface_index + 1]
      BY <2>3 DEF WalkInv, Follows
    <3>2. PICK i \in 1 .. m : run[i] = [f |-> frames, n |-> s_interface_index + 1]
      BY <3>1
    <3>3. i # m /\ m \in Nat \ {0}
      <4>1. run[m].f = <<>> /\ run[i].f # <<>>  BY <2>1, <3>1, <3>2
      <4> QED  BY <3>1, <4>1 DEF IsRun
    <3>4. i \in 1 .. m - 1 /\ i + 1 \in 1 .. m  BY <3>3
    <3>5. run[i + 1] = After(rom, run[i])  BY <3>1, <3>4 DEF IsRun
    <3>6. \E j \in 1 .. m : run[j] = [f |-> frames', n |-> s_interface_index' + 1]
      BY <2>1, <2>3, <3>2, <3>4, <3>5
    <3> QED  BY <2>1, <2>3, <3>1, <3>6 DEF WalkInv, Follows
  <2> QED  BY <2>1, <2>2, <2>3 DEF WalkInv
<1>3. CASE StartCollecting
  <2>1. /\ phase = "count" /\ frames = <<>> /\ phase' = "collect" /\ rom' = rom
        /\ frames' = <<Frame(First)>> /\ s_interface_index' = 0
        /\ s_scanned_interface_count' = s_scanned_interface_count
    BY <1>3 DEF StartCollecting, Walking
  <2>2. PICK run, m : /\ IsRun(rom, run, m)
                      /\ run[m] = [f |-> <<>>, n |-> s_scanned_interface_count]
    BY <2>1 DEF WalkInv
  <2>3. 1 \in 1 .. m /\ run[1] = [f |-> <<Frame(First)>>, n |-> 1]  BY <2>2 DEF IsRun
  <2>4. [f |-> frames', n |-> s_interface_index' + 1] = [f |-> <<Frame(First)>>, n |-> 1]
    BY <2>1
  <2>5. \E i \in 1 .. m : run[i] = [f |-> frames', n |-> s_interface_index' + 1]
    BY <2>3, <2>4
  <2> QED  BY <2>1, <2>2, <2>5 DEF WalkInv, Follows
<1>4. CASE phase' = phase /\ phase = "idle"  BY <1>4 DEF WalkInv
<1>5. CASE phase' \in {"idle", "corrupt"}  BY <1>5 DEF WalkInv
<1>6. CASE UNCHANGED vars  BY <1>6 DEF WalkInv, vars, walk, indices
<1> QED
  BY <1>1, <1>2, <1>3, <1>4, <1>5, <1>6
  DEF Next, Walk, EndScan, fpga_open, fpga_close, fpga_interrupt_open, fpga_interrupt_close,
      Set, fpga_platform_cleanup, walk

LEMMA WalkInvariance == Spec => []WalkInv
<1>1. Init => WalkInv  BY DEF Init, WalkInv
<1>2. IndInv => TypeOK  BY DEF IndInv
<1> QED  BY <1>1, <1>2, WalkInvStep, Invariance, PTL DEF Spec

\* The second walk does not go beyond the table, and ends when it is full.
LEMMA WithinTheTable ==
  ASSUME NEW r, NEW f, NEW n, NEW total, Follows(r, f, n, total)
  PROVE  n <= total /\ (f = <<>> => n = total)
<1>1. PICK run, m : /\ IsRun(r, run, m)
                    /\ run[m] = [f |-> <<>>, n |-> total]
                    /\ \E i \in 1 .. m : run[i] = [f |-> f, n |-> n]
  BY DEF Follows
<1>2. PICK i \in 1 .. m : run[i] = [f |-> f, n |-> n]
  BY <1>1
<1>3. m \in Nat \ {0}  BY <1>1 DEF IsRun
<1>4. run[i].n <= run[m].n  BY <1>1, <1>3 DEF IsRun
<1>5. ASSUME f = <<>> PROVE i = m
  <2>1. CASE i \in 1 .. m - 1  BY <1>1, <1>2, <1>5, <2>1 DEF IsRun
  <2> QED  BY <1>3, <2>1
<1> QED  BY <1>1, <1>2, <1>4, <1>5

-----------------------------------------------------------------------------
(* The heap holds what the part of the table that is described refers to.  *)

Known(vec, n) ==
  \A i \in 0 .. n - 1 : /\ vec[i].dfh \in Headers
                        /\ vec[i].num_of_parameters = NumOfParameters(vec[i].dfh)

BlocksOf(vec, n) == UNION {Allocated(i, vec[i].dfh) : i \in 0 .. n - 1}

HeapInv ==
  /\ phase = "idle" =>
       \E n \in Nat :
         /\ Interfaces = 0 .. n - 1 /\ Known(interface_vec, n)
         /\ live = IF n = 0 THEN {} ELSE {<<"vec", 0, 0>>} \cup BlocksOf(interface_vec, n)
  /\ phase = "count" => Interfaces = {} /\ live = {<<"stack", 0, 0>>}
  /\ phase = "collect" =>
       /\ Interfaces = 0 .. s_scanned_interface_count - 1
       /\ Known(interface_vec, s_interface_index + 1)
       /\ live = {<<"vec", 0, 0>>, <<"stack", 0, 0>>}
                   \cup BlocksOf(interface_vec, s_interface_index + 1)

LEMMA RomFixed ==
  ASSUME rom' = rom
  PROVE  /\ \A d : NumOfParameters(d)' = NumOfParameters(d)
         /\ \A i, d : Allocated(i, d)' = Allocated(i, d)
         /\ \A n : Known(interface_vec', n) => Known(interface_vec, n)'
         /\ \A n : BlocksOf(interface_vec, n)' = BlocksOf(interface_vec', n)
BY DEF NumOfParameters, Allocated, Known, BlocksOf

\* Entries that are the same for the heap.
LEMMA SameBlocks ==
  ASSUME NEW V, NEW W, NEW n \in Nat, \A i \in 0 .. n - 1 : W[i].dfh = V[i].dfh
  PROVE  BlocksOf(W, n) = BlocksOf(V, n)
BY DEF BlocksOf

\* One entry more.
LEMMA MoreBlocks ==
  ASSUME NEW V, NEW n \in Nat
  PROVE  BlocksOf(V, n + 1) = BlocksOf(V, n) \cup Allocated(n, V[n].dfh)
<1>1. \A i : i \in 0 .. (n + 1) - 1 <=> i \in 0 .. n - 1 \/ i = n  OBVIOUS
<1> QED  BY <1>1 DEF BlocksOf

\* What shortening the table to nothing frees is all that its entries have.
LEMMA AllIsFreed ==
  ASSUME TypeOK, NEW V, NEW n \in Nat, DOMAIN V = 0 .. n - 1, Known(V, n)
  PROVE  BlocksOf(V, n) \subseteq Freed(V, 0)
<1> SUFFICES ASSUME NEW i \in 0 .. n - 1, NEW x \in Allocated(i, V[i].dfh)
             PROVE  x \in Freed(V, 0)
  BY DEF BlocksOf
<1> DEFINE d == V[i].dfh
           m == V[i].num_of_parameters
           S(k) == {<<"parameters", k, 0>>}
                     \cup {<<"data", k, j>> : j \in 1 .. V[k].num_of_parameters}
<1>1. d \in Headers /\ m = NumOfParameters(d)  BY DEF Known
<1>2. rom.blocks[d] \in Seq(Headers \cup {NONE})  BY <1>1, RomTyped
<1>3. m = Len(rom.blocks[d]) \/ m = Len(rom.blocks[d]) + 1
  BY <1>1 DEF NumOfParameters
<1>4. \A j \in 1 .. Len(rom.blocks[d]) : j \in 1 .. m  BY <1>2, <1>3
<1>5. x = <<"parameters", i, 0>> \/ \E j \in 1 .. Len(rom.blocks[d]) : x = <<"data", i, j>>
  BY DEF Allocated
<1>6. x \in S(i)  BY <1>4, <1>5
<1>7. i \in {k \in DOMAIN V : k >= 0}  OBVIOUS
<1>8. Freed(V, 0) = UNION {S(k) : k \in {k \in DOMAIN V : k >= 0}}  BY DEF Freed
<1> HIDE DEF S
<1> QED  BY <1>6, <1>7, <1>8

LEMMA NeverAllocated ==
  ASSUME NEW V, NEW n, NEW a \in {"vec", "stack"}
  PROVE  <<a, 0, 0>> \notin BlocksOf(V, n)
<1>1. \A i, d : <<a, 0, 0>> \notin Allocated(i, d)  BY DEF Allocated
<1> QED  BY <1>1 DEF BlocksOf

\* Between scans everything can be freed.
LEMMA ClearedIdle ==
  ASSUME TypeOK, HeapInv, phase = "idle"
  PROVE  Cleared(live, interface_vec) = {}
<1>1. PICK n \in Nat :
        /\ Interfaces = 0 .. n - 1 /\ Known(interface_vec, n)
        /\ live = IF n = 0 THEN {} ELSE {<<"vec", 0, 0>>} \cup BlocksOf(interface_vec, n)
  BY DEF HeapInv
<1>2. BlocksOf(interface_vec, n) \subseteq Freed(interface_vec, 0)
  BY <1>1, AllIsFreed DEF Interfaces
<1> QED  BY <1>1, <1>2 DEF Cleared

LEMMA EmptyTable ==
  ASSUME NEW V
  PROVE  DOMAIN Resized(V, 0) = {} /\ Known(Resized(V, 0), 0)
BY DEF Resized, Known

\* Describing a header in the second walk.
LEMMA VisitKeepsHeap ==
  ASSUME TypeOK, WalkInv', HeapInv, TypeOK', phase = "collect", phase' = "collect", rom' = rom,
         s_scanned_interface_count' = s_scanned_interface_count,
         NEW d \in Headers, NEW parent, Visit(d, parent)
  PROVE  /\ s_interface_index + 1 \in Interfaces
         /\ interface_vec' = [interface_vec EXCEPT ![s_interface_index + 1] = Described(d, parent)]
         /\ s_interface_index' = s_interface_index + 1
         /\ HeapInv'
<1> DEFINE k == s_interface_index + 1
           V == interface_vec
           W == interface_vec'
<1>1. /\ s_interface_index' = k
      /\ W = [V EXCEPT ![k] = Described(d, parent)]
      /\ live' = live \cup Allocated(k, d)
  BY DEF Visit
<1>2. s_interface_index' + 1 <= s_scanned_interface_count'
  <2>1. Follows(rom', frames', s_interface_index' + 1, s_scanned_interface_count')
    BY DEF WalkInv
  <2> QED  BY <2>1, WithinTheTable
<1>3. k \in Nat /\ s_interface_index \in Nat /\ s_scanned_interface_count \in Nat  BY DEF TypeOK
<1>4. /\ Interfaces = 0 .. s_scanned_interface_count - 1 /\ Known(V, k)
      /\ live = {<<"vec", 0, 0>>, <<"stack", 0, 0>>} \cup BlocksOf(V, k)
  BY DEF HeapInv
<1>5. k \in DOMAIN V  BY <1>1, <1>2, <1>3, <1>4 DEF Interfaces
<1>6. DOMAIN W = DOMAIN V /\ W[k] = Described(d, parent) /\ \A i \in DOMAIN V : i # k => W[i] = V[i]
  BY <1>1, <1>5
<1>7. \A i \in 0 .. k - 1 : i \in DOMAIN V /\ i # k
  BY <1>3, <1>4, <1>5 DEF Interfaces
<1> HIDE DEF k, V, W
<1>8. BlocksOf(W, k + 1) = BlocksOf(V, k) \cup Allocated(k, d)
  <2>1. BlocksOf(W, k + 1) = BlocksOf(W, k) \cup Allocated(k, W[k].dfh)  BY <1>3, MoreBlocks
  <2>2. BlocksOf(W, k) = BlocksOf(V, k)  BY <1>3, <1>6, <1>7, SameBlocks
  <2> QED  BY <1>6, <2>1, <2>2 DEF Described
<1>9. Known(W, k + 1)
  <2> SUFFICES ASSUME NEW i \in 0 .. (k + 1) - 1
               PROVE  W[i].dfh \in Headers /\ W[i].num_of_parameters = NumOfParameters(W[i].dfh)
    BY DEF Known
  <2>1. CASE i = k  BY <1>6, <2>1 DEF Described
  <2>2. CASE i \in 0 .. k - 1  BY <1>4, <1>6, <1>7, <2>2 DEF Known
  <2> QED  BY <1>3, <2>1, <2>2
<1>10. /\ Known(interface_vec, s_interface_index + 1)'
       /\ BlocksOf(interface_vec, s_interface_index + 1)' = BlocksOf(W, k + 1)
  <2>1. /\ \A e : NumOfParameters(e)' = NumOfParameters(e)
        /\ \A i, e : Allocated(i, e)' = Allocated(i, e)
    BY RomFixed
  <2> QED  BY <1>1, <1>9, <2>1 DEF Known, BlocksOf, W
<1>11. k = s_interface_index + 1 /\ W = interface_vec' /\ V = interface_vec
  BY DEF k, W, V
<1>12. Interfaces' = 0 .. s_scanned_interface_count' - 1
  BY <1>4, <1>6, <1>11 DEF Interfaces
<1>13. live' = {<<"vec", 0, 0>>, <<"stack", 0, 0>>}
                 \cup BlocksOf(interface_vec, s_interface_index + 1)'
  BY <1>1, <1>4, <1>8, <1>10
<1>14. HeapInv'  BY <1>10, <1>12, <1>13 DEF HeapInv
<1> QED  BY <1>1, <1>5, <1>11, <1>14 DEF Interfaces

\* A program's call changes nothing else in the table.
LEMMA SetKeeps ==
  ASSUME TypeOK, NEW i \in Interfaces, NEW value \in BOOLEAN,
         NEW field \in {"is_mmio_opened", "is_interrupt_opened"}, Set(i, field, value)
  PROVE  /\ Interfaces' = Interfaces
         /\ \A k \in Interfaces :
              /\ interface_vec'[k].dfh = interface_vec[k].dfh
              /\ interface_vec'[k].parent = interface_vec[k].parent
              /\ interface_vec'[k].num_of_parameters = interface_vec[k].num_of_parameters
<1> DEFINE e == [interface_vec[i] EXCEPT ![field] = value]
<1>1. interface_vec[i] \in Interface  BY DEF TypeOK, Interface, Interfaces
<1>2. /\ e.dfh = interface_vec[i].dfh /\ e.parent = interface_vec[i].parent
      /\ e.num_of_parameters = interface_vec[i].num_of_parameters
  <2>1. CASE field = "is_mmio_opened"  BY <1>1, <2>1 DEF Interface
  <2>2. CASE field = "is_interrupt_opened"  BY <1>1, <2>2 DEF Interface
  <2> QED  BY <2>1, <2>2
<1> HIDE DEF e
<1>3. interface_vec' = [interface_vec EXCEPT ![i] = e]
  BY DEF Set, Interfaces, e
<1>4. interface_vec \in [Interfaces -> Interface]  BY DEF TypeOK, Interface
<1> QED  BY <1>2, <1>3, <1>4 DEF Interfaces

\* A step that leaves the table and the heap as they are.
LEMMA HeapStays ==
  ASSUME HeapInv, phase' = phase, rom' = rom, UNCHANGED <<interface_vec, live>>,
         phase = "collect" => UNCHANGED indices
  PROVE  HeapInv'
<1>1. /\ \A e : NumOfParameters(e)' = NumOfParameters(e)
      /\ \A i, e : Allocated(i, e)' = Allocated(i, e)
  BY RomFixed
<1>2. ASSUME NEW n, Known(interface_vec, n) PROVE Known(interface_vec, n)'
  BY <1>1, <1>2 DEF Known
<1>3. \A n : BlocksOf(interface_vec, n)' = BlocksOf(interface_vec, n)
  BY <1>1 DEF BlocksOf
<1>4. CASE phase = "idle"
  <2>1. PICK n \in Nat :
          /\ Interfaces = 0 .. n - 1 /\ Known(interface_vec, n)
          /\ live = IF n = 0 THEN {} ELSE {<<"vec", 0, 0>>} \cup BlocksOf(interface_vec, n)
    BY <1>4 DEF HeapInv
  <2>2. /\ Interfaces' = 0 .. n - 1 /\ Known(interface_vec, n)'
        /\ live' = IF n = 0 THEN {} ELSE {<<"vec", 0, 0>>} \cup BlocksOf(interface_vec, n)'
    BY <1>2, <1>3, <2>1 DEF Interfaces
  <2> QED  BY <1>4, <2>2 DEF HeapInv
<1>5. CASE phase = "collect"
  <2>1. /\ Known(interface_vec, s_interface_index + 1)
        /\ s_interface_index' = s_interface_index
        /\ s_scanned_interface_count' = s_scanned_interface_count
    BY <1>5 DEF HeapInv, indices
  <2>2. /\ Known(interface_vec, s_interface_index + 1)'
        /\ BlocksOf(interface_vec, s_interface_index + 1)'
             = BlocksOf(interface_vec, s_interface_index + 1)
    BY <1>1, <2>1 DEF Known, BlocksOf
  <2> QED  BY <1>5, <2>1, <2>2 DEF HeapInv, Interfaces
<1>6. CASE phase = "count"  BY <1>6 DEF HeapInv, Interfaces
<1> QED  BY <1>4, <1>5, <1>6 DEF HeapInv

\* What is to be shown of a step to where no scan is under way.
LEMMA IdleHeap ==
  ASSUME phase' = "idle", rom' = rom, NEW n \in Nat,
         Interfaces' = 0 .. n - 1, Known(interface_vec', n),
         live' = IF n = 0 THEN {} ELSE {<<"vec", 0, 0>>} \cup BlocksOf(interface_vec', n)
  PROVE  HeapInv'
<1>1. /\ \A e : NumOfParameters(e)' = NumOfParameters(e)
      /\ \A i, e : Allocated(i, e)' = Allocated(i, e)
  BY RomFixed
<1>2. Known(interface_vec, n)' /\ BlocksOf(interface_vec, n)' = BlocksOf(interface_vec', n)
  BY <1>1 DEF Known, BlocksOf
<1> QED  BY <1>2 DEF HeapInv

LEMMA HeapInvStep ==
  ASSUME TypeOK, TypeOK', WalkInv, WalkInv', HeapInv, [Next]_vars
  PROVE  HeapInv'
<1>1. CASE StartScan
  <2>1. Cleared(live, interface_vec) = {}  BY <1>1, ClearedIdle DEF StartScan
  <2> QED  BY <1>1, <2>1, EmptyTable DEF StartScan, HeapInv, Interfaces
<1>2. CASE NextBlock
  BY <1>2, HeapStays DEF NextBlock, Walking, indices
<1>3. CASE EndOfList
  BY <1>3, HeapStays DEF EndOfList, Walking, indices
<1>4. ASSUME NEW d \in Headers, NEW parent, Visit(d, parent), phase \in {"count", "collect"},
             phase' = phase, rom' = rom
      PROVE  HeapInv'
  <2>1. CASE phase = "count"
    BY <1>4, <2>1, HeapStays DEF Visit
  <2>2. CASE phase = "collect"
    <3>1. s_scanned_interface_count' = s_scanned_interface_count
      BY <1>4, <2>2 DEF Visit
    <3> QED  BY <1>4, <2>2, <3>1, VisitKeepsHeap
  <2> QED  BY <1>4, <2>1, <2>2
<1>5. CASE Branch /\ phase' # "corrupt"
  <2> DEFINE d == Blocks[frame.block]
  <2>1. /\ Visit(d, s_interface_index) /\ phase \in {"count", "collect"}
        /\ phase' = phase /\ rom' = rom
    BY <1>5 DEF Branch, Walking
  <2>2. d \in Headers  BY <1>5, BranchTo
  <2> HIDE DEF d
  <2> QED  BY <1>4, <2>1, <2>2
<1>6. CASE NextFeature
  <2> DEFINE d == rom.next[frame.dfh]
  <2>1. /\ Visit(d, dfh_parent_stack_peek) /\ phase \in {"count", "collect"}
        /\ phase' = phase /\ rom' = rom
    BY <1>6 DEF NextFeature, Walking
  <2>2. d \in Headers  BY <1>6, NextTo
  <2> HIDE DEF d
  <2> QED  BY <1>4, <2>1, <2>2
<1>7. CASE StartCollecting
  <2> DEFINE V == interface_vec
             W == interface_vec'
             total == s_scanned_interface_count
  <2>1. /\ phase = "count" /\ phase' = "collect" /\ rom' = rom
        /\ s_interface_index' = 0 /\ s_scanned_interface_count' = total
        /\ W = [Resized(V, total) EXCEPT ![0] = Described(First, -1)]
        /\ live' = live \cup {<<"vec", 0, 0>>} \cup Allocated(0, First)
    BY <1>7 DEF StartCollecting, Walking
  <2>2. 1 <= total /\ total \in Nat
    <3>1. Follows(rom', frames', s_interface_index' + 1, s_scanned_interface_count')
      BY <2>1 DEF WalkInv
    <3>2. 0 + 1 <= total  BY <2>1, <3>1, WithinTheTable
    <3> QED  BY <3>2 DEF TypeOK
  <2>3. DOMAIN W = 0 .. total - 1 /\ W[0] = Described(First, -1)
    BY <2>1, <2>2 DEF Resized
  <2>4. /\ \A e : NumOfParameters(e)' = NumOfParameters(e)
        /\ \A i, e : Allocated(i, e)' = Allocated(i, e)
    BY <2>1, RomFixed
  <2>5. \A i : i \in 0 .. 1 - 1 <=> i = 0  OBVIOUS
  <2>6. First \in Headers  BY FeatureConstants
  <2> HIDE DEF W
  <2>7. Known(interface_vec, s_interface_index + 1)'
    BY <2>1, <2>3, <2>4, <2>5, <2>6 DEF Known, Described, W
  <2>8. BlocksOf(interface_vec, s_interface_index + 1)' = Allocated(0, First)
    BY <2>1, <2>3, <2>4, <2>5 DEF BlocksOf, Described, W
  <2> QED  BY <2>1, <2>3, <2>7, <2>8 DEF HeapInv, Interfaces, W
<1>8. CASE EndScan
  <2> DEFINE n == s_interface_index + 1
  <2>1. /\ phase = "collect" /\ phase' = "idle" /\ rom' = rom /\ frames = <<>>
        /\ UNCHANGED interface_vec /\ live' = live \ {<<"stack", 0, 0>>}
    BY <1>8 DEF EndScan, Walking
  <2>2. n = s_scanned_interface_count /\ n \in Nat \ {0}
    <3>1. Follows(rom, frames, n, s_scanned_interface_count)  BY <2>1 DEF WalkInv
    <3>2. n \in Nat \ {0}  BY DEF TypeOK
    <3> HIDE DEF n
    <3> QED  BY <2>1, <3>1, <3>2, WithinTheTable
  <2>3. /\ Interfaces = 0 .. n - 1 /\ Known(interface_vec, n)
        /\ live = {<<"vec", 0, 0>>, <<"stack", 0, 0>>} \cup BlocksOf(interface_vec, n)
    BY <2>1, <2>2 DEF HeapInv
  <2>4. <<"stack", 0, 0>> \notin BlocksOf(interface_vec, n)  BY NeverAllocated
  <2> HIDE DEF n
  <2>5. live' = {<<"vec", 0, 0>>} \cup BlocksOf(interface_vec, n)
    <3>1. <<"vec", 0, 0>> # <<"stack", 0, 0>>  OBVIOUS
    <3> QED  BY <2>1, <2>3, <2>4, <3>1
  <2>6. Known(interface_vec', n) /\ BlocksOf(interface_vec', n) = BlocksOf(interface_vec, n)
    BY <2>1, <2>3
  <2> QED  BY <2>1, <2>2, <2>3, <2>5, <2>6, IdleHeap DEF Interfaces
<1>9. ASSUME NEW i \in Interfaces,
             fpga_open(i) \/ fpga_close(i) \/ fpga_interrupt_open(i) \/ fpga_interrupt_close(i)
      PROVE  HeapInv'
  <2>1. PICK field \in {"is_mmio_opened", "is_interrupt_opened"}, value \in BOOLEAN :
          Set(i, field, value)
    BY <1>9 DEF fpga_open, fpga_close, fpga_interrupt_open, fpga_interrupt_close
  <2>2. phase = "idle" /\ phase' = phase /\ rom' = rom /\ live' = live
    BY <2>1 DEF Set, walk
  <2>3. PICK n \in Nat :
          /\ Interfaces = 0 .. n - 1 /\ Known(interface_vec, n)
          /\ live = IF n = 0 THEN {} ELSE {<<"vec", 0, 0>>} \cup BlocksOf(interface_vec, n)
    BY <2>2 DEF HeapInv
  <2>4. /\ Interfaces' = Interfaces
        /\ \A k \in Interfaces : /\ interface_vec'[k].dfh = interface_vec[k].dfh
                                 /\ interface_vec'[k].num_of_parameters = interface_vec[k].num_of_parameters
    BY <2>1, SetKeeps
  <2>5. BlocksOf(interface_vec', n) = BlocksOf(interface_vec, n)
    BY <2>3, <2>4, SameBlocks
  <2>6. Known(interface_vec', n)  BY <2>3, <2>4 DEF Known
  <2> QED  BY <2>2, <2>3, <2>4, <2>5, <2>6, IdleHeap
<1>10. CASE fpga_platform_cleanup
  <2>1. Cleared(live, interface_vec) = {}  BY <1>10, ClearedIdle DEF fpga_platform_cleanup
  <2>2. /\ phase' = "idle" /\ interface_vec' = Resized(interface_vec, 0) /\ live' = {}
    BY <1>10, <2>1 DEF fpga_platform_cleanup, walk
  <2>3. Interfaces' = 0 .. 0 - 1 /\ \A i \in 0 .. 0 - 1 : FALSE
    BY <2>2 DEF Resized, Interfaces
  <2> QED  BY <2>2, <2>3 DEF HeapInv, Known
<1>11. CASE UNCHANGED vars
  BY <1>11, HeapStays DEF vars, walk, indices
<1>12. CASE phase' = "corrupt"  BY <1>12 DEF HeapInv
<1> QED
  BY <1>1, <1>2, <1>3, <1>5, <1>6, <1>7, <1>8, <1>9, <1>10, <1>11, <1>12 DEF Next, Walk

LEMMA HeapInvariance == Spec => []HeapInv
<1>1. Init => HeapInv
  <2> SUFFICES ASSUME Init PROVE HeapInv  OBVIOUS
  <2>1. Interfaces = 0 .. 0 - 1 /\ \A i \in 0 .. 0 - 1 : FALSE
    BY DEF Init, Zeros, Interfaces
  <2> QED  BY <2>1 DEF Init, HeapInv, Known
<1>2. IndInv => TypeOK  BY DEF IndInv
<1>3. TypeOK /\ TypeOK' /\ WalkInv /\ WalkInv' /\ HeapInv /\ [Next]_vars => HeapInv'
  BY HeapInvStep
<1> QED  BY <1>1, <1>2, <1>3, Invariance, WalkInvariance, PTL DEF Spec

-----------------------------------------------------------------------------
(* The second walk of lists that are a tree.  The headers described are    *)
(* those that the frames have passed: what a block before the one a frame  *)
(* is at refers to is described, what the others refer to is not yet, and  *)
(* a header without a frame is done with.                                  *)

Listed(V, n) == {V[i].dfh : i \in 0 .. n - 1}

\* The first n interfaces: no header twice, and each after one that refers to it.
TableInv(V, n) ==
  /\ n \in Nat \ {0} /\ V[0].dfh = First
  /\ \A i \in 0 .. n - 1 : V[i].dfh \in Headers
  /\ \A i, j \in 0 .. n - 1 : V[i].dfh = V[j].dfh => i = j
  /\ \A i \in 1 .. n - 1 :
       \E j \in 0 .. i - 1 : \E k \in Slots(V[j].dfh) : Reference(V[j].dfh, k) = V[i].dfh

Taken(L, d, k) == Reference(d, k) \in L \cup {NONE}

AtBlock(t, L) ==
  /\ t.dfh \in L /\ t.block \in Slots(t.dfh)
  /\ \A k \in Slots(t.dfh) :
       IF k < t.block THEN Taken(L, t.dfh, k) ELSE Reference(t.dfh, k) \notin L

FrontInv(f, L) ==
  /\ \A a \in 1 .. Len(f) : AtBlock(f[a], L)
  /\ \A a, c \in 1 .. Len(f) : f[a].dfh = f[c].dfh => a = c
  /\ \A d \in L : (\A a \in 1 .. Len(f) : f[a].dfh # d) => \A k \in Slots(d) : Taken(L, d, k)

Single == \A d \in Headers : Cardinality(Branches(d)) <= 1

\* A header has the parent of the one before it in its list, or the one that
\* branched to it.
ParentsInv(V, n) ==
  /\ V[0].parent = -1
  /\ \A i, j \in 0 .. n - 1 : \A k \in Slots(V[i].dfh) :
       Reference(V[i].dfh, k) = V[j].dfh =>
         V[j].parent = IF k = Len(rom.blocks[V[i].dfh]) + 1 THEN V[i].parent ELSE i

\* The stack has the parents of the lists that are being walked.  The last frame
\* is that of the interface described last unless it has branched; all others have.
StackInv(f, V, n, h) ==
  \A a \in 1 .. Len(f) :
    /\ \A i \in 0 .. n - 1 : V[i].dfh = f[a].dfh => h[a] = V[i].parent
    /\ a < Len(f) => f[a].block - 1 \in Branches(f[a].dfh)
    /\ a = Len(f) /\ (\A k \in Branches(f[a].dfh) : k >= f[a].block) => V[n - 1].dfh = f[a].dfh

WalkedInv(f, V, n, h) ==
  /\ TableInv(V, n) /\ FrontInv(f, Listed(V, n))
  /\ Single => ParentsInv(V, n) /\ StackInv(f, V, n, h)

DoneInv(V, n) ==
  /\ TableInv(V, n)
  /\ \A d \in Listed(V, n) : \A k \in Slots(d) : Taken(Listed(V, n), d, k)
  /\ Single => ParentsInv(V, n)

\* e is described now: slot b of d refers to it and nothing else does, and it
\* refers to nothing that is described.
IsNew(L, d, b, e) ==
  /\ e \in Headers /\ e \notin L
  /\ \A c \in Headers : \A k \in Slots(c) : Reference(c, k) = e => c = d /\ k = b
  /\ \A k \in Slots(e) : Reference(e, k) \notin L \cup {e}

\* The first n interfaces are the same, up to what is open.
SameTable(V, W, n) == \A i \in 0 .. n - 1 : W[i].dfh = V[i].dfh /\ W[i].parent = V[i].parent

TreeInv ==
  ListsAreATree =>
    /\ phase = "collect" => WalkedInv(frames, interface_vec, s_interface_index + 1, head)
    /\ Scanned => \E n \in Nat : Interfaces = 0 .. n - 1 /\ DoneInv(interface_vec, n)

LEMMA SlotsTyped ==
  ASSUME TypeOK, NEW d \in Headers
  PROVE  /\ Len(rom.blocks[d]) \in Nat /\ Slots(d) = 1 .. Len(rom.blocks[d]) + 1
         /\ \A k \in Slots(d) : Reference(d, k) \in Headers \cup {NONE}
         /\ \A k \in 1 .. Len(rom.blocks[d]) :
              k \in Slots(d) /\ Reference(d, k) = rom.blocks[d][k]
         /\ Reference(d, Len(rom.blocks[d]) + 1) = rom.next[d]
         /\ Branches(d) = {k \in 1 .. Len(rom.blocks[d]) : Reference(d, k) # NONE}
<1>1. /\ rom.next[d] \in Headers \cup {NONE}
      /\ rom.blocks[d] \in Seq(Headers \cup {NONE})
  BY RomTyped
<1>2. \A k \in 1 .. Len(rom.blocks[d]) : k # Len(rom.blocks[d]) + 1 /\ k \in DOMAIN rom.blocks[d]
  BY <1>1
<1> QED  BY <1>1, <1>2 DEF Slots, Reference, Branches

LEMMA NewHeader ==
  ASSUME TypeOK, ListsAreATree, NEW V, NEW n, TableInv(V, n),
         NEW d \in Listed(V, n), NEW b \in Slots(d), NEW e \in Headers,
         Reference(d, b) = e, e \notin Listed(V, n)
  PROVE  IsNew(Listed(V, n), d, b, e)
<1>1. Listed(V, n) \subseteq Headers  BY DEF Listed, TableInv
<1>2. e # NONE  BY FeatureConstants
<1>3. \A c \in Headers : \A k \in Slots(c) : Reference(c, k) = e => c = d /\ k = b
  BY <1>1, <1>2 DEF ListsAreATree
<1>4. ASSUME NEW k \in Slots(e), Reference(e, k) = e PROVE FALSE
  <2>1. e = d  BY <1>3, <1>4
  <2> QED  BY <2>1
<1>5. ASSUME NEW k \in Slots(e), Reference(e, k) \in Listed(V, n) PROVE FALSE
  <2>1. PICK i \in 0 .. n - 1 : V[i].dfh = Reference(e, k)  BY <1>5 DEF Listed
  <2>2. i # 0
    <3>1. Reference(e, k) # First  BY DEF ListsAreATree
    <3> QED  BY <2>1, <3>1 DEF TableInv
  <2>3. n \in Nat /\ i \in 1 .. n - 1  BY <2>2 DEF TableInv
  <2>4. PICK j \in 0 .. i - 1 : \E l \in Slots(V[j].dfh) : Reference(V[j].dfh, l) = V[i].dfh
    BY <2>3 DEF TableInv
  <2>5. j \in 0 .. n - 1  BY <2>3
  <2>6. V[j].dfh \in Listed(V, n) /\ V[j].dfh \in Headers  BY <2>5 DEF Listed, TableInv
  <2>7. V[i].dfh # NONE  BY <2>1, FeatureConstants DEF TableInv
  <2>8. V[j].dfh = e
    BY <2>1, <2>4, <2>6, <2>7 DEF ListsAreATree
  <2> QED  BY <2>6, <2>8
<1> QED  BY <1>3, <1>4, <1>5 DEF IsNew

\* The table with one header more.
LEMMA TableGrows ==
  ASSUME NEW V, NEW W, NEW n, TableInv(V, n), NEW d \in Listed(V, n), NEW b \in Slots(d),
         NEW e \in Headers, Reference(d, b) = e, e \notin Listed(V, n),
         W[n].dfh = e, SameTable(V, W, n)
  PROVE  TableInv(W, n + 1) /\ Listed(W, n + 1) = Listed(V, n) \cup {e}
<1> USE DEF SameTable
<1>1. n \in Nat \ {0}  BY DEF TableInv
<1>2. \A i : i \in 0 .. (n + 1) - 1 <=> i \in 0 .. n - 1 \/ i = n  BY <1>1
<1>3. Listed(W, n + 1) = Listed(V, n) \cup {e}  BY <1>2 DEF Listed
<1>4. W[0].dfh = First /\ \A i \in 0 .. (n + 1) - 1 : W[i].dfh \in Headers
  BY <1>1, <1>2 DEF TableInv
<1>5. ASSUME NEW i \in 0 .. (n + 1) - 1, NEW j \in 0 .. (n + 1) - 1, W[i].dfh = W[j].dfh
      PROVE  i = j
  <2>1. \A k \in 0 .. n - 1 : W[k].dfh \in Listed(V, n) /\ W[k].dfh # e  BY DEF Listed
  <2>2. CASE i \in 0 .. n - 1 /\ j \in 0 .. n - 1  BY <1>5, <2>2 DEF TableInv
  <2> QED  BY <1>2, <1>5, <2>1, <2>2
<1>6. ASSUME NEW i \in 1 .. (n + 1) - 1
      PROVE  \E j \in 0 .. i - 1 : \E k \in Slots(W[j].dfh) : Reference(W[j].dfh, k) = W[i].dfh
  <2>0. i = n \/ i \in 1 .. n - 1  BY <1>1
  <2>1. CASE i = n
    <3>1. PICK j \in 0 .. n - 1 : V[j].dfh = d  BY DEF Listed
    <3> QED  BY <2>1, <3>1
  <2>2. CASE i \in 1 .. n - 1
    <3>1. PICK j \in 0 .. i - 1 : \E k \in Slots(V[j].dfh) : Reference(V[j].dfh, k) = V[i].dfh
      BY <2>2 DEF TableInv
    <3>2. j \in 0 .. n - 1 /\ i \in 0 .. n - 1  BY <1>1, <2>2
    <3>3. W[j].dfh = V[j].dfh /\ W[i].dfh = V[i].dfh  BY <3>2
    <3> QED  BY <3>1, <3>3
  <2> HIDE DEF SameTable
  <2> QED  BY <2>0, <2>1, <2>2
<1> QED  BY <1>1, <1>3, <1>4, <1>5, <1>6 DEF TableInv

\* The last frame passes a block that is no branch.
LEMMA FrontPasses ==
  ASSUME TypeOK, NEW f \in Seq(FrameType), NEW g, NEW L, L \subseteq Headers, FrontInv(f, L),
         Len(f) > 0, f[Len(f)].block <= Len(rom.blocks[f[Len(f)].dfh]),
         Reference(f[Len(f)].dfh, f[Len(f)].block) = NONE,
         Len(g) = Len(f), \A a \in 1 .. Len(f) - 1 : g[a] = f[a],
         g[Len(f)].dfh = f[Len(f)].dfh, g[Len(f)].block = f[Len(f)].block + 1
  PROVE  FrontInv(g, L)
<1> DEFINE n == Len(f)
           d == f[n].dfh
           b == f[n].block
<1>1. n \in Nat \ {0}  OBVIOUS
<1>2. AtBlock(f[n], L)  BY <1>1 DEF FrontInv
<1>3. d \in Headers /\ b \in Slots(d)  BY <1>2 DEF AtBlock
<1>4. Len(rom.blocks[d]) \in Nat /\ Slots(d) = 1 .. Len(rom.blocks[d]) + 1  BY <1>3, SlotsTyped
<1>5. \A a \in 1 .. n : g[a].dfh = f[a].dfh  BY <1>1
<1>6. AtBlock(g[n], L)
  <2>1. b + 1 \in Slots(d)  BY <1>3, <1>4
  <2>2. \A k \in Slots(d) : k < b + 1 <=> k < b \/ k = b  BY <1>3, <1>4
  <2>3. \A k \in Slots(d) : IF k < b THEN Taken(L, d, k) ELSE Reference(d, k) \notin L
    BY <1>2 DEF AtBlock
  <2>4. Taken(L, d, b)  BY DEF Taken
  <2>5. d \in L /\ g[n].dfh = d /\ g[n].block = b + 1  BY <1>2 DEF AtBlock
  <2> HIDE DEF n, d, b
  <2>6. \A k \in Slots(d) : IF k < b + 1 THEN Taken(L, d, k) ELSE Reference(d, k) \notin L
    BY <2>2, <2>3, <2>4
  <2> QED  BY <2>1, <2>5, <2>6 DEF AtBlock
<1>7. \A a \in 1 .. n : AtBlock(g[a], L)
  <2> TAKE a \in 1 .. n
  <2>1. CASE a \in 1 .. n - 1  BY <2>1 DEF FrontInv
  <2> QED  BY <1>1, <1>6, <2>1
<1> QED  BY <1>5, <1>7 DEF FrontInv

\* What is common to the steps that describe a header: the frames but the last.
LEMMA FrontGrows ==
  ASSUME TypeOK, NEW f \in Seq(FrameType), NEW L, L \subseteq Headers, FrontInv(f, L), Len(f) > 0,
         NEW e, NEW b, IsNew(L, f[Len(f)].dfh, b, e)
  PROVE  /\ \A a \in 1 .. Len(f) - 1 : AtBlock(f[a], L \cup {e})
         /\ \A t : t.dfh = e /\ t.block = 1 => AtBlock(t, L \cup {e})
         /\ \A c \in L : (\A a \in 1 .. Len(f) : f[a].dfh # c) =>
              \A k \in Slots(c) : Taken(L \cup {e}, c, k)
         /\ \A a \in 1 .. Len(f) : f[a].dfh # e
<1> USE DEF IsNew
<1> DEFINE d == f[Len(f)].dfh
<1>1. Len(f) \in Nat \ {0}  OBVIOUS
<1>2. \A a \in 1 .. Len(f) - 1 : f[a].dfh # d
  BY <1>1 DEF FrontInv
<1>3. ASSUME NEW a \in 1 .. Len(f) - 1 PROVE AtBlock(f[a], L \cup {e})
  <2>1. AtBlock(f[a], L)  BY DEF FrontInv
  <2>2. f[a].dfh # d  BY <1>2
  <2>3. f[a].dfh \in Headers  BY <2>1 DEF AtBlock
  <2>4. \A k \in Slots(f[a].dfh) : Reference(f[a].dfh, k) # e  BY <2>2, <2>3
  <2> QED  BY <2>1, <2>4 DEF AtBlock, Taken
<1>4. ASSUME NEW t, t.dfh = e, t.block = 1 PROVE AtBlock(t, L \cup {e})
  <2>1. Slots(e) = 1 .. Len(rom.blocks[e]) + 1 /\ Len(rom.blocks[e]) \in Nat  BY SlotsTyped
  <2>2. 1 \in Slots(e) /\ \A k \in Slots(e) : ~(k < 1)  BY <2>1
  <2> QED  BY <1>4, <2>2 DEF AtBlock
<1>5. \A c \in L : (\A a \in 1 .. Len(f) : f[a].dfh # c) =>
        \A k \in Slots(c) : Taken(L \cup {e}, c, k)
  BY DEF FrontInv, Taken
<1>6. \A a \in 1 .. Len(f) : f[a].dfh # e  BY DEF FrontInv, AtBlock
<1> QED  BY <1>3, <1>4, <1>5, <1>6

\* The last frame branches to e.
LEMMA FrontBranches ==
  ASSUME TypeOK, NEW f \in Seq(FrameType), NEW g, NEW L, L \subseteq Headers, FrontInv(f, L),
         Len(f) > 0, f[Len(f)].block <= Len(rom.blocks[f[Len(f)].dfh]),
         NEW e, Reference(f[Len(f)].dfh, f[Len(f)].block) = e,
         IsNew(L, f[Len(f)].dfh, f[Len(f)].block, e),
         Len(g) = Len(f) + 1, \A a \in 1 .. Len(f) - 1 : g[a] = f[a],
         g[Len(f)].dfh = f[Len(f)].dfh, g[Len(f)].block = f[Len(f)].block + 1,
         g[Len(f) + 1].dfh = e, g[Len(f) + 1].block = 1
  PROVE  FrontInv(g, L \cup {e})
<1> DEFINE n == Len(f)
           d == f[n].dfh
           b == f[n].block
           M == L \cup {e}
<1>1. n \in Nat \ {0}  OBVIOUS
<1>2. AtBlock(f[n], L)  BY <1>1 DEF FrontInv
<1>3. d \in Headers /\ d \in L /\ b \in Slots(d) /\ e \notin L
  BY <1>2 DEF AtBlock, IsNew
<1>4. Len(rom.blocks[d]) \in Nat /\ Slots(d) = 1 .. Len(rom.blocks[d]) + 1  BY <1>3, SlotsTyped
<1>5. /\ \A a \in 1 .. n - 1 : AtBlock(f[a], M)
      /\ AtBlock(g[n + 1], M)
      /\ \A c \in L : (\A a \in 1 .. n : f[a].dfh # c) => \A k \in Slots(c) : Taken(M, c, k)
      /\ \A a \in 1 .. n : f[a].dfh # e
  BY FrontGrows
<1>6. \A a : a \in 1 .. n + 1 <=> a \in 1 .. n - 1 \/ a = n \/ a = n + 1  BY <1>1
<1>7. /\ \A a \in 1 .. n : g[a].dfh = f[a].dfh
      /\ g[n + 1].dfh = e
  BY <1>1
<1>8. AtBlock(g[n], M)
  <2>1. b + 1 \in Slots(d)  BY <1>3, <1>4
  <2>2. \A k \in Slots(d) : k < b + 1 <=> k < b \/ k = b  BY <1>3, <1>4
  <2>3. \A k \in Slots(d) : IF k < b THEN Taken(L, d, k) ELSE Reference(d, k) \notin L
    BY <1>2 DEF AtBlock
  <2>4. \A k \in Slots(d) : Reference(d, k) = e => k = b  BY <1>3 DEF IsNew
  <2>5. Taken(M, d, b)  BY DEF Taken
  <2>6. g[n].dfh = d /\ g[n].block = b + 1  OBVIOUS
  <2> HIDE DEF n, d, b
  <2>7. \A k \in Slots(d) : IF k < b + 1 THEN Taken(M, d, k) ELSE Reference(d, k) \notin M
    BY <1>3, <2>2, <2>3, <2>4, <2>5 DEF Taken
  <2> QED  BY <1>3, <2>1, <2>6, <2>7 DEF AtBlock
<1>9. \A a \in 1 .. Len(g) : AtBlock(g[a], M)
  <2> TAKE a \in 1 .. Len(g)
  <2>1. CASE a \in 1 .. n - 1  BY <1>5, <2>1
  <2> QED  BY <1>5, <1>6, <1>8, <2>1
<1>10. \A a, c \in 1 .. Len(g) : g[a].dfh = g[c].dfh => a = c
  <2>1. \A a : a \in 1 .. Len(g) <=> a \in 1 .. n \/ a = n + 1  BY <1>1
  <2> QED  BY <1>5, <1>7, <2>1 DEF FrontInv
<1>11. ASSUME NEW c \in M, \A a \in 1 .. Len(g) : g[a].dfh # c
       PROVE  \A k \in Slots(c) : Taken(M, c, k)
  <2>1. \A a : a \in 1 .. Len(g) <=> a \in 1 .. n \/ a = n + 1  BY <1>1
  <2>2. c # e /\ \A a \in 1 .. n : f[a].dfh # c  BY <1>7, <1>11, <2>1
  <2> HIDE DEF n, M
  <2> QED  BY <1>5, <2>2 DEF M
<1> QED  BY <1>9, <1>10, <1>11 DEF FrontInv

\* The last frame goes on to e, the next of its list.
LEMMA FrontMoves ==
  ASSUME TypeOK, NEW f \in Seq(FrameType), NEW g, NEW L, L \subseteq Headers, FrontInv(f, L),
         Len(f) > 0, f[Len(f)].block = Len(rom.blocks[f[Len(f)].dfh]) + 1,
         NEW e, Reference(f[Len(f)].dfh, f[Len(f)].block) = e,
         IsNew(L, f[Len(f)].dfh, f[Len(f)].block, e),
         Len(g) = Len(f), \A a \in 1 .. Len(f) - 1 : g[a] = f[a],
         g[Len(f)].dfh = e, g[Len(f)].block = 1
  PROVE  FrontInv(g, L \cup {e})
<1> DEFINE n == Len(f)
           d == f[n].dfh
           b == f[n].block
           M == L \cup {e}
<1>1. n \in Nat \ {0}  OBVIOUS
<1>2. AtBlock(f[n], L)  BY <1>1 DEF FrontInv
<1>3. d \in Headers /\ d \in L /\ b \in Slots(d) /\ e \notin L
  BY <1>2 DEF AtBlock, IsNew
<1>4. Len(rom.blocks[d]) \in Nat /\ Slots(d) = 1 .. Len(rom.blocks[d]) + 1  BY <1>3, SlotsTyped
<1>5. /\ \A a \in 1 .. n - 1 : AtBlock(f[a], M)
      /\ AtBlock(g[n], M)
      /\ \A c \in L : (\A a \in 1 .. n : f[a].dfh # c) => \A k \in Slots(c) : Taken(M, c, k)
      /\ \A a \in 1 .. n : f[a].dfh # e
  BY FrontGrows
<1>6. \A a : a \in 1 .. n <=> a \in 1 .. n - 1 \/ a = n  BY <1>1
<1>7. \A a \in 1 .. n : AtBlock(g[a], M)
  <2> TAKE a \in 1 .. n
  <2>1. CASE a \in 1 .. n - 1  BY <1>5, <2>1
  <2> QED  BY <1>5, <1>6, <2>1
<1>8. \A a, c \in 1 .. n : g[a].dfh = g[c].dfh => a = c
  BY <1>5, <1>6 DEF FrontInv
<1>9. \A k \in Slots(d) : Taken(M, d, k)
  <2> TAKE k \in Slots(d)
  <2>1. CASE k = b  BY <2>1 DEF Taken
  <2>2. CASE k # b
    <3>1. k < b
      <4>1. b = Len(rom.blocks[d]) + 1  OBVIOUS
      <4> HIDE DEF b, d
      <4> QED  BY <1>4, <2>2, <4>1
    <3>2. Taken(L, d, k)  BY <1>2, <3>1 DEF AtBlock
    <3> QED  BY <3>2 DEF Taken
  <2> QED  BY <2>1, <2>2
<1>10. ASSUME NEW c \in M, \A a \in 1 .. n : g[a].dfh # c PROVE \A k \in Slots(c) : Taken(M, c, k)
  <2>1. c \in L  BY <1>1, <1>10
  <2>2. CASE c = d  BY <1>9, <2>2
  <2>3. CASE c # d
    <3>1. \A a \in 1 .. n : f[a].dfh # c  BY <1>6, <1>10, <2>3
    <3> QED  BY <1>5, <2>1, <3>1
  <2> QED  BY <2>2, <2>3
<1> QED  BY <1>7, <1>8, <1>10 DEF FrontInv

\* The last frame is done with.
LEMMA FrontReturns ==
  ASSUME TypeOK, NEW f \in Seq(FrameType), NEW g, NEW L, L \subseteq Headers, FrontInv(f, L),
         Len(f) > 0, f[Len(f)].block = Len(rom.blocks[f[Len(f)].dfh]) + 1,
         Reference(f[Len(f)].dfh, f[Len(f)].block) = NONE,
         Len(g) = Len(f) - 1, \A a \in 1 .. Len(f) - 1 : g[a] = f[a]
  PROVE  FrontInv(g, L)
<1> DEFINE n == Len(f)
           d == f[n].dfh
           b == f[n].block
<1>1. n \in Nat \ {0}  OBVIOUS
<1>2. AtBlock(f[n], L)  BY <1>1 DEF FrontInv
<1>3. d \in Headers /\ b \in Slots(d)  BY <1>2 DEF AtBlock
<1>4. Len(rom.blocks[d]) \in Nat /\ Slots(d) = 1 .. Len(rom.blocks[d]) + 1  BY <1>3, SlotsTyped
<1>5. \A a : a \in 1 .. n <=> a \in 1 .. n - 1 \/ a = n  BY <1>1
<1>6. \A k \in Slots(d) : Taken(L, d, k)
  <2> TAKE k \in Slots(d)
  <2>1. CASE k = b  BY <2>1 DEF Taken
  <2>2. CASE k # b
    <3>1. k < b
      <4>1. b = Len(rom.blocks[d]) + 1  OBVIOUS
      <4> HIDE DEF b, d
      <4> QED  BY <1>4, <2>2, <4>1
    <3> QED  BY <1>2, <3>1 DEF AtBlock
  <2> QED  BY <2>1, <2>2
<1>7. ASSUME NEW c \in L, \A a \in 1 .. n - 1 : g[a].dfh # c PROVE \A k \in Slots(c) : Taken(L, c, k)
  <2>1. CASE c = d  BY <1>6, <2>1
  <2>2. CASE c # d
    <3>1. \A a \in 1 .. n : f[a].dfh # c  BY <1>5, <1>7, <2>2
    <3> QED  BY <3>1 DEF FrontInv
  <2> QED  BY <2>1, <2>2
<1>8. \A a \in 1 .. n - 1 : AtBlock(g[a], L)  BY <1>5 DEF FrontInv
<1>9. \A a, c \in 1 .. n - 1 : g[a].dfh = g[c].dfh => a = c  BY <1>5 DEF FrontInv
<1> QED  BY <1>7, <1>8, <1>9 DEF FrontInv

\* The parent of a header that is described now.
LEMMA ParentsGrow ==
  ASSUME NEW V, NEW W, NEW n, TableInv(V, n), ParentsInv(V, n),
         NEW x \in 0 .. n - 1, NEW d, V[x].dfh = d, NEW b, NEW e,
         IsNew(Listed(V, n), d, b, e), W[n].dfh = e,
         W[n].parent = IF b = Len(rom.blocks[d]) + 1 THEN V[x].parent ELSE x,
         SameTable(V, W, n)
  PROVE  ParentsInv(W, n + 1)
<1> USE DEF IsNew, SameTable
<1>1. n \in Nat \ {0} /\ \A i : i \in 0 .. (n + 1) - 1 <=> i \in 0 .. n - 1 \/ i = n
  BY DEF TableInv
<1>2. W[0].parent = -1  BY <1>1 DEF ParentsInv
<1>3. \A i \in 0 .. n - 1 : V[i].dfh \in Listed(V, n) /\ V[i].dfh \in Headers
  BY DEF Listed, TableInv
<1>4. ASSUME NEW i \in 0 .. (n + 1) - 1, NEW j \in 0 .. (n + 1) - 1, NEW k \in Slots(W[i].dfh),
             Reference(W[i].dfh, k) = W[j].dfh
      PROVE  W[j].parent = IF k = Len(rom.blocks[W[i].dfh]) + 1 THEN W[i].parent ELSE i
  <2>1. W[j].dfh \in Listed(V, n) \cup {e}  BY <1>1, <1>3
  <2>2. i \in 0 .. n - 1
    <3>1. CASE i = n  BY <1>4, <2>1, <3>1
    <3> QED  BY <1>1, <3>1
  <2>3. W[i].dfh = V[i].dfh /\ W[i].parent = V[i].parent  BY <2>2
  <2>4. CASE j = n
    <3>1. V[i].dfh = V[x].dfh /\ k = b  BY <1>3, <1>4, <2>2, <2>3, <2>4
    <3>2. i = x  BY <2>2, <3>1 DEF TableInv
    <3> QED  BY <2>3, <2>4, <3>1, <3>2
  <2>5. CASE j \in 0 .. n - 1
    <3>1. W[j].dfh = V[j].dfh /\ W[j].parent = V[j].parent  BY <2>5
    <3>a. k \in Slots(V[i].dfh) /\ Reference(V[i].dfh, k) = V[j].dfh
      BY <1>4, <2>3, <3>1
    <3>2. V[j].parent = IF k = Len(rom.blocks[V[i].dfh]) + 1 THEN V[i].parent ELSE i
      BY <2>2, <2>5, <3>a, Zenon DEF ParentsInv
    <3> QED  BY <2>3, <3>1, <3>2
  <2> QED  BY <1>1, <2>4, <2>5
<1> QED  BY <1>2, <1>4 DEF ParentsInv

\* A header that branches at most once branches first where it branches.
LEMMA OnlyBranch ==
  ASSUME TypeOK, Single, NEW d \in Headers, NEW b \in Branches(d), NEW k \in Branches(d)
  PROVE  k = b
<1>1. Branches(d) \subseteq 1 .. Len(rom.blocks[d]) /\ Len(rom.blocks[d]) \in Nat
  BY SlotsTyped
<1>2. IsFiniteSet(Branches(d))
  <2>1. IsFiniteSet(1 .. Len(rom.blocks[d]))  BY <1>1, FS_Interval
  <2> QED  BY <1>1, <2>1, FS_Subset
<1>3. SUFFICES ASSUME k # b PROVE FALSE  OBVIOUS
<1>4. IsFiniteSet({b}) /\ Cardinality({b}) = 1  BY FS_Singleton
<1>5. IsFiniteSet({b} \cup {k}) /\ Cardinality({b} \cup {k}) = 1 + 1
  BY <1>3, <1>4, FS_AddElement
<1>6. {b} \cup {k} \subseteq Branches(d)  OBVIOUS
<1>7. Cardinality({b} \cup {k}) <= Cardinality(Branches(d))  BY <1>2, <1>6, FS_Subset
<1>8. Cardinality(Branches(d)) <= 1 /\ Cardinality(Branches(d)) \in Nat
  BY <1>2, FS_CardinalityType DEF Single
<1> QED  BY <1>5, <1>7, <1>8

\* When a header that branches at most once branches, it was described last.
LEMMA LastBranches ==
  ASSUME TypeOK, Single, NEW f \in Seq(FrameType), NEW V, NEW n, NEW h, StackInv(f, V, n, h),
         Len(f) > 0, f[Len(f)].dfh \in Headers, f[Len(f)].block \in Branches(f[Len(f)].dfh)
  PROVE  V[n - 1].dfh = f[Len(f)].dfh
<1>1. f[Len(f)] \in FrameType /\ Len(f) \in 1 .. Len(f)  OBVIOUS
<1>2. f[Len(f)].block \in Nat  BY <1>1 DEF FrameType
<1>3. \A k \in Branches(f[Len(f)].dfh) : k = f[Len(f)].block  BY OnlyBranch
<1>4. \A k \in Branches(f[Len(f)].dfh) : k >= f[Len(f)].block  BY <1>2, <1>3
<1> QED  BY <1>1, <1>4 DEF StackInv

LEMMA StackPasses ==
  ASSUME TypeOK, NEW f \in Seq(FrameType), NEW g, NEW V, NEW n, NEW h, StackInv(f, V, n, h),
         Len(f) > 0, f[Len(f)].dfh \in Headers, Len(g) = Len(f),
         \A a \in 1 .. Len(f) - 1 : g[a] = f[a],
         g[Len(f)].dfh = f[Len(f)].dfh, g[Len(f)].block = f[Len(f)].block + 1
  PROVE  StackInv(g, V, n, h)
<1>1. f[Len(f)] \in FrameType /\ Len(f) \in Nat \ {0}  OBVIOUS
<1>2. f[Len(f)].block \in Nat  BY <1>1 DEF FrameType
<1>3. \A k \in Branches(f[Len(f)].dfh) : k \in Nat  BY SlotsTyped
<1>4. \A k \in Branches(f[Len(f)].dfh) :
        k >= f[Len(f)].block + 1 => k >= f[Len(f)].block
  BY <1>2, <1>3
<1> SUFFICES ASSUME NEW a \in 1 .. Len(g)
             PROVE  /\ \A i \in 0 .. n - 1 : V[i].dfh = g[a].dfh => h[a] = V[i].parent
                    /\ a < Len(g) => g[a].block - 1 \in Branches(g[a].dfh)
                    /\ a = Len(g) /\ (\A k \in Branches(g[a].dfh) : k >= g[a].block)
                         => V[n - 1].dfh = g[a].dfh
  BY DEF StackInv
<1>5. CASE a \in 1 .. Len(f) - 1
  <2>1. g[a] = f[a] /\ a # Len(g)  BY <1>1, <1>5
  <2> QED  BY <2>1 DEF StackInv
<1>6. CASE a = Len(f)
  <2>1. ~(a < Len(g))  BY <1>1, <1>6
  <2> QED  BY <1>4, <1>6, <2>1 DEF StackInv
<1> QED  BY <1>1, <1>5, <1>6

LEMMA StackReturns ==
  ASSUME TypeOK, NEW f \in Seq(FrameType), NEW g, NEW V, NEW n, NEW h, StackInv(f, V, n, h),
         Len(f) > 0, Len(g) = Len(f) - 1, \A a \in 1 .. Len(f) - 1 : g[a] = f[a]
  PROVE  StackInv(g, V, n, h)
<1>1. Len(f) \in Nat \ {0}  OBVIOUS
<1> SUFFICES ASSUME NEW a \in 1 .. Len(g)
             PROVE  /\ \A i \in 0 .. n - 1 : V[i].dfh = g[a].dfh => h[a] = V[i].parent
                    /\ a < Len(g) => g[a].block - 1 \in Branches(g[a].dfh)
                    /\ a = Len(g) /\ (\A k \in Branches(g[a].dfh) : k >= g[a].block)
                         => V[n - 1].dfh = g[a].dfh
  BY DEF StackInv
<1>2. g[a] = f[a] /\ a < Len(f) /\ a \in 1 .. Len(f)  BY <1>1
<1>3. f[a].block - 1 \in Branches(f[a].dfh)  BY <1>2 DEF StackInv
<1>4. f[a].block \in Nat
  <2>1. f[a] \in FrameType  BY <1>2
  <2> QED  BY <2>1 DEF FrameType
<1>5. ~(f[a].block - 1 >= f[a].block)  BY <1>4
<1> QED  BY <1>2, <1>3, <1>5 DEF StackInv

LEMMA StackMoves ==
  ASSUME TypeOK, NEW f \in Seq(FrameType), NEW g, NEW V, NEW W, NEW n, NEW h,
         StackInv(f, V, n, h), FrontInv(f, Listed(V, n)), TableInv(V, n), Len(f) > 0,
         NEW e, e \notin Listed(V, n), NEW x \in 0 .. n - 1, V[x].dfh = f[Len(f)].dfh,
         W[n].dfh = e, W[n].parent = V[x].parent, SameTable(V, W, n),
         Len(g) = Len(f), \A a \in 1 .. Len(f) - 1 : g[a] = f[a], g[Len(f)].dfh = e
  PROVE  StackInv(g, W, n + 1, h)
<1> USE DEF SameTable
<1>1. Len(f) \in Nat \ {0}  OBVIOUS
<1>2. n \in Nat \ {0} /\ \A i : i \in 0 .. (n + 1) - 1 <=> i \in 0 .. n - 1 \/ i = n
  BY DEF TableInv
<1>3. \A i \in 0 .. n - 1 : V[i].dfh \in Listed(V, n)  BY DEF Listed
<1> SUFFICES ASSUME NEW a \in 1 .. Len(g)
             PROVE  /\ \A i \in 0 .. (n + 1) - 1 : W[i].dfh = g[a].dfh => h[a] = W[i].parent
                    /\ a < Len(g) => g[a].block - 1 \in Branches(g[a].dfh)
                    /\ a = Len(g) => W[(n + 1) - 1].dfh = g[a].dfh
  BY DEF StackInv
<1>4. CASE a \in 1 .. Len(f) - 1
  <2>1. g[a] = f[a] /\ a < Len(f) /\ a \in 1 .. Len(f) /\ a # Len(g)  BY <1>1, <1>4
  <2>2. f[a].dfh \in Listed(V, n)  BY <2>1 DEF FrontInv, AtBlock
  <2>3. W[n].dfh # f[a].dfh  BY <2>2
  <2> QED  BY <1>2, <2>1, <2>3 DEF StackInv
<1>5. CASE a = Len(f)
  <2>1. ~(a < Len(g)) /\ (n + 1) - 1 = n  BY <1>1, <1>2, <1>5
  <2>2. a \in 1 .. Len(f)  BY <1>1, <1>5
  <2>3. h[a] = V[x].parent  BY <1>5, <2>2 DEF StackInv
  <2>4. ASSUME NEW i \in 0 .. (n + 1) - 1, W[i].dfh = e PROVE i = n
    BY <1>2, <1>3, <2>4
  <2> QED  BY <1>5, <2>1, <2>3, <2>4
<1> QED  BY <1>1, <1>4, <1>5

LEMMA StackBranches ==
  ASSUME TypeOK, NEW f \in Seq(FrameType), NEW g, NEW V, NEW W, NEW n, NEW h, NEW q,
         StackInv(f, V, n, h), FrontInv(f, Listed(V, n)), TableInv(V, n), Len(f) > 0,
         f[Len(f)].block \in Branches(f[Len(f)].dfh),
         NEW e, e \notin Listed(V, n), W[n].dfh = e, q[Len(f) + 1] = W[n].parent,
         \A a \in 1 .. Len(f) : q[a] = h[a], SameTable(V, W, n),
         Len(g) = Len(f) + 1, \A a \in 1 .. Len(f) - 1 : g[a] = f[a],
         g[Len(f)].dfh = f[Len(f)].dfh, g[Len(f)].block = f[Len(f)].block + 1,
         g[Len(f) + 1].dfh = e
  PROVE  StackInv(g, W, n + 1, q)
<1> USE DEF SameTable
<1>1. Len(f) \in Nat \ {0} /\ f[Len(f)] \in FrameType  OBVIOUS
<1>2. n \in Nat \ {0} /\ \A i : i \in 0 .. (n + 1) - 1 <=> i \in 0 .. n - 1 \/ i = n
  BY DEF TableInv
<1>3. \A i \in 0 .. n - 1 : V[i].dfh \in Listed(V, n)  BY DEF Listed
<1> SUFFICES ASSUME NEW a \in 1 .. Len(g)
             PROVE  /\ \A i \in 0 .. (n + 1) - 1 : W[i].dfh = g[a].dfh => q[a] = W[i].parent
                    /\ a < Len(g) => g[a].block - 1 \in Branches(g[a].dfh)
                    /\ a = Len(g) => W[(n + 1) - 1].dfh = g[a].dfh
  BY DEF StackInv
<1>4. CASE a \in 1 .. Len(f)
  <2>1. g[a].dfh = f[a].dfh /\ a # Len(g) /\ q[a] = h[a]  BY <1>1, <1>4
  <2>2. f[a].dfh \in Listed(V, n)  BY <1>4 DEF FrontInv, AtBlock
  <2>3. W[n].dfh # f[a].dfh  BY <2>2
  <2>4. g[a].block - 1 \in Branches(g[a].dfh)
    <3>1. CASE a = Len(f)
      <4>1. f[Len(f)].block \in Nat  BY <1>1 DEF FrameType
      <4>2. (f[Len(f)].block + 1) - 1 = f[Len(f)].block  BY <4>1
      <4> QED  BY <3>1, <4>2
    <3>2. CASE a \in 1 .. Len(f) - 1
      <4>1. a < Len(f) /\ g[a] = f[a]  BY <1>1, <3>2
      <4> QED  BY <1>4, <4>1 DEF StackInv
    <3> QED  BY <1>1, <1>4, <3>1, <3>2
  <2> QED  BY <1>2, <1>4, <2>1, <2>3, <2>4 DEF StackInv
<1>5. CASE a = Len(f) + 1
  <2>1. ~(a < Len(g)) /\ (n + 1) - 1 = n  BY <1>1, <1>2, <1>5
  <2>2. ASSUME NEW i \in 0 .. (n + 1) - 1, W[i].dfh = e PROVE i = n
    BY <1>2, <1>3, <2>2
  <2> QED  BY <1>5, <2>1, <2>2
<1> QED  BY <1>1, <1>4, <1>5

\* The ROM does not change, nor does anything that is said of it alone.
LEMMA ListsFixed ==
  ASSUME rom' = rom
  PROVE  /\ \A d : Slots(d)' = Slots(d) /\ Branches(d)' = Branches(d)
         /\ \A d, k : Reference(d, k)' = Reference(d, k)
         /\ ListsAreATree' = ListsAreATree /\ Single' = Single
<1>1. \A d : Slots(d)' = Slots(d) /\ Branches(d)' = Branches(d)  BY DEF Slots, Branches
<1>2. \A d, k : Reference(d, k)' = Reference(d, k)  BY DEF Reference
<1>3. ListsAreATree' = ListsAreATree  BY <1>1, <1>2 DEF ListsAreATree
<1>4. Single' = Single  BY <1>1 DEF Single
<1> QED  BY <1>1, <1>2, <1>3, <1>4

\* What is to be shown of a step of the second walk, and of one after it.
LEMMA TreeWalked ==
  ASSUME rom' = rom, phase' = "collect",
         ListsAreATree => WalkedInv(frames', interface_vec', s_interface_index' + 1, head')
  PROVE  TreeInv'
<1>1. /\ \A d : Slots(d)' = Slots(d) /\ Branches(d)' = Branches(d)
      /\ \A d, k : Reference(d, k)' = Reference(d, k)
      /\ ListsAreATree' = ListsAreATree /\ Single' = Single
  BY ListsFixed
<1>2. SUFFICES ASSUME ListsAreATree
               PROVE  WalkedInv(frames, interface_vec, s_interface_index + 1, head)'
  BY <1>1 DEF TreeInv, Scanned
<1> DEFINE V == interface_vec'
           n == s_interface_index' + 1
<1>3. WalkedInv(frames', V, n, head')  BY <1>2
<1>4. Listed(interface_vec, s_interface_index + 1)' = Listed(V, n)  BY DEF Listed
<1>5. TableInv(interface_vec, s_interface_index + 1)'
  BY <1>1, <1>3 DEF WalkedInv, TableInv
<1>6. FrontInv(frames, Listed(interface_vec, s_interface_index + 1))'
  BY <1>1, <1>3, <1>4 DEF WalkedInv, FrontInv, AtBlock, Taken
<1>7. Single => ParentsInv(interface_vec, s_interface_index + 1)'
  BY <1>1, <1>3 DEF WalkedInv, ParentsInv
<1>8. Single => StackInv(frames, interface_vec, s_interface_index + 1, head)'
  BY <1>1, <1>3 DEF WalkedInv, StackInv
<1> QED  BY <1>1, <1>5, <1>6, <1>7, <1>8 DEF WalkedInv

LEMMA TreeDone ==
  ASSUME rom' = rom, phase' = "idle",
         ListsAreATree /\ Interfaces' # {} =>
           \E n \in Nat : Interfaces' = 0 .. n - 1 /\ DoneInv(interface_vec', n)
  PROVE  TreeInv'
<1>1. /\ \A d : Slots(d)' = Slots(d) /\ Branches(d)' = Branches(d)
      /\ \A d, k : Reference(d, k)' = Reference(d, k)
      /\ ListsAreATree' = ListsAreATree /\ Single' = Single
  BY ListsFixed
<1>2. SUFFICES ASSUME ListsAreATree, Interfaces' # {}
               PROVE  \E n \in Nat : Interfaces' = 0 .. n - 1 /\ DoneInv(interface_vec, n)'
  BY <1>1 DEF TreeInv, Scanned
<1>3. PICK n \in Nat : Interfaces' = 0 .. n - 1 /\ DoneInv(interface_vec', n)  BY <1>2
<1>4. Listed(interface_vec, n)' = Listed(interface_vec', n)  BY DEF Listed
<1>5. TableInv(interface_vec, n)'  BY <1>1, <1>3 DEF DoneInv, TableInv
<1>6. \A d \in Listed(interface_vec, n)' : \A k \in Slots(d)' :
        Taken(Listed(interface_vec, n), d, k)'
  BY <1>1, <1>3, <1>4 DEF DoneInv, Taken
<1>7. Single => ParentsInv(interface_vec, n)'  BY <1>1, <1>3 DEF DoneInv, ParentsInv
<1>8. DoneInv(interface_vec, n)'  BY <1>1, <1>5, <1>6, <1>7 DEF DoneInv
<1> QED  BY <1>3, <1>8

\* The frames that a step leaves.
LEMMA FrameParts ==
  ASSUME TypeOK, frames # <<>>
  PROVE  LET n == Len(frames)
         IN  /\ n > 0 /\ frame = frames[n] /\ frame \in FrameType
             /\ Len(Advanced) = n /\ \A a \in 1 .. n - 1 : Advanced[a] = frames[a]
             /\ Advanced[n].dfh = frames[n].dfh /\ Advanced[n].block = frames[n].block + 1
             /\ Len(Returned) = n - 1 /\ \A a \in 1 .. n - 1 : Returned[a] = frames[a]
             /\ \A t \in FrameType :
                  LET g == Append(Advanced, t)
                  IN  /\ Len(g) = n + 1 /\ \A a \in 1 .. n - 1 : g[a] = frames[a]
                      /\ g[n].dfh = frames[n].dfh /\ g[n].block = frames[n].block + 1
                      /\ g[n + 1] = t
             /\ \A t \in FrameType :
                  LET g == Append(Returned, t)
                  IN  Len(g) = n /\ (\A a \in 1 .. n - 1 : g[a] = frames[a]) /\ g[n] = t
<1> DEFINE n == Len(frames)
           t0 == [frame EXCEPT !.block = @ + 1]
<1>1. n \in Nat \ {0} /\ frames \in Seq(FrameType)  BY DEF TypeOK, FrameType
<1>2. frame = frames[n] /\ frame \in FrameType  BY <1>1 DEF frame
<1>3. Returned \in Seq(FrameType) /\ Len(Returned) = n - 1 /\ Advanced \in Seq(FrameType)
      /\ Len(Advanced) = n
  BY FrameTyped
<1>4. \A a \in 1 .. n - 1 : Returned[a] = frames[a]
  <2>1. \A a \in 1 .. n - 1 : frames[a] \in FrameType  BY <1>1
  <2>2. n - 1 \in Int /\ 1 \in Int  BY <1>1
  <2>3. \A a \in 1 .. (n - 1) - 1 + 1 : SubSeq(frames, 1, n - 1)[a] = frames[1 + a - 1]
    BY <2>1, <2>2, SubSeqProperties
  <2>4. \A a \in 1 .. n - 1 : a \in 1 .. (n - 1) - 1 + 1 /\ 1 + a - 1 = a  BY <1>1
  <2> HIDE DEF n
  <2>5. \A a \in 1 .. n - 1 : SubSeq(frames, 1, n - 1)[a] = frames[a]  BY <2>3, <2>4
  <2> QED  BY <2>5 DEF Returned, n
<1>5. t0.dfh = frame.dfh /\ t0.block = frame.block + 1 /\ t0 \in FrameType
  BY <1>2 DEF FrameType
<1>6. Advanced = Append(Returned, t0)  BY DEF Advanced
<1> HIDE DEF t0, n
<1>7. \A t \in FrameType :
        /\ Len(Append(Returned, t)) = n
        /\ \A a \in 1 .. n - 1 : Append(Returned, t)[a] = frames[a]
        /\ Append(Returned, t)[n] = t
  <2> TAKE t \in FrameType
  <2>1. /\ Len(Append(Returned, t)) = Len(Returned) + 1
        /\ \A a \in 1 .. Len(Returned) : Append(Returned, t)[a] = Returned[a]
        /\ Append(Returned, t)[Len(Returned) + 1] = t
    BY <1>3, AppendProperties
  <2>2. Len(Returned) + 1 = n  BY <1>1, <1>3
  <2> QED  BY <1>3, <1>4, <2>1, <2>2
<1>8. /\ \A a \in 1 .. n - 1 : Advanced[a] = frames[a]
      /\ Advanced[n] = t0
  BY <1>5, <1>6, <1>7
<1>9. \A t \in FrameType :
        /\ Len(Append(Advanced, t)) = n + 1
        /\ \A a \in 1 .. n : Append(Advanced, t)[a] = Advanced[a]
        /\ Append(Advanced, t)[n + 1] = t
  BY <1>3, AppendProperties
<1>10. \A a \in 1 .. n - 1 : a \in 1 .. n  BY <1>1
<1>11. n \in 1 .. n  BY <1>1
<1> QED  BY <1>1, <1>2, <1>3, <1>4, <1>5, <1>7, <1>8, <1>9, <1>10, <1>11 DEF n

\* What describing a header in the second walk makes of the table.
LEMMA VisitedTable ==
  ASSUME TypeOK, WalkInv', HeapInv, TypeOK', phase = "collect", phase' = "collect", rom' = rom,
         s_scanned_interface_count' = s_scanned_interface_count,
         NEW d \in Headers, NEW parent, Visit(d, parent)
  PROVE  LET n == s_interface_index + 1 W == interface_vec'
         IN  /\ s_interface_index' + 1 = n + 1
             /\ W[n].dfh = d /\ W[n].parent = parent
             /\ \A i \in 0 .. n - 1 : W[i] = interface_vec[i]
<1> DEFINE n == s_interface_index + 1
           V == interface_vec
           W == interface_vec'
<1>1. n \in Interfaces /\ W = [V EXCEPT ![n] = Described(d, parent)] /\ s_interface_index' = n
  BY VisitKeepsHeap
<1>2. Interfaces = 0 .. s_scanned_interface_count - 1  BY DEF HeapInv
<1>3. n \in Nat /\ s_scanned_interface_count \in Nat  BY DEF TypeOK
<1>4. W[n] = Described(d, parent)  BY <1>1 DEF Interfaces
<1>5. \A i \in 0 .. n - 1 : i \in Interfaces /\ i # n
  <2> HIDE DEF n
  <2> QED  BY <1>1, <1>2, <1>3
<1>6. \A i \in 0 .. n - 1 : W[i] = V[i]  BY <1>1, <1>5 DEF Interfaces
<1> QED  BY <1>1, <1>4, <1>6 DEF Described

\* Where the second walk is, in the words of the lemmas above.
LEMMA AtFront ==
  ASSUME TypeOK, frames # <<>>, NEW V, NEW n, NEW h, WalkedInv(frames, V, n, h)
  PROVE  LET m == Len(frames) d == frames[m].dfh b == frames[m].block
         IN  /\ Listed(V, n) \subseteq Headers
             /\ d \in Headers /\ d \in Listed(V, n) /\ b \in Slots(d)
             /\ Blocks = rom.blocks[d] /\ Len(rom.blocks[d]) \in Nat
             /\ Reference(d, b) \notin Listed(V, n)
             /\ frame.block <= Len(Blocks) =>
                  b <= Len(rom.blocks[d]) /\ Reference(d, b) = Blocks[frame.block]
             /\ frame.block > Len(Blocks) =>
                  b = Len(rom.blocks[d]) + 1 /\ Reference(d, b) = rom.next[frame.dfh]
             /\ \E x \in 0 .. n - 1 : V[x].dfh = d
<1> DEFINE m == Len(frames)
           d == frames[m].dfh
           b == frames[m].block
<1>1. m > 0 /\ frame = frames[m] /\ frame \in FrameType /\ m \in Nat
  BY FrameParts DEF TypeOK
<1>2. AtBlock(frames[m], Listed(V, n))  BY <1>1 DEF WalkedInv, FrontInv
<1>3. Listed(V, n) \subseteq Headers  BY DEF WalkedInv, TableInv, Listed
<1>4. d \in Listed(V, n) /\ d \in Headers /\ b \in Slots(d) /\ Reference(d, b) \notin Listed(V, n)
  <2>1. d \in Listed(V, n) /\ d \in Headers /\ b \in Slots(d)  BY <1>2, <1>3 DEF AtBlock
  <2>2. ~(b < b)  BY <1>1 DEF FrameType
  <2> QED  BY <1>2, <2>1, <2>2 DEF AtBlock
<1>5. Blocks = rom.blocks[d]  BY <1>1 DEF Blocks
<1>6. /\ Len(rom.blocks[d]) \in Nat /\ Slots(d) = 1 .. Len(rom.blocks[d]) + 1
      /\ \A k \in 1 .. Len(rom.blocks[d]) : Reference(d, k) = rom.blocks[d][k]
      /\ Reference(d, Len(rom.blocks[d]) + 1) = rom.next[d]
  BY <1>4, SlotsTyped
<1>7. \E x \in 0 .. n - 1 : V[x].dfh = d  BY <1>4 DEF Listed
<1>8. frame.block = b /\ frame.dfh = d  BY <1>1
<1> HIDE DEF d, b, m
<1>9. b <= Len(rom.blocks[d]) => Reference(d, b) = rom.blocks[d][b]  BY <1>4, <1>6
<1>10. b > Len(rom.blocks[d]) => b = Len(rom.blocks[d]) + 1  BY <1>4, <1>6
<1> QED  BY <1>3, <1>4, <1>5, <1>6, <1>7, <1>8, <1>9, <1>10 DEF d, b, m

LEMMA PassStep ==
  ASSUME TypeOK, TreeInv, phase = "collect", NextBlock
  PROVE  TreeInv'
<1> DEFINE m == Len(frames)
           n == s_interface_index + 1
<1>1. /\ phase' = "collect" /\ rom' = rom /\ frames # <<>> /\ frames' = Advanced
      /\ frame.block <= Len(Blocks) /\ Blocks[frame.block] = NONE
      /\ interface_vec' = interface_vec /\ s_interface_index' = s_interface_index /\ head' = head
  BY DEF NextBlock, Walking, indices, dfh_parent_stack
<1> HIDE DEF n
<1>2. SUFFICES ASSUME ListsAreATree
               PROVE  WalkedInv(frames', interface_vec, n, head)
  BY <1>1, TreeWalked DEF n
<1>3. WalkedInv(frames, interface_vec, n, head)  BY <1>2 DEF TreeInv, n
<1>4. /\ Listed(interface_vec, n) \subseteq Headers
      /\ frames[m].dfh \in Headers
      /\ frames[m].block <= Len(rom.blocks[frames[m].dfh])
      /\ Reference(frames[m].dfh, frames[m].block) = NONE
  BY <1>1, <1>3, AtFront
<1>5. /\ m > 0 /\ Len(frames') = m /\ \A a \in 1 .. m - 1 : frames'[a] = frames[a]
      /\ frames'[m].dfh = frames[m].dfh /\ frames'[m].block = frames[m].block + 1
  BY <1>1, FrameParts
<1>6. frames \in Seq(FrameType)  BY DEF TypeOK, FrameType
<1>7. FrontInv(frames', Listed(interface_vec, n))
  BY <1>3, <1>4, <1>5, <1>6, FrontPasses DEF WalkedInv
<1>8. Single => StackInv(frames', interface_vec, n, head)
  BY <1>3, <1>4, <1>5, <1>6, StackPasses DEF WalkedInv
<1> QED  BY <1>3, <1>7, <1>8 DEF WalkedInv

LEMMA ReturnStep ==
  ASSUME TypeOK, TreeInv, phase = "collect", EndOfList
  PROVE  TreeInv'
<1> DEFINE m == Len(frames)
           n == s_interface_index + 1
<1>1. /\ phase' = "collect" /\ rom' = rom /\ frames # <<>> /\ frames' = Returned
      /\ frame.block > Len(Blocks) /\ rom.next[frame.dfh] = NONE
      /\ interface_vec' = interface_vec /\ s_interface_index' = s_interface_index /\ head' = head
  BY DEF EndOfList, Walking, indices, dfh_parent_stack_pop
<1> HIDE DEF n
<1>2. SUFFICES ASSUME ListsAreATree
               PROVE  WalkedInv(frames', interface_vec, n, head)
  BY <1>1, TreeWalked DEF n
<1>3. WalkedInv(frames, interface_vec, n, head)  BY <1>2 DEF TreeInv, n
<1>4. /\ Listed(interface_vec, n) \subseteq Headers
      /\ frames[m].block = Len(rom.blocks[frames[m].dfh]) + 1
      /\ Reference(frames[m].dfh, frames[m].block) = NONE
  BY <1>1, <1>3, AtFront
<1>5. /\ m > 0 /\ Len(frames') = m - 1 /\ \A a \in 1 .. m - 1 : frames'[a] = frames[a]
  BY <1>1, FrameParts
<1>6. frames \in Seq(FrameType)  BY DEF TypeOK, FrameType
<1>7. FrontInv(frames', Listed(interface_vec, n))
  BY <1>3, <1>4, <1>5, <1>6, FrontReturns DEF WalkedInv
<1>8. Single => StackInv(frames', interface_vec, n, head)
  BY <1>3, <1>5, <1>6, StackReturns DEF WalkedInv
<1> QED  BY <1>3, <1>7, <1>8 DEF WalkedInv

LEMMA MoveStep ==
  ASSUME TypeOK, TypeOK', StackOK, WalkInv', HeapInv, TreeInv, phase = "collect", NextFeature
  PROVE  TreeInv'
<1> DEFINE m == Len(frames)
           n == s_interface_index + 1
           d == frames[m].dfh
           b == frames[m].block
           V == interface_vec
           W == interface_vec'
           e == rom.next[frame.dfh]
<1>1. /\ phase' = "collect" /\ rom' = rom /\ frames # <<>>
      /\ frames' = Append(Returned, Frame(e)) /\ frame.block > Len(Blocks)
      /\ Visit(e, dfh_parent_stack_peek) /\ head' = head
      /\ s_scanned_interface_count' = s_scanned_interface_count
  BY DEF NextFeature, Walking, Visit, dfh_parent_stack
<1>2. e \in Headers  BY NextTo
<1>3. /\ s_interface_index' + 1 = n + 1 /\ W[n].dfh = e /\ W[n].parent = dfh_parent_stack_peek
      /\ \A i \in 0 .. n - 1 : W[i] = V[i]
  BY <1>1, <1>2, VisitedTable
<1> HIDE DEF n, V, W, e
<1>4. SUFFICES ASSUME ListsAreATree
               PROVE  WalkedInv(frames', W, n + 1, head)
  BY <1>1, <1>3, TreeWalked DEF W
<1>5. WalkedInv(frames, V, n, head)  BY <1>4 DEF TreeInv, n, V
<1>6. /\ Listed(V, n) \subseteq Headers /\ d \in Headers /\ d \in Listed(V, n)
      /\ b \in Slots(d) /\ b = Len(rom.blocks[d]) + 1
      /\ Reference(d, b) = e /\ e \notin Listed(V, n)
      /\ \E x \in 0 .. n - 1 : V[x].dfh = d
  BY <1>1, <1>5, AtFront DEF e
<1>7. /\ m > 0 /\ Len(frames') = m /\ \A a \in 1 .. m - 1 : frames'[a] = frames[a]
      /\ frames'[m].dfh = e /\ frames'[m].block = 1
  <2>1. Frame(e) \in FrameType /\ Frame(e).dfh = e /\ Frame(e).block = 1
    BY <1>2 DEF Frame, FrameType
  <2> QED  BY <1>1, <2>1, FrameParts
<1>8. frames \in Seq(FrameType) /\ m \in 1 .. m  BY <1>7 DEF TypeOK, FrameType
<1>9. TableInv(V, n)  BY <1>5 DEF WalkedInv
<1>10. IsNew(Listed(V, n), d, b, e)  BY <1>2, <1>4, <1>6, <1>9, NewHeader
<1>a. SameTable(V, W, n)  BY <1>3 DEF SameTable
<1>b. FrontInv(frames, Listed(V, n))  BY <1>5 DEF WalkedInv
<1>c. e \notin Listed(V, n) /\ W[n].dfh = e  BY <1>3, <1>6
<1>11. TableInv(W, n + 1) /\ Listed(W, n + 1) = Listed(V, n) \cup {e}
  BY <1>2, <1>6, <1>9, <1>a, <1>c, TableGrows
<1>12. FrontInv(frames', Listed(W, n + 1))
  <2>1. FrontInv(frames', Listed(V, n) \cup {e})
    BY <1>6, <1>7, <1>8, <1>10, <1>b, FrontMoves
  <2> QED  BY <1>11, <2>1
<1>13. ASSUME Single PROVE ParentsInv(W, n + 1) /\ StackInv(frames', W, n + 1, head)
  <2>1. ParentsInv(V, n) /\ StackInv(frames, V, n, head)  BY <1>5, <1>13 DEF WalkedInv
  <2>2. PICK x \in 0 .. n - 1 : V[x].dfh = d  BY <1>6
  <2>3. head[m] = V[x].parent  BY <1>8, <2>1, <2>2 DEF StackInv
  <2>4. W[n].parent = V[x].parent
    BY <1>3, <2>3 DEF dfh_parent_stack_peek, StackOK
  <2>5. ParentsInv(W, n + 1)
    <3>1. b = Len(rom.blocks[d]) + 1  BY <1>6
    <3> HIDE DEF d, b
    <3>2. W[n].parent = IF b = Len(rom.blocks[d]) + 1 THEN V[x].parent ELSE x
      BY <2>4, <3>1
    <3> QED  BY <1>9, <1>10, <1>a, <1>c, <2>1, <2>2, <3>2, ParentsGrow
  <2>6. StackInv(frames', W, n + 1, head)
    BY <1>7, <1>8, <1>9, <1>a, <1>b, <1>c, <2>1, <2>2, <2>4, StackMoves
  <2> QED  BY <2>5, <2>6
<1> QED  BY <1>11, <1>12, <1>13 DEF WalkedInv

LEMMA BranchStep ==
  ASSUME TypeOK, TypeOK', StackOK, WalkInv', HeapInv, TreeInv, phase = "collect",
         Branch, phase' # "corrupt"
  PROVE  TreeInv'
<1> DEFINE m == Len(frames)
           n == s_interface_index + 1
           d == frames[m].dfh
           b == frames[m].block
           V == interface_vec
           W == interface_vec'
           e == Blocks[frame.block]
<1>1. /\ phase' = "collect" /\ rom' = rom /\ frames # <<>>
      /\ frames' = Append(Advanced, Frame(e)) /\ frame.block <= Len(Blocks)
      /\ Visit(e, s_interface_index) /\ dfh_parent_stack_push(s_interface_index) /\ ~Overruns
      /\ s_scanned_interface_count' = s_scanned_interface_count
  BY DEF Branch, Walking, Visit
<1>2. e \in Headers  BY BranchTo
<1>3. /\ s_interface_index' + 1 = n + 1 /\ W[n].dfh = e /\ W[n].parent = s_interface_index
      /\ \A i \in 0 .. n - 1 : W[i] = V[i]
  BY <1>1, <1>2, VisitedTable
<1>4. n \in Nat /\ s_interface_index = n - 1  BY DEF TypeOK
<1> HIDE DEF n, V, W, e
<1>5. head'[m + 1] = s_interface_index /\ \A a \in 1 .. m : head'[a] = head[a]
  <2>1. top = m /\ size = INCR /\ top + 1 < INCR /\ INCR \in Nat /\ m \in Nat /\ Room = INCR
    BY <1>1, FeatureConstants DEF TypeOK, StackOK, INCR, Room, Overruns
  <2>2. head' = [i \in 0 .. INCR - 1 |->
                   IF i = m + 1 THEN s_interface_index ELSE IF i < INCR THEN head[i] ELSE 0]
    BY <1>1, <2>1 DEF dfh_parent_stack_push
  <2>3. m + 1 \in 0 .. INCR - 1  BY <2>1
  <2>4. \A a \in 1 .. m : a \in 0 .. INCR - 1 /\ a < INCR /\ a # m + 1  BY <2>1
  <2> HIDE DEF m
  <2> QED  BY <2>2, <2>3, <2>4
<1>6. SUFFICES ASSUME ListsAreATree
               PROVE  WalkedInv(frames', W, n + 1, head')
  BY <1>1, <1>3, TreeWalked DEF W
<1>7. WalkedInv(frames, V, n, head)  BY <1>6 DEF TreeInv, n, V
<1>8. /\ Listed(V, n) \subseteq Headers /\ d \in Headers /\ d \in Listed(V, n)
      /\ b \in Slots(d) /\ b <= Len(rom.blocks[d]) /\ Len(rom.blocks[d]) \in Nat
      /\ Reference(d, b) = e /\ e \notin Listed(V, n)
      /\ \E x \in 0 .. n - 1 : V[x].dfh = d
  BY <1>1, <1>7, AtFront DEF e
<1>9. /\ m > 0 /\ Len(frames') = m + 1 /\ \A a \in 1 .. m - 1 : frames'[a] = frames[a]
      /\ frames'[m].dfh = d /\ frames'[m].block = b + 1
      /\ frames'[m + 1].dfh = e /\ frames'[m + 1].block = 1
  <2>1. Frame(e) \in FrameType /\ Frame(e).dfh = e /\ Frame(e).block = 1
    BY <1>2 DEF Frame, FrameType
  <2> QED  BY <1>1, <2>1, FrameParts
<1>10. frames \in Seq(FrameType)  BY DEF TypeOK, FrameType
<1>11. TableInv(V, n)  BY <1>7 DEF WalkedInv
<1>12. IsNew(Listed(V, n), d, b, e)  BY <1>2, <1>6, <1>8, <1>11, NewHeader
<1>a. SameTable(V, W, n)  BY <1>3 DEF SameTable
<1>b. FrontInv(frames, Listed(V, n))  BY <1>7 DEF WalkedInv
<1>c. e \notin Listed(V, n) /\ W[n].dfh = e  BY <1>3, <1>8
<1>13. TableInv(W, n + 1) /\ Listed(W, n + 1) = Listed(V, n) \cup {e}
  BY <1>2, <1>8, <1>11, <1>a, <1>c, TableGrows
<1>14. FrontInv(frames', Listed(W, n + 1))
  <2>1. FrontInv(frames', Listed(V, n) \cup {e})
    BY <1>8, <1>9, <1>10, <1>12, <1>b, FrontBranches
  <2> QED  BY <1>13, <2>1
<1>15. ASSUME Single PROVE ParentsInv(W, n + 1) /\ StackInv(frames', W, n + 1, head')
  <2>1. ParentsInv(V, n) /\ StackInv(frames, V, n, head)  BY <1>7, <1>15 DEF WalkedInv
  <2>2. b \in Branches(d)
    <3>1. b \in 1 .. Len(rom.blocks[d])
      <4>1. Slots(d) = 1 .. Len(rom.blocks[d]) + 1  BY <1>8, SlotsTyped
      <4> HIDE DEF b, d
      <4> QED  BY <1>8, <4>1
    <3>2. Reference(d, b) # NONE  BY <1>2, <1>8, FeatureConstants
    <3> QED  BY <1>8, <3>1, <3>2, SlotsTyped
  <2>3. V[n - 1].dfh = d
    BY <1>8, <1>9, <1>10, <1>15, <2>1, <2>2, LastBranches
  <2>4. n - 1 \in 0 .. n - 1  BY <1>4, <1>11 DEF TableInv
  <2>5. ParentsInv(W, n + 1)
    <3>1. b # Len(rom.blocks[d]) + 1
      <4>1. b <= Len(rom.blocks[d]) /\ Len(rom.blocks[d]) \in Nat  BY <1>8
      <4> HIDE DEF b, d
      <4> QED  BY <4>1
    <3> HIDE DEF d, b
    <3>2. W[n].parent = IF b = Len(rom.blocks[d]) + 1 THEN V[n - 1].parent ELSE n - 1
      BY <1>3, <1>4, <3>1
    <3> QED  BY <1>11, <1>12, <1>a, <1>c, <2>1, <2>3, <2>4, <3>2, ParentsGrow
  <2>6. StackInv(frames', W, n + 1, head')
    <3>1. head'[m + 1] = W[n].parent  BY <1>3, <1>5
    <3> QED  BY <1>5, <1>9, <1>10, <1>11, <1>a, <1>b, <1>c, <2>1, <2>2, <3>1, StackBranches
  <2> QED  BY <2>5, <2>6
<1> QED  BY <1>13, <1>14, <1>15 DEF WalkedInv

\* The second walk begins with the first header alone.
LEMMA CollectStep ==
  ASSUME TypeOK, StackOK, WalkInv', StartCollecting
  PROVE  TreeInv'
<1> DEFINE W == interface_vec'
<1>1. /\ phase' = "collect" /\ rom' = rom /\ frames = <<>> /\ frames' = <<Frame(First)>>
      /\ s_interface_index' = 0
      /\ W = [Resized(interface_vec, s_scanned_interface_count) EXCEPT ![0] = Described(First, -1)]
      /\ dfh_parent_stack_push(-1) /\ phase = "count"
      /\ s_scanned_interface_count' = s_scanned_interface_count
  BY DEF StartCollecting, Walking
<1>2. W[0].dfh = First /\ W[0].parent = -1
  <2>1. Follows(rom', frames', s_interface_index' + 1, s_scanned_interface_count')
    BY <1>1 DEF WalkInv
  <2>2. 0 + 1 <= s_scanned_interface_count  BY <1>1, <2>1, WithinTheTable
  <2>3. 0 \in 0 .. s_scanned_interface_count - 1  BY <2>2 DEF TypeOK
  <2> QED  BY <1>1, <2>3 DEF Resized, Described
<1>3. head'[1] = -1
  <2>1. top = 0 /\ size = INCR /\ INCR \in Nat /\ 1 < INCR /\ Room = INCR
    BY <1>1, FeatureConstants DEF StackOK, INCR, Room
  <2> QED  BY <1>1, <2>1 DEF dfh_parent_stack_push
<1> HIDE DEF W
<1>4. SUFFICES ASSUME ListsAreATree PROVE WalkedInv(frames', W, 0 + 1, head')
  BY <1>1, TreeWalked DEF W
<1>5. \A i : i \in 0 .. (0 + 1) - 1 <=> i = 0  OBVIOUS
<1>6. Listed(W, 0 + 1) = {First}  BY <1>2, <1>5 DEF Listed
<1>7. First \in Headers /\ First # NONE  BY FeatureConstants
<1>8. TableInv(W, 0 + 1)  BY <1>2, <1>5, <1>7 DEF TableInv
<1>9. Len(frames') = 1 /\ frames'[1].dfh = First /\ frames'[1].block = 1
  BY <1>1 DEF Frame
<1>10. \A a : a \in 1 .. Len(frames') <=> a = 1  BY <1>9
<1>11. FrontInv(frames', {First})
  <2>1. 1 \in Slots(First) /\ \A k \in Slots(First) : ~(k < 1)
    <3>1. Slots(First) = 1 .. Len(rom.blocks[First]) + 1 /\ Len(rom.blocks[First]) \in Nat
      BY <1>7, SlotsTyped
    <3> QED  BY <3>1
  <2>2. \A k \in Slots(First) : Reference(First, k) # First  BY <1>4, <1>7 DEF ListsAreATree
  <2>3. AtBlock(frames'[1], {First})  BY <1>9, <2>1, <2>2 DEF AtBlock
  <2> QED  BY <1>9, <1>10, <2>3 DEF FrontInv
<1>12. ParentsInv(W, 0 + 1)
  <2>1. ASSUME NEW k \in Slots(First) PROVE Reference(First, k) # First
    BY <1>4, <1>7 DEF ListsAreATree
  <2> QED  BY <1>2, <1>5, <2>1 DEF ParentsInv
<1>13. StackInv(frames', W, 0 + 1, head')
  BY <1>2, <1>3, <1>5, <1>9, <1>10 DEF StackInv
<1> QED  BY <1>6, <1>8, <1>11, <1>12, <1>13 DEF WalkedInv

\* The second walk ends when no frame is left.
LEMMA EndStep ==
  ASSUME TypeOK, WalkInv, HeapInv, TreeInv, EndScan
  PROVE  TreeInv'
<1> DEFINE n == s_interface_index + 1
<1>1. /\ phase = "collect" /\ phase' = "idle" /\ rom' = rom /\ frames = <<>>
      /\ interface_vec' = interface_vec
  BY DEF EndScan, Walking
<1>2. n = s_scanned_interface_count /\ n \in Nat
  <2>1. Follows(rom, frames, n, s_scanned_interface_count)  BY <1>1 DEF WalkInv
  <2>2. n \in Nat  BY DEF TypeOK
  <2> HIDE DEF n
  <2> QED  BY <1>1, <2>1, <2>2, WithinTheTable
<1>3. Interfaces' = 0 .. n - 1  BY <1>1, <1>2 DEF HeapInv, Interfaces
<1> HIDE DEF n
<1>4. ASSUME ListsAreATree PROVE DoneInv(interface_vec, n)
  <2>1. WalkedInv(frames, interface_vec, n, head)  BY <1>1, <1>4 DEF TreeInv, n
  <2>2. \A a \in 1 .. Len(frames) : FALSE  BY <1>1
  <2>3. \A c \in Listed(interface_vec, n) : \A k \in Slots(c) : Taken(Listed(interface_vec, n), c, k)
    BY <2>1, <2>2 DEF WalkedInv, FrontInv
  <2> QED  BY <2>1, <2>3 DEF WalkedInv, DoneInv
<1> QED  BY <1>1, <1>2, <1>3, <1>4, TreeDone

\* What a program does to the table leaves what is said of it.
LEMMA DoneStays ==
  ASSUME NEW V, NEW W, NEW n, DoneInv(V, n), SameTable(V, W, n)
  PROVE  DoneInv(W, n)
<1> USE DEF SameTable
<1>1. n \in Nat \ {0} /\ 0 \in 0 .. n - 1  BY DEF DoneInv, TableInv
<1>2. Listed(W, n) = Listed(V, n)  BY DEF Listed
<1>3. TableInv(W, n)
  <2>1. ASSUME NEW i \in 1 .. n - 1
        PROVE  \E j \in 0 .. i - 1 : \E k \in Slots(W[j].dfh) : Reference(W[j].dfh, k) = W[i].dfh
    <3>1. PICK j \in 0 .. i - 1 : \E k \in Slots(V[j].dfh) : Reference(V[j].dfh, k) = V[i].dfh
      BY DEF DoneInv, TableInv
    <3>2. i \in 0 .. n - 1 /\ j \in 0 .. n - 1  BY <1>1
    <3>3. W[j].dfh = V[j].dfh /\ W[i].dfh = V[i].dfh  BY <3>2
    <3> QED  BY <3>1, <3>3
  <2> QED  BY <1>1, <2>1 DEF DoneInv, TableInv
<1>4. Single => ParentsInv(W, n)
  <2> SUFFICES ASSUME Single PROVE ParentsInv(W, n)  OBVIOUS
  <2>1. ParentsInv(V, n)  BY DEF DoneInv
  <2>2. ASSUME NEW i \in 0 .. n - 1, NEW j \in 0 .. n - 1, NEW k \in Slots(W[i].dfh),
               Reference(W[i].dfh, k) = W[j].dfh
        PROVE  W[j].parent = IF k = Len(rom.blocks[W[i].dfh]) + 1 THEN W[i].parent ELSE i
    <3>1. /\ W[i].dfh = V[i].dfh /\ W[i].parent = V[i].parent
          /\ W[j].dfh = V[j].dfh /\ W[j].parent = V[j].parent
      OBVIOUS
    <3>2. k \in Slots(V[i].dfh) /\ Reference(V[i].dfh, k) = V[j].dfh  BY <2>2, <3>1
    <3>3. V[j].parent = IF k = Len(rom.blocks[V[i].dfh]) + 1 THEN V[i].parent ELSE i
      BY <2>1, <3>2, Zenon DEF ParentsInv
    <3> QED  BY <3>1, <3>3
  <2> QED  BY <1>1, <2>1, <2>2 DEF ParentsInv
<1> QED  BY <1>2, <1>3, <1>4 DEF DoneInv

LEMMA TreeInvStep ==
  ASSUME TypeOK, TypeOK', StackOK, WalkInv, WalkInv', HeapInv, TreeInv, [Next]_vars
  PROVE  TreeInv'
<1>1. CASE phase' \in {"count", "corrupt"}  BY <1>1 DEF TreeInv, Scanned
<1>2. CASE phase = "collect" /\ phase' = "collect" /\ ~UNCHANGED vars
  <2>1. NextBlock \/ Branch \/ NextFeature \/ EndOfList
    BY <1>2 DEF Next, Walk, StartScan, StartCollecting, EndScan, fpga_open, fpga_close,
       fpga_interrupt_open, fpga_interrupt_close, Set, fpga_platform_cleanup
  <2> QED  BY <1>2, <2>1, PassStep, BranchStep, MoveStep, ReturnStep
<1>3. CASE StartCollecting  BY <1>3, CollectStep
<1>4. CASE EndScan  BY <1>4, EndStep
<1>5. ASSUME NEW i \in Interfaces,
             fpga_open(i) \/ fpga_close(i) \/ fpga_interrupt_open(i) \/ fpga_interrupt_close(i)
      PROVE  TreeInv'
  <2>1. PICK field \in {"is_mmio_opened", "is_interrupt_opened"}, value \in BOOLEAN :
          Set(i, field, value)
    BY <1>5 DEF fpga_open, fpga_close, fpga_interrupt_open, fpga_interrupt_close
  <2>2. phase = "idle" /\ phase' = "idle" /\ rom' = rom
    BY <2>1 DEF Set, walk
  <2>3. /\ Interfaces' = Interfaces
        /\ \A k \in Interfaces : /\ interface_vec'[k].dfh = interface_vec[k].dfh
                                 /\ interface_vec'[k].parent = interface_vec[k].parent
    BY <2>1, SetKeeps
  <2>4. ASSUME ListsAreATree, Interfaces' # {}
        PROVE  \E n \in Nat : Interfaces' = 0 .. n - 1 /\ DoneInv(interface_vec', n)
    <3>1. PICK n \in Nat : Interfaces = 0 .. n - 1 /\ DoneInv(interface_vec, n)
      BY <2>2, <2>3, <2>4 DEF TreeInv, Scanned
    <3>a. SameTable(interface_vec, interface_vec', n)  BY <2>3, <3>1 DEF SameTable
    <3>2. DoneInv(interface_vec', n)  BY <3>1, <3>a, DoneStays
    <3> QED  BY <2>3, <3>1, <3>2
  <2> QED  BY <2>2, <2>4, TreeDone
<1>6. CASE fpga_platform_cleanup
  <2>1. phase' = "idle" /\ Interfaces' = {}
    BY <1>6 DEF fpga_platform_cleanup, walk, Resized, Interfaces
  <2> QED  BY <2>1 DEF TreeInv, Scanned
<1>7. CASE UNCHANGED vars
  <2>1. /\ rom' = rom /\ phase' = phase /\ frames' = frames /\ interface_vec' = interface_vec
        /\ s_interface_index' = s_interface_index /\ head' = head
    BY <1>7 DEF vars, walk, indices, dfh_parent_stack
  <2>2. CASE phase = "collect"
    <3>1. ListsAreATree => WalkedInv(frames', interface_vec', s_interface_index' + 1, head')
      BY <2>1, <2>2 DEF TreeInv
    <3> QED  BY <2>1, <2>2, <3>1, TreeWalked
  <2>3. CASE phase = "idle"
    <3>1. Interfaces' = Interfaces  BY <2>1 DEF Interfaces
    <3>2. ListsAreATree /\ Interfaces' # {} =>
            \E n \in Nat : Interfaces' = 0 .. n - 1 /\ DoneInv(interface_vec', n)
      BY <2>1, <2>3, <3>1 DEF TreeInv, Scanned
    <3> QED  BY <2>1, <2>3, <3>2, TreeDone
  <2> QED  BY <1>1, <2>1, <2>2, <2>3 DEF TypeOK
<1> QED
  BY <1>1, <1>2, <1>3, <1>4, <1>5, <1>6, <1>7
  DEF Next, Walk, StartScan, NextBlock, Branch, NextFeature, EndOfList, Walking

LEMMA TreeInvariance == Spec => []TreeInv
<1>1. Init => TreeInv  BY DEF Init, TreeInv, Scanned, Zeros, Interfaces
<1>2. IndInv => TypeOK /\ StackOK  BY DEF IndInv
<1>3. TypeOK /\ TypeOK' /\ StackOK /\ WalkInv /\ WalkInv' /\ HeapInv /\ TreeInv /\ [Next]_vars
        => TreeInv'
  BY TreeInvStep
<1> QED  BY <1>1, <1>2, <1>3, Invariance, WalkInvariance, HeapInvariance, PTL DEF Spec

-----------------------------------------------------------------------------
(* What the table says when the second walk is over. *)

\* Every set of numbers has a least one.
LEMMA Least ==
  ASSUME NEW S, S \subseteq Nat, S # {}
  PROVE  \E i \in S : \A j \in S : ~(j < i)
<1> DEFINE R == OpToRel(<, Nat)
<1>1. IsWellFoundedOn(R, Nat)  BY NatLessThanWellFounded
<1>2. R = {ss \in Nat \X Nat : ss[1] < ss[2]}  BY DEF OpToRel
<1> HIDE DEF R
<1>3. PICK i \in S : \A j \in S : ~(<<j, i>> \in R)  BY <1>1, WFMin
<1>4. ASSUME NEW j \in S, j < i PROVE FALSE
  <2>1. <<j, i>> \in R  BY <1>2, <1>4
  <2> QED  BY <1>3, <2>1
<1> QED  BY <1>4

\* All headers are in it: those that are not could not be reached.
LEMMA AllListed ==
  ASSUME ListsAreATree, NEW V, NEW n, DoneInv(V, n)
  PROVE  Listed(V, n) = Headers
<1>1. First \in Listed(V, n)
  <2>1. 0 \in 0 .. n - 1 /\ V[0].dfh = First  BY DEF DoneInv, TableInv
  <2> QED  BY <2>1 DEF Listed
<1>2. Listed(V, n) \in SUBSET Headers  BY DEF DoneInv, TableInv, Listed
<1>3. \A d \in Listed(V, n) : \A k \in Slots(d) : Reference(d, k) \in Listed(V, n) \cup {NONE}
  BY DEF DoneInv, Taken
<1> QED  BY <1>1, <1>2, <1>3 DEF ListsAreATree

LEMMA AsManyAsHeaders ==
  ASSUME ListsAreATree, NEW V, NEW n, DoneInv(V, n)
  PROVE  Cardinality(0 .. n - 1) = Cardinality(Headers)
<1> DEFINE f == [i \in 0 .. n - 1 |-> V[i].dfh]
<1>1. Listed(V, n) = Headers  BY AllListed
<1>2. f \in [0 .. n - 1 -> Headers]  BY DEF DoneInv, TableInv
<1>3. \A i, j \in 0 .. n - 1 : f[i] = f[j] => i = j  BY DEF DoneInv, TableInv
<1>4. \A d \in Headers : \E i \in 0 .. n - 1 : f[i] = d  BY <1>1 DEF Listed
<1>5. f \in Bijection(0 .. n - 1, Headers)
  <2> HIDE DEF f
  <2> QED  BY <1>2, <1>3, <1>4 DEF Bijection, Injection, Surjection, IsInjective
<1>6. ExistsBijection(0 .. n - 1, Headers)  BY <1>5 DEF ExistsBijection
<1>7. IsFiniteSet(0 .. n - 1)
  <2>1. n - 1 \in Int /\ 0 \in Int  BY DEF DoneInv, TableInv
  <2> QED  BY <2>1, FS_Interval
<1> QED  BY <1>6, <1>7, FS_Bijection

\* Only one header refers to one that is not the first, and it comes before it.
LEMMA Referrer ==
  ASSUME TypeOK, ListsAreATree, NEW V, NEW n, DoneInv(V, n), NEW j \in 0 .. n - 1, j # 0
  PROVE  \E i \in 0 .. j - 1 : \E k \in Slots(V[i].dfh) :
           /\ i \in 0 .. n - 1 /\ V[i].dfh \in Headers
           /\ Reference(V[i].dfh, k) = V[j].dfh
           /\ \A c \in Headers : \A l \in Slots(c) :
                Reference(c, l) = V[j].dfh => c = V[i].dfh /\ l = k
<1>1. n \in Nat \ {0} /\ j \in 1 .. n - 1  BY DEF DoneInv, TableInv
<1>2. PICK i \in 0 .. j - 1 : \E k \in Slots(V[i].dfh) : Reference(V[i].dfh, k) = V[j].dfh
  BY <1>1 DEF DoneInv, TableInv
<1>3. i \in 0 .. n - 1  BY <1>1
<1>4. V[i].dfh \in Headers /\ V[j].dfh \in Headers  BY <1>3 DEF DoneInv, TableInv
<1>5. V[j].dfh # NONE  BY <1>4, FeatureConstants
<1>6. PICK k \in Slots(V[i].dfh) : Reference(V[i].dfh, k) = V[j].dfh  BY <1>2
<1>7. \A c \in Headers : \A l \in Slots(c) :
        Reference(c, l) = V[j].dfh => c = V[i].dfh /\ l = k
  BY <1>4, <1>5, <1>6 DEF ListsAreATree
<1> QED  BY <1>3, <1>4, <1>6, <1>7

LEMMA InOrder ==
  ASSUME TypeOK, ListsAreATree, NEW V, NEW n, DoneInv(V, n),
         NEW i \in 0 .. n - 1, NEW j \in 0 .. n - 1, NEW k \in Slots(V[i].dfh),
         Reference(V[i].dfh, k) = V[j].dfh
  PROVE  i < j
<1>1. V[i].dfh \in Headers /\ V[0].dfh = First  BY DEF DoneInv, TableInv
<1>2. j # 0  BY <1>1 DEF ListsAreATree
<1>3. PICK h \in 0 .. j - 1 :
        /\ h \in 0 .. n - 1
        /\ \A c \in Headers : \A l \in Slots(c) : Reference(c, l) = V[j].dfh => c = V[h].dfh
  BY <1>2, Referrer
<1>4. V[i].dfh = V[h].dfh  BY <1>1, <1>3
<1>5. i = h  BY <1>3, <1>4 DEF DoneInv, TableInv
<1> QED  BY <1>3, <1>5

\* Where the parent of an interface comes from: a branch, or the one before it
\* in its list.
LEMMA FromWhere ==
  ASSUME TypeOK, ListsAreATree, Single, NEW V, NEW n, DoneInv(V, n),
         NEW j \in 0 .. n - 1, j # 0
  PROVE  /\ V[j].dfh # First
         /\ \E i \in 0 .. j - 1 :
              /\ i \in 0 .. n - 1 /\ V[i].dfh \in Headers
              /\ \/ Brancher(V[j].dfh) = {V[i].dfh} /\ V[j].parent = i
                 \/ /\ Brancher(V[j].dfh) = {} /\ V[j].parent = V[i].parent
                    /\ (CHOOSE e \in Headers : rom.next[e] = V[j].dfh) = V[i].dfh
<1> DEFINE d == V[j].dfh
<1>1. PICK i \in 0 .. j - 1 : \E k \in Slots(V[i].dfh) :
        /\ i \in 0 .. n - 1 /\ V[i].dfh \in Headers
        /\ Reference(V[i].dfh, k) = d
        /\ \A c \in Headers : \A l \in Slots(c) : Reference(c, l) = d => c = V[i].dfh /\ l = k
  BY Referrer
<1> DEFINE c == V[i].dfh
<1>2. PICK k \in Slots(c) :
        /\ Reference(c, k) = d
        /\ \A e \in Headers : \A l \in Slots(e) : Reference(e, l) = d => e = c /\ l = k
  BY <1>1
<1>3. c \in Headers /\ i \in 0 .. n - 1  BY <1>1
<1>4. d # First  BY <1>2, <1>3 DEF ListsAreATree
<1>5. ParentsInv(V, n)  BY DEF DoneInv
<1>6. V[j].parent = IF k = Len(rom.blocks[c]) + 1 THEN V[i].parent ELSE i
  BY <1>2, <1>3, <1>5, Zenon DEF ParentsInv
<1>7. \A e \in Headers : \A l \in DOMAIN rom.blocks[e] :
        rom.blocks[e][l] = d => e = c /\ l = k /\ k # Len(rom.blocks[c]) + 1
  <2> TAKE e \in Headers
  <2>1. rom.blocks[e] \in Seq(Headers \cup {NONE})  BY RomTyped
  <2>2. /\ Len(rom.blocks[e]) \in Nat
        /\ \A l \in 1 .. Len(rom.blocks[e]) : l \in Slots(e) /\ Reference(e, l) = rom.blocks[e][l]
    BY SlotsTyped
  <2>3. \A l \in DOMAIN rom.blocks[e] : l \in 1 .. Len(rom.blocks[e]) /\ l # Len(rom.blocks[e]) + 1
    BY <2>1
  <2> QED  BY <1>2, <2>2, <2>3
<1>8. \A e \in Headers : rom.next[e] = d => e = c /\ k = Len(rom.blocks[c]) + 1
  <2> TAKE e \in Headers
  <2>1. /\ Len(rom.blocks[e]) \in Nat /\ Slots(e) = 1 .. Len(rom.blocks[e]) + 1
        /\ Reference(e, Len(rom.blocks[e]) + 1) = rom.next[e]
    BY SlotsTyped
  <2>2. Len(rom.blocks[e]) + 1 \in Slots(e)  BY <2>1
  <2> QED  BY <1>2, <2>1, <2>2
<1>9. Slots(c) = 1 .. Len(rom.blocks[c]) + 1 /\ Len(rom.blocks[c]) \in Nat
      /\ Reference(c, Len(rom.blocks[c]) + 1) = rom.next[c]
      /\ \A l \in 1 .. Len(rom.blocks[c]) : Reference(c, l) = rom.blocks[c][l]
  BY <1>3, SlotsTyped
<1> HIDE DEF c, d
<1>10. CASE k = Len(rom.blocks[c]) + 1
  <2>1. Brancher(d) = {}  BY <1>7, <1>10 DEF Brancher
  <2>2. \A e \in Headers : rom.next[e] = d <=> e = c  BY <1>2, <1>8, <1>9, <1>10
  <2>3. (CHOOSE e \in Headers : rom.next[e] = d) = c  BY <1>3, <2>2
  <2>4. V[j].parent = V[i].parent  BY <1>6, <1>10
  <2> QED  BY <1>3, <1>4, <2>1, <2>3, <2>4 DEF c, d
<1>11. CASE k # Len(rom.blocks[c]) + 1
  <2>1. k \in 1 .. Len(rom.blocks[c])  BY <1>2, <1>9, <1>11
  <2>2. k \in DOMAIN rom.blocks[c] /\ rom.blocks[c][k] = d
    <3>1. rom.blocks[c] \in Seq(Headers \cup {NONE})  BY <1>3, RomTyped
    <3> QED  BY <1>2, <1>9, <2>1, <3>1
  <2>3. Brancher(d) = {c}  BY <1>3, <1>7, <2>2 DEF Brancher
  <2> QED  BY <1>3, <1>4, <1>6, <1>11, <2>3 DEF c, d
<1> QED  BY <1>10, <1>11

\* What a header's parent is by the lists alone, for a function g of the parents.
Up(g, d) ==
  IF Brancher(d) # {} THEN CHOOSE b \in Brancher(d) : TRUE
  ELSE IF d = First THEN NONE
  ELSE g[CHOOSE e \in Headers : rom.next[e] = d]

\* The parent that the table has for a header, as a header.
ParentIn(V, i) == IF V[i].parent = -1 THEN NONE ELSE V[V[i].parent].dfh

LEMMA FirstHasNoBrancher ==
  ASSUME TypeOK, ListsAreATree
  PROVE  Brancher(First) = {}
<1>1. ASSUME NEW d \in Headers, NEW k \in DOMAIN rom.blocks[d], rom.blocks[d][k] = First
      PROVE  FALSE
  <2>1. rom.blocks[d] \in Seq(Headers \cup {NONE})  BY RomTyped
  <2>2. k \in 1 .. Len(rom.blocks[d])  BY <2>1
  <2>3. k \in Slots(d) /\ Reference(d, k) = First  BY <1>1, <2>2, SlotsTyped
  <2> QED  BY <2>3 DEF ListsAreATree
<1> QED  BY <1>1 DEF Brancher

\* The recursion of ParentOf has a solution, the one that is in the table.
LEMMA ParentOfIsDefined ==
  ASSUME TypeOK, ListsAreATree, Single, NEW V, NEW n, DoneInv(V, n)
  PROVE  ParentOf = [d \in Headers |-> Up(ParentOf, d)]
<1> DEFINE at(d) == CHOOSE i \in 0 .. n - 1 : V[i].dfh = d
           g == [d \in Headers |-> ParentIn(V, at(d))]
<1>1. Listed(V, n) = Headers  BY AllListed
<1>2. \A i \in 0 .. n - 1 : V[i].dfh \in Headers /\ at(V[i].dfh) = i
  BY DEF DoneInv, TableInv
<1>3. \A i \in 0 .. n - 1 : g[V[i].dfh] = ParentIn(V, i)  BY <1>2
<1>4. ASSUME NEW d \in Headers PROVE g[d] = Up(g, d)
  <2>1. PICK j \in 0 .. n - 1 : V[j].dfh = d  BY <1>1 DEF Listed
  <2>2. g[d] = ParentIn(V, j)  BY <1>3, <2>1
  <2> HIDE DEF g
  <2>3. CASE j = 0
    <3>1. d = First /\ V[j].parent = -1  BY <2>1, <2>3 DEF DoneInv, TableInv, ParentsInv
    <3> QED  BY <2>2, <3>1, FirstHasNoBrancher DEF Up, ParentIn
  <2>4. CASE j # 0
    <3>1. d # First /\ \E i \in 0 .. j - 1 :
              /\ i \in 0 .. n - 1 /\ V[i].dfh \in Headers
              /\ \/ Brancher(d) = {V[i].dfh} /\ V[j].parent = i
                 \/ /\ Brancher(d) = {} /\ V[j].parent = V[i].parent
                    /\ (CHOOSE e \in Headers : rom.next[e] = d) = V[i].dfh
      BY <2>1, <2>4, FromWhere
    <3>2. PICK i \in 0 .. j - 1 :
              /\ i \in 0 .. n - 1 /\ V[i].dfh \in Headers
              /\ \/ Brancher(d) = {V[i].dfh} /\ V[j].parent = i
                 \/ /\ Brancher(d) = {} /\ V[j].parent = V[i].parent
                    /\ (CHOOSE e \in Headers : rom.next[e] = d) = V[i].dfh
      BY <3>1
    <3>3. CASE Brancher(d) = {V[i].dfh} /\ V[j].parent = i
      <4>1. i # -1  OBVIOUS
      <4> QED  BY <2>2, <3>3, <4>1 DEF Up, ParentIn
    <3>4. CASE /\ Brancher(d) = {} /\ V[j].parent = V[i].parent
               /\ (CHOOSE e \in Headers : rom.next[e] = d) = V[i].dfh
      <4>1. Up(g, d) = g[V[i].dfh]  BY <3>1, <3>4 DEF Up
      <4>2. g[V[i].dfh] = ParentIn(V, i)  BY <1>3, <3>2
      <4> QED  BY <2>2, <3>4, <4>1, <4>2 DEF ParentIn
    <3> QED  BY <3>2, <3>3, <3>4
  <2> QED  BY <2>3, <2>4
<1>5. \E f : f = [d \in Headers |-> Up(f, d)]
  <2>1. g = [d \in Headers |-> g[d]]  OBVIOUS
  <2> HIDE DEF g
  <2>2. [d \in Headers |-> g[d]] = [d \in Headers |-> Up(g, d)]  BY <1>4
  <2> QED  BY <2>1, <2>2
<1>6. ParentOf = CHOOSE f : f = [d \in Headers |-> Up(f, d)]  BY DEF ParentOf, Up
<1> QED  BY <1>5, <1>6

\* The table has the parent of every header.
LEMMA ParentsAreRight ==
  ASSUME TypeOK, ListsAreATree, Single, NEW V, NEW n, DoneInv(V, n), NEW j \in 0 .. n - 1
  PROVE  V[j].parent \in {-1} \cup (0 .. n - 1) /\ ParentOf[V[j].dfh] = ParentIn(V, j)
<1> DEFINE Right(i) == V[i].parent \in {-1} \cup (0 .. n - 1) /\ ParentOf[V[i].dfh] = ParentIn(V, i)
           Wrong == {i \in 0 .. n - 1 : ~Right(i)}
<1>1. \A d \in Headers : ParentOf[d] = Up(ParentOf, d)
  <2> DEFINE P == ParentOf
  <2>1. P = [d \in Headers |-> Up(P, d)]  BY ParentOfIsDefined
  <2> HIDE DEF P
  <2>2. \A d \in Headers : P[d] = Up(P, d)  BY <2>1
  <2> QED  BY <2>2 DEF P
<1>2. \A i \in 0 .. n - 1 : V[i].dfh \in Headers  BY DEF DoneInv, TableInv
<1>3. ASSUME Wrong # {} PROVE FALSE
  <2>1. Wrong \subseteq Nat  OBVIOUS
  <2>2. PICK i \in Wrong : \A h \in Wrong : ~(h < i)
    <3> HIDE DEF Wrong
    <3> QED  BY <1>3, <2>1, Least
  <2>3. i \in 0 .. n - 1 /\ ~Right(i)  OBVIOUS
  <2>4. CASE i = 0
    <3>1. V[i].dfh = First /\ V[i].parent = -1  BY <2>4 DEF DoneInv, TableInv, ParentsInv
    <3>2. ParentOf[V[i].dfh] = NONE
      BY <1>1, <1>2, <2>3, <3>1, FirstHasNoBrancher DEF Up
    <3> QED  BY <2>3, <3>1, <3>2 DEF ParentIn
  <2>5. CASE i # 0
    <3>1. V[i].dfh # First /\ \E h \in 0 .. i - 1 :
              /\ h \in 0 .. n - 1 /\ V[h].dfh \in Headers
              /\ \/ Brancher(V[i].dfh) = {V[h].dfh} /\ V[i].parent = h
                 \/ /\ Brancher(V[i].dfh) = {} /\ V[i].parent = V[h].parent
                    /\ (CHOOSE e \in Headers : rom.next[e] = V[i].dfh) = V[h].dfh
      BY <2>3, <2>5, FromWhere
    <3>2. PICK h \in 0 .. i - 1 :
              /\ h \in 0 .. n - 1 /\ V[h].dfh \in Headers
              /\ \/ Brancher(V[i].dfh) = {V[h].dfh} /\ V[i].parent = h
                 \/ /\ Brancher(V[i].dfh) = {} /\ V[i].parent = V[h].parent
                    /\ (CHOOSE e \in Headers : rom.next[e] = V[i].dfh) = V[h].dfh
      BY <3>1
    <3>3. Right(h)
      <4>1. h < i  BY <2>3
      <4> QED  BY <2>2, <3>2, <4>1
    <3>4. ParentOf[V[i].dfh] = Up(ParentOf, V[i].dfh)  BY <1>1, <1>2, <2>3
    <3> HIDE DEF Wrong
    <3>5. CASE Brancher(V[i].dfh) = {V[h].dfh} /\ V[i].parent = h
      <4>1. h # -1  OBVIOUS
      <4>2. Up(ParentOf, V[i].dfh) = V[h].dfh  BY <3>5 DEF Up
      <4> QED  BY <2>3, <3>2, <3>4, <3>5, <4>1, <4>2 DEF ParentIn
    <3>6. CASE /\ Brancher(V[i].dfh) = {} /\ V[i].parent = V[h].parent
               /\ (CHOOSE e \in Headers : rom.next[e] = V[i].dfh) = V[h].dfh
      <4>1. Up(ParentOf, V[i].dfh) = ParentOf[V[h].dfh]  BY <3>1, <3>6 DEF Up
      <4>2. ParentIn(V, i) = ParentIn(V, h)  BY <3>6 DEF ParentIn
      <4> QED  BY <2>3, <3>3, <3>4, <3>6, <4>1, <4>2
    <3> QED  BY <3>2, <3>5, <3>6
  <2> QED  BY <2>4, <2>5
<1> QED  BY <1>3

-----------------------------------------------------------------------------
(* Theorems. *)

(* The walk stays in the ROM, and reads nothing outside its stack.         *)
THEOREM TypeCorrect == Spec => []TypeOK
<1>1. IndInv => TypeOK  BY DEF IndInv
<1> QED  BY <1>1, Invariance, PTL

(* The stack of parents is overrun by lists nested as deep as it is large, *)
(* but for two slots, and by no others.                                    *)
THEOREM OverrunsWhenDeep == Spec => []OverrunOnlyWhenDeep
<1>1. IndInv => OverrunOnlyWhenDeep  BY DEF IndInv, StackOK, OverrunOnlyWhenDeep, INCR
<1> QED  BY <1>1, Invariance, PTL

(* Between scans the heap holds the table, what it refers to and nothing   *)
(* else, whatever the lists are and however often they are scanned.        *)
THEOREM HeapAlwaysTheTable == Spec => []HeapIsTheTable
<1>1. HeapInv => HeapIsTheTable
  <2> SUFFICES ASSUME HeapInv, phase = "idle"
               PROVE  live = IF Interfaces = {} THEN {}
                             ELSE {<<"vec", 0, 0>>} \cup
                                  UNION {Allocated(i, interface_vec[i].dfh) : i \in Interfaces}
    BY DEF HeapIsTheTable
  <2>1. PICK n \in Nat :
          /\ Interfaces = 0 .. n - 1
          /\ live = IF n = 0 THEN {} ELSE {<<"vec", 0, 0>>} \cup BlocksOf(interface_vec, n)
    BY DEF HeapInv
  <2>2. n = 0 <=> Interfaces = {}  BY <2>1
  <2> QED  BY <2>1, <2>2 DEF BlocksOf
<1> QED  BY <1>1, HeapInvariance, PTL

(* Whatever tree the lists are, a scan describes each of their headers once, *)
(* a list in its order, and a branch after the header it leaves from.      *)
THEOREM DescribedOnce == Spec => []EveryFeatureOnce
<1>1. TypeOK /\ TreeInv => EveryFeatureOnce
  <2> SUFFICES ASSUME TypeOK, TreeInv, Scanned, ListsAreATree
               PROVE  /\ {interface_vec[i].dfh : i \in Interfaces} = Headers
                      /\ Cardinality(Interfaces) = Cardinality(Headers)
                      /\ \A i, j \in Interfaces : \A k \in Slots(interface_vec[i].dfh) :
                           Reference(interface_vec[i].dfh, k) = interface_vec[j].dfh => i < j
    BY DEF EveryFeatureOnce
  <2>1. PICK n \in Nat : Interfaces = 0 .. n - 1 /\ DoneInv(interface_vec, n)  BY DEF TreeInv
  <2>2. {interface_vec[i].dfh : i \in Interfaces} = Headers  BY <2>1, AllListed DEF Listed
  <2>3. Cardinality(Interfaces) = Cardinality(Headers)  BY <2>1, AsManyAsHeaders
  <2>4. \A i, j \in Interfaces : \A k \in Slots(interface_vec[i].dfh) :
          Reference(interface_vec[i].dfh, k) = interface_vec[j].dfh => i < j
    BY <2>1, InOrder
  <2> QED  BY <2>2, <2>3, <2>4
<1> QED  BY <1>1, TypeCorrect, TreeInvariance, PTL

(* The parent of an interface is the one that branched to its list, in lists *)
(* of which no header branches twice.                                      *)
THEOREM ParentsBranched == Spec => []ParentIsTheBrancher
<1>1. TypeOK /\ TreeInv => ParentIsTheBrancher
  <2> SUFFICES ASSUME TypeOK, TreeInv, Scanned, ListsAreATree, Single, NEW i \in Interfaces
               PROVE  LET p == interface_vec[i].parent
                      IN  IF ParentOf[interface_vec[i].dfh] = NONE THEN p = -1
                          ELSE p \in Interfaces
                               /\ interface_vec[p].dfh = ParentOf[interface_vec[i].dfh]
    BY DEF ParentIsTheBrancher, Single
  <2>1. PICK n \in Nat : Interfaces = 0 .. n - 1 /\ DoneInv(interface_vec, n)  BY DEF TreeInv
  <2> DEFINE p == interface_vec[i].parent
  <2>2. p \in {-1} \cup (0 .. n - 1) /\ ParentOf[interface_vec[i].dfh] = ParentIn(interface_vec, i)
    BY <2>1, ParentsAreRight
  <2>3. p # -1 => p \in Interfaces /\ interface_vec[p].dfh # NONE
    <3>1. \A h \in 0 .. n - 1 : interface_vec[h].dfh \in Headers
      BY <2>1 DEF DoneInv, TableInv
    <3> QED  BY <2>1, <2>2, <3>1, FeatureConstants
  <2> QED  BY <2>2, <2>3 DEF ParentIn
<1> QED  BY <1>1, TypeCorrect, TreeInvariance, PTL

=============================================================================
