--------------------------- MODULE MCFeatureList ---------------------------
(* Five headers, and every way in which each but the first is the next of an *)
(* earlier one or in one of its blocks; blocks that are left do not branch,  *)
(* and the last of a header carries data or not for all headers alike.  Then *)
(* lists that are no tree: one that two headers share, and one that nothing  *)
(* refers to.                                                                *)
EXTENDS FeatureList

MCHeaders == 1 .. 5
MCFirst == 1
Next0 == 0      \* the next header, and two blocks
Places == {Next0, 1, 2}

\* Where the header is referred to from, no two from the same place.
References ==
  {f \in [2 .. 5 -> MCHeaders \X Places] :
     /\ \A d \in 2 .. 5 : f[d][1] < d
     /\ \A d, e \in 2 .. 5 : f[d] = f[e] => d = e}

At(f, d, p) ==
  IF \E e \in 2 .. 5 : f[e] = <<d, p>> THEN CHOOSE e \in 2 .. 5 : f[e] = <<d, p>> ELSE 0

Trees ==
  {[next |-> [d \in MCHeaders |-> At(f, d, Next0)],
    blocks |-> [d \in MCHeaders |->
      IF \A b \in {1, 2} : At(f, d, b) = 0 THEN <<>> ELSE <<At(f, d, 1), At(f, d, 2)>>],
    last_has_data |-> [d \in MCHeaders |-> e]] : f \in References, e \in BOOLEAN}

Shared ==
  {[next |-> <<0, 3, 0, 3, 0>>, blocks |-> <<<<2, 4>>, <<>>, <<>>, <<>>, <<>>>>,
    last_has_data |-> [d \in MCHeaders |-> e]] : e \in BOOLEAN}

MCROMs == Trees \cup Shared
=============================================================================
