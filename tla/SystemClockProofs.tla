------------------------- MODULE SystemClockProofs -------------------------
(***************************************************************************)
(* Theorems about SystemClock, for every set of alarms, width of a word,   *)
(* tick and rate of the clock, however far mtime counts.                   *)
(*                                                                         *)
(* Three invariants carry them, each inductive once the types are known:   *)
(* what the readers and writers of the timer hold while mtime goes on      *)
(* (ReadsAreTrue, WritesAreTrue, SleepIsTrue); the ring, in both           *)
(* directions (Ring); and how far alt_tick has walked it (WalkHolds).      *)
(***************************************************************************)
EXTENDS SystemClock, TLAPS

Actors == {"isr", "thread"}

-----------------------------------------------------------------------------
(* The list of alarms: alt_llist_insert and alt_llist_remove keep the ring. *)

InRing(L) == L.started \cup {HEAD}

\* The links lead round the ring, and back.
RingNext(L) == \A x \in InRing(L) : L.next[x] \in InRing(L) /\ L.prev[L.next[x]] = x
RingPrev(L) == \A x \in InRing(L) : L.prev[x] \in InRing(L) /\ L.next[L.prev[x]] = x

\* All that is started is reached from the head.
RingWhole(L) ==
  \A S \in SUBSET L.started :
    (\A x \in S \cup {HEAD} : L.next[x] \in S \cup {HEAD}) => S = L.started

Unlinked(L) ==
  \A a \in Alarms \ InRing(L) : L.next[a] \in {NULL, a} /\ L.prev[a] = L.next[a]

Ring(L) == RingNext(L) /\ RingPrev(L) /\ RingWhole(L) /\ Unlinked(L)

LEMMA RingIsTheRing == Ring(alarms) => ListIsARing
BY DEF Ring, RingNext, RingPrev, RingWhole, Unlinked, InRing, ListIsARing

\* What alt_llist_insert writes.
LEMMA InsertedLinks ==
  ASSUME NEW L \in Lists, Ring(L), NEW a \in Alarms \ L.started
  PROVE  /\ Inserted(L, a).time = L.time /\ Inserted(L, a).started = L.started
         /\ Inserted(L, a).next \in [Alarms \cup {HEAD} -> Alarms \cup {HEAD, NULL}]
         /\ Inserted(L, a).prev \in [Alarms \cup {HEAD} -> Alarms \cup {HEAD, NULL}]
         /\ \A x \in Alarms \cup {HEAD} :
              /\ Inserted(L, a).next[x] = IF x = HEAD THEN a
                                          ELSE IF x = a THEN L.next[HEAD] ELSE L.next[x]
              /\ Inserted(L, a).prev[x] = IF x = a THEN HEAD
                                          ELSE IF x = L.next[HEAD] THEN a ELSE L.prev[x]
<1>1. L.next[HEAD] \in Alarms \cup {HEAD}
  BY DEF Ring, RingNext, InRing, Lists
<1> QED BY <1>1, ClockConstants DEF Inserted, Lists

\* What alt_llist_remove writes, of an entry that is linked.
LEMMA RemovedLinks ==
  ASSUME NEW L \in Lists, Ring(L), NEW a \in Alarms, L.next[a] # NULL
  PROVE  /\ L.next[a] \in Alarms \cup {HEAD} /\ L.prev[a] \in Alarms \cup {HEAD}
         /\ Removed(L, a).time = L.time /\ Removed(L, a).started = L.started
         /\ Removed(L, a).next \in [Alarms \cup {HEAD} -> Alarms \cup {HEAD, NULL}]
         /\ Removed(L, a).prev \in [Alarms \cup {HEAD} -> Alarms \cup {HEAD, NULL}]
         /\ \A x \in Alarms \cup {HEAD} :
              /\ Removed(L, a).next[x] = IF x = a THEN a
                                         ELSE IF x = L.prev[a] THEN L.next[a] ELSE L.next[x]
              /\ Removed(L, a).prev[x] = IF x = a THEN a
                                         ELSE IF x = L.next[a] THEN L.prev[a] ELSE L.prev[x]
<1>1. CASE a \in L.started
  <2>1. L.next[a] \in Alarms \cup {HEAD} /\ L.prev[a] \in Alarms \cup {HEAD}
    BY <1>1 DEF Ring, RingNext, RingPrev, InRing, Lists
  <2> QED BY <2>1, ClockConstants DEF Removed, Lists
<1>2. CASE a \notin L.started
  <2>1. L.next[a] = a /\ L.prev[a] = a
    BY <1>2, ClockConstants DEF Ring, Unlinked, InRing
  <2> QED BY <2>1, ClockConstants DEF Removed, Lists
<1> QED BY <1>1, <1>2

\* No started alarm is linked to itself: the ring would not reach it.
LEMMA NotItsOwnNeighbour ==
  ASSUME NEW L \in Lists, Ring(L), NEW a \in L.started
  PROVE  L.next[a] # a /\ L.prev[a] # a
<1>1. a # HEAD
  BY ClockConstants DEF Lists
<1>2. ASSUME L.next[a] = a PROVE FALSE
  <2> DEFINE S == L.started \ {a}
  <2>1. ASSUME NEW x \in S \cup {HEAD} PROVE L.next[x] \in S \cup {HEAD}
    <3>1. x \in InRing(L) /\ a \in InRing(L) /\ x # a
      BY <1>1, <2>1 DEF InRing
    <3>2. L.next[x] \in InRing(L) /\ L.prev[L.next[x]] = x /\ L.prev[a] = a
      BY <1>2, <3>1 DEF Ring, RingNext
    <3> QED BY <3>1, <3>2 DEF InRing
  <2>2. S \in SUBSET L.started
    OBVIOUS
  <2>3. S = L.started
    BY <2>1, <2>2 DEF Ring, RingWhole
  <2> QED BY <2>3
<1>3. a \in InRing(L)
  BY DEF InRing
<1> QED BY <1>2, <1>3 DEF Ring, RingPrev

LEMMA StartedIs ==
  ASSUME NEW L \in Lists, Ring(L), NEW a \in Alarms \ L.started, NEW n \in Nat,
         nticks \in Nat
  PROVE  /\ Started(L, a, n) \in Lists
         /\ Started(L, a, n).next = Inserted(L, a).next
         /\ Started(L, a, n).prev = Inserted(L, a).prev
         /\ Started(L, a, n).started = L.started \cup {a}
         /\ \A x \in Alarms : Started(L, a, n).time[x] = IF x = a THEN nticks + n + 1
                                                       ELSE L.time[x]
<1> DEFINE I == Inserted(L, a)
<1>1. I = [L EXCEPT !.next = I.next, !.prev = I.prev]
  BY DEF Inserted, Lists
<1>2. I \in Lists
  BY <1>1, InsertedLinks DEF Lists
<1>3. Started(L, a, n) = [I EXCEPT !.time[a] = nticks + n + 1, !.started = @ \cup {a}]
  BY DEF Started
<1>4. I.time = L.time /\ I.started = L.started
  BY InsertedLinks
<1> HIDE DEF I
<1>5. [I.time EXCEPT ![a] = nticks + n + 1] \in [Alarms -> Nat]
  BY <1>2 DEF Lists
<1>6. Started(L, a, n) \in Lists
  <2>1. I.started \cup {a} \in SUBSET Alarms
    BY <1>2 DEF Lists
  <2>2. Started(L, a, n) = [I EXCEPT !.time = [I.time EXCEPT ![a] = nticks + n + 1],
                                     !.started = I.started \cup {a}]
    BY <1>2, <1>3 DEF Lists
  <2> QED BY <1>2, <1>5, <2>1, <2>2 DEF Lists
<1>7. /\ Started(L, a, n).next = I.next /\ Started(L, a, n).prev = I.prev
      /\ Started(L, a, n).started = I.started \cup {a}
      /\ Started(L, a, n).time = [I.time EXCEPT ![a] = nticks + n + 1]
  BY <1>2, <1>3 DEF Lists
<1>8. L.time \in [Alarms -> Nat]
  BY DEF Lists
<1> QED BY <1>4, <1>6, <1>7, <1>8 DEF I

LEMMA StoppedIs ==
  ASSUME NEW L \in Lists, Ring(L), NEW a \in Alarms, L.next[a] # NULL
  PROVE  /\ Stopped(L, a) \in Lists
         /\ Stopped(L, a).next = Removed(L, a).next
         /\ Stopped(L, a).prev = Removed(L, a).prev
         /\ Stopped(L, a).started = L.started \ {a}
         /\ Stopped(L, a).time = L.time
<1> DEFINE R == Removed(L, a)
<1>1. R = [L EXCEPT !.next = R.next, !.prev = R.prev]
  BY DEF Removed, Lists
<1>2. R \in Lists
  BY <1>1, RemovedLinks DEF Lists
<1>3. Stopped(L, a) = [R EXCEPT !.started = @ \ {a}]
  BY DEF Stopped
<1>4. R.time = L.time /\ R.started = L.started
  BY RemovedLinks
<1> HIDE DEF R
<1> QED BY <1>2, <1>3, <1>4 DEF Lists, R

\* Starting an alarm that is not in the list keeps the ring.
LEMMA StartedKeepsRing ==
  ASSUME NEW L \in Lists, Ring(L), NEW a \in Alarms \ L.started, NEW n \in Nat,
         nticks \in Nat
  PROVE  Ring(Started(L, a, n))
<1> DEFINE M == Started(L, a, n)
           first == L.next[HEAD]
<1>1. M.started = L.started \cup {a} /\ InRing(M) = InRing(L) \cup {a}
  BY StartedIs DEF InRing
<1>2. ASSUME NEW x \in Alarms \cup {HEAD}
      PROVE  /\ M.next[x] = IF x = HEAD THEN a ELSE IF x = a THEN first ELSE L.next[x]
             /\ M.prev[x] = IF x = a THEN HEAD ELSE IF x = first THEN a ELSE L.prev[x]
  BY <1>2, StartedIs, InsertedLinks
<1>3. /\ a # HEAD /\ a \notin InRing(L) /\ HEAD \in InRing(L)
      /\ InRing(L) \subseteq Alarms \cup {HEAD} /\ first \in InRing(L)
      /\ L.prev[first] = HEAD
  BY ClockConstants DEF InRing, Lists, Ring, RingNext
<1> HIDE DEF M, first
<1>4. RingNext(M)
  <2> SUFFICES ASSUME NEW x \in InRing(M)
               PROVE  M.next[x] \in InRing(M) /\ M.prev[M.next[x]] = x
    BY DEF RingNext
  <2>1. CASE x = HEAD
    BY <1>1, <1>2, <1>3, <2>1
  <2>2. CASE x = a
    BY <1>1, <1>2, <1>3, <2>2
  <2>3. CASE x \in InRing(L) \ {HEAD}
    <3>1. L.next[x] \in InRing(L) /\ L.prev[L.next[x]] = x
      BY <2>3 DEF Ring, RingNext
    <3> QED BY <1>1, <1>2, <1>3, <2>3, <3>1
  <2> QED BY <1>1, <2>1, <2>2, <2>3
<1>5. RingPrev(M)
  <2> SUFFICES ASSUME NEW x \in InRing(M)
               PROVE  M.prev[x] \in InRing(M) /\ M.next[M.prev[x]] = x
    BY DEF RingPrev
  <2>1. CASE x = first
    BY <1>1, <1>2, <1>3, <2>1
  <2>2. CASE x = a
    BY <1>1, <1>2, <1>3, <2>2
  <2>3. CASE x \in InRing(L) \ {first}
    <3>1. L.prev[x] \in InRing(L) /\ L.next[L.prev[x]] = x
      BY <2>3 DEF Ring, RingPrev
    <3>2. L.prev[x] # HEAD
      BY <2>3, <3>1 DEF first
    <3> QED BY <1>1, <1>2, <1>3, <2>3, <3>1, <3>2
  <2> QED BY <1>1, <2>1, <2>2, <2>3
<1>6. RingWhole(M)
  <2> SUFFICES ASSUME NEW S \in SUBSET M.started,
                      \A x \in S \cup {HEAD} : M.next[x] \in S \cup {HEAD}
               PROVE  S = M.started
    BY DEF RingWhole
  <2> DEFINE T == S \ {a}
  <2>1. a \in S /\ first \in S \cup {HEAD}
    BY <1>2, <1>3
  <2>2. T \in SUBSET L.started
    BY <1>1
  <2>3. ASSUME NEW x \in T \cup {HEAD} PROVE L.next[x] \in T \cup {HEAD}
    <3>1. x \in InRing(L)
      BY <2>2, <2>3 DEF InRing
    <3>2. L.next[x] \in InRing(L) /\ L.next[x] # a
      BY <1>3, <3>1 DEF Ring, RingNext
    <3>3. CASE x = HEAD
      BY <2>1, <3>2, <3>3 DEF first
    <3>4. CASE x # HEAD
      <4>1. M.next[x] = L.next[x]
        BY <1>2, <1>3, <3>1, <3>4
      <4> QED BY <2>3, <3>2, <4>1
    <3> QED BY <3>3, <3>4
  <2>4. T = L.started
    BY <2>2, <2>3 DEF Ring, RingWhole
  <2> QED BY <1>1, <2>1, <2>4
<1>7. Unlinked(M)
  <2> SUFFICES ASSUME NEW x \in Alarms \ InRing(M)
               PROVE  M.next[x] \in {NULL, x} /\ M.prev[x] = M.next[x]
    BY DEF Unlinked
  <2>1. L.next[x] \in {NULL, x} /\ L.prev[x] = L.next[x]
    BY <1>1 DEF Ring, Unlinked
  <2>2. x # a /\ x # HEAD /\ x # first
    BY <1>1, <1>3 DEF InRing
  <2> QED BY <1>2, <2>1, <2>2
<1> QED BY <1>4, <1>5, <1>6, <1>7 DEF Ring, M

\* Stopping keeps it too, whether the alarm is in the list or not any more.
LEMMA StoppedKeepsRing ==
  ASSUME NEW L \in Lists, Ring(L), NEW a \in Alarms, L.next[a] # NULL
  PROVE  Ring(Stopped(L, a))
<1> DEFINE M == Stopped(L, a)
           before == L.prev[a]
           after == L.next[a]
<1>1. M.started = L.started \ {a} /\ InRing(M) = InRing(L) \ {a}
  BY StoppedIs, ClockConstants DEF InRing
<1>2. ASSUME NEW x \in Alarms \cup {HEAD}
      PROVE  /\ M.next[x] = IF x = a THEN a ELSE IF x = before THEN after ELSE L.next[x]
             /\ M.prev[x] = IF x = a THEN a ELSE IF x = after THEN before ELSE L.prev[x]
  BY <1>2, StoppedIs, RemovedLinks
<1>3. InRing(L) \subseteq Alarms \cup {HEAD} /\ HEAD \in InRing(L) /\ a # HEAD
  BY ClockConstants DEF InRing, Lists
<1>4. CASE a \notin L.started
  <2>1. before = a /\ after = a
    BY <1>4, ClockConstants DEF Ring, Unlinked, InRing
  <2>2. M.started = L.started /\ InRing(M) = InRing(L)
    BY <1>1, <1>4, ClockConstants DEF InRing
  <2>3. \A x \in Alarms \cup {HEAD} : M.next[x] = L.next[x] /\ M.prev[x] = L.prev[x]
    BY <1>2, <2>1
  <2> HIDE DEF M, before, after
  <2>4. RingNext(M)
    BY <1>3, <2>2, <2>3 DEF Ring, RingNext
  <2>5. RingPrev(M)
    BY <1>3, <2>2, <2>3 DEF Ring, RingPrev
  <2>6. RingWhole(M)
    <3> SUFFICES ASSUME NEW S \in SUBSET M.started,
                        \A x \in S \cup {HEAD} : M.next[x] \in S \cup {HEAD}
                 PROVE  S = M.started
      BY DEF RingWhole
    <3>1. \A x \in S \cup {HEAD} : L.next[x] \in S \cup {HEAD}
      BY <1>3, <2>2, <2>3 DEF InRing
    <3> QED BY <2>2, <3>1 DEF Ring, RingWhole
  <2>7. Unlinked(M)
    BY <2>2, <2>3 DEF Ring, Unlinked
  <2> QED BY <2>4, <2>5, <2>6, <2>7 DEF Ring, M
<1>5. CASE a \in L.started
  <2>1. /\ a \in InRing(L) /\ before \in InRing(L) /\ after \in InRing(L)
        /\ L.next[before] = a /\ L.prev[after] = a /\ before # a /\ after # a
    BY <1>5, NotItsOwnNeighbour DEF InRing, Ring, RingNext, RingPrev
  <2> HIDE DEF M, before, after
  <2>2. RingNext(M)
    <3> SUFFICES ASSUME NEW x \in InRing(M)
                 PROVE  M.next[x] \in InRing(M) /\ M.prev[M.next[x]] = x
      BY DEF RingNext
    <3>1. L.next[x] \in InRing(L) /\ L.prev[L.next[x]] = x /\ x \in InRing(L) /\ x # a
      BY <1>1 DEF Ring, RingNext
    <3>2. CASE x = before
      BY <1>1, <1>2, <1>3, <2>1, <3>2
    <3>3. CASE x # before
      <4>1. L.next[x] # a /\ L.next[x] # after
        BY <2>1, <3>1, <3>3 DEF before
      <4> QED BY <1>1, <1>2, <1>3, <3>1, <3>3, <4>1
    <3> QED BY <3>2, <3>3
  <2>3. RingPrev(M)
    <3> SUFFICES ASSUME NEW x \in InRing(M)
                 PROVE  M.prev[x] \in InRing(M) /\ M.next[M.prev[x]] = x
      BY DEF RingPrev
    <3>1. L.prev[x] \in InRing(L) /\ L.next[L.prev[x]] = x /\ x \in InRing(L) /\ x # a
      BY <1>1 DEF Ring, RingPrev
    <3>2. CASE x = after
      BY <1>1, <1>2, <1>3, <2>1, <3>2
    <3>3. CASE x # after
      <4>1. L.prev[x] # a /\ L.prev[x] # before
        BY <2>1, <3>1, <3>3 DEF after
      <4> QED BY <1>1, <1>2, <1>3, <3>1, <3>3, <4>1
    <3> QED BY <3>2, <3>3
  <2>4. RingWhole(M)
    <3> SUFFICES ASSUME NEW S \in SUBSET M.started,
                        \A x \in S \cup {HEAD} : M.next[x] \in S \cup {HEAD}
                 PROVE  S = M.started
      BY DEF RingWhole
    <3>1. ASSUME NEW x \in S \cup {HEAD}, x # before
          PROVE  L.next[x] \in S \cup {HEAD}
      <4>1. x \in Alarms \cup {HEAD} /\ x # a
        BY <1>1, <1>3, <3>1 DEF InRing
      <4>2. M.next[x] = L.next[x]
        BY <1>2, <3>1, <4>1
      <4> QED BY <3>1, <4>2
    <3>2. CASE before \in S \cup {HEAD}
      <4> DEFINE T == S \cup {a}
      <4>1. after \in S \cup {HEAD}
        BY <1>2, <1>3, <2>1, <3>2
      <4>2. ASSUME NEW x \in T \cup {HEAD} PROVE L.next[x] \in T \cup {HEAD}
        <5>1. CASE x = a
          BY <4>1, <5>1 DEF after
        <5>2. CASE x = before
          BY <2>1, <5>2
        <5>3. CASE x # a /\ x # before
          BY <3>1, <4>2, <5>3
        <5> QED BY <5>1, <5>2, <5>3
      <4>3. T \in SUBSET L.started
        BY <1>1, <1>5
      <4>4. T = L.started
        BY <4>2, <4>3 DEF Ring, RingWhole
      <4> QED BY <1>1, <4>4
    <3>3. CASE before \notin S \cup {HEAD}
      <4>1. \A x \in S \cup {HEAD} : L.next[x] \in S \cup {HEAD}
        BY <3>1, <3>3
      <4>2. S = L.started
        BY <1>1, <4>1 DEF Ring, RingWhole
      <4> QED BY <1>1, <1>5, <4>2
    <3> QED BY <3>2, <3>3
  <2>5. Unlinked(M)
    <3> SUFFICES ASSUME NEW x \in Alarms \ InRing(M)
                 PROVE  M.next[x] \in {NULL, x} /\ M.prev[x] = M.next[x]
      BY DEF Unlinked
    <3>1. CASE x = a
      BY <1>2, <3>1
    <3>2. CASE x # a
      <4>1. x \notin InRing(L) /\ x # before /\ x # after
        BY <1>1, <2>1, <3>2
      <4>2. L.next[x] \in {NULL, x} /\ L.prev[x] = L.next[x]
        BY <4>1 DEF Ring, Unlinked
      <4> QED BY <1>2, <3>2, <4>1, <4>2
    <3> QED BY <3>1, <3>2
  <2> QED BY <2>2, <2>3, <2>4, <2>5 DEF Ring, M
<1> QED BY <1>4, <1>5

-----------------------------------------------------------------------------
(* The walk of alt_tick round the ring. *)

\* V has been walked from the head on, and c comes next.
Walked(L, V, c) ==
  V \subseteq L.started /\ \A x \in V \cup {HEAD} : L.next[x] \in V \cup {HEAD, c}

\* No alarm is older than this tick, and those before c are not due any more.
NoneOlder(L) == \A a \in L.started : L.time[a] >= nticks
CalledBefore(L, c) ==
  \E V \in SUBSET L.started : Walked(L, V, c) /\ \A a \in V : L.time[a] > nticks

\* A started alarm is linked.
LEMMA StartedIsLinked ==
  ASSUME NEW L \in Lists, Ring(L), NEW a \in L.started
  PROVE  /\ a \in Alarms /\ a # HEAD /\ a # NULL /\ a \in InRing(L)
         /\ L.next[a] # NULL /\ L.next[a] # a /\ L.next[a] \in InRing(L)
         /\ InRing(L) \subseteq Alarms \cup {HEAD}
<1>1. a \in InRing(L) /\ InRing(L) \subseteq Alarms \cup {HEAD} /\ a \in Alarms
  BY DEF InRing, Lists
<1>2. L.next[a] \in InRing(L)
  BY <1>1 DEF Ring, RingNext
<1> QED BY <1>1, <1>2, NotItsOwnNeighbour, ClockConstants

\* A walk that comes back to the head has been everywhere.
LEMMA WalkEnds ==
  ASSUME NEW L \in Lists, Ring(L), NEW V, Walked(L, V, HEAD)
  PROVE  V = L.started
BY DEF Walked, Ring, RingWhole

\* From one alarm to the next.
LEMMA WalkGoesOn ==
  ASSUME NEW L \in Lists, Ring(L), NEW c \in L.started, NEW V, Walked(L, V, c)
  PROVE  Walked(L, V \cup {c}, L.next[c])
BY DEF Walked

\* An alarm that is started goes to the head of the list, behind the walk.
LEMMA WalkOutlivesStart ==
  ASSUME NEW L \in Lists, Ring(L), NEW a \in Alarms \ L.started, NEW n \in Nat,
         nticks \in Nat, NEW c, NEW V, Walked(L, V, c)
  PROVE  Walked(Started(L, a, n), V \cup {a}, c)
<1> DEFINE M == Started(L, a, n)
<1>1. /\ M.started = L.started \cup {a}
      /\ \A x \in Alarms \cup {HEAD} :
           M.next[x] = IF x = HEAD THEN a ELSE IF x = a THEN L.next[HEAD] ELSE L.next[x]
  BY StartedIs, InsertedLinks
<1>2. V \subseteq L.started /\ L.started \subseteq Alarms /\ a # HEAD
  BY ClockConstants DEF Walked, Lists
<1> HIDE DEF M
<1>3. ASSUME NEW x \in (V \cup {a}) \cup {HEAD}
      PROVE  M.next[x] \in (V \cup {a}) \cup {HEAD, c}
  BY <1>1, <1>2 DEF Walked
<1> QED BY <1>1, <1>2, <1>3 DEF Walked, M

\* One that is stopped, if it is not the one that comes next, is taken out of the
\* way already walked or of the way to come.
LEMMA WalkOutlivesStop ==
  ASSUME NEW L \in Lists, Ring(L), NEW a \in L.started, NEW c, a # c,
         NEW V, Walked(L, V, c)
  PROVE  Walked(Stopped(L, a), V \ {a}, c)
<1> DEFINE M == Stopped(L, a)
           before == L.prev[a]
<1>1. /\ M.started = L.started \ {a}
      /\ \A x \in Alarms \cup {HEAD} :
           M.next[x] = IF x = a THEN a ELSE IF x = before THEN L.next[a] ELSE L.next[x]
  BY StoppedIs, RemovedLinks, StartedIsLinked
<1>2. /\ V \subseteq L.started /\ L.started \subseteq Alarms
      /\ a # HEAD /\ L.next[a] # a /\ a \in InRing(L)
  BY StartedIsLinked DEF Walked, Lists
<1>3. before \in InRing(L) /\ L.next[before] = a
  BY <1>2 DEF Ring, RingPrev
<1> HIDE DEF M
<1>4. ASSUME NEW x \in (V \ {a}) \cup {HEAD}
      PROVE  M.next[x] \in (V \ {a}) \cup {HEAD, c}
  <2>1. x \in InRing(L) /\ x \in Alarms \cup {HEAD} /\ x # a
    BY <1>2 DEF InRing
  <2>2. L.next[x] \in V \cup {HEAD, c}
    BY DEF Walked
  <2>3. CASE x = before
    <3>1. a \in V
      BY <1>2, <1>3, <2>2, <2>3
    <3>2. L.next[a] \in V \cup {HEAD, c}
      BY <3>1 DEF Walked
    <3> QED BY <1>1, <1>2, <2>1, <2>3, <3>2
  <2>4. CASE x # before
    <3>1. L.next[x] # a
      BY <2>1, <2>4 DEF Ring, RingNext, before
    <3> QED BY <1>1, <2>1, <2>2, <2>4, <3>1
  <2> QED BY <2>3, <2>4
<1> QED BY <1>1, <1>2, <1>4 DEF Walked, M

\* The one that comes next may be stopped once the one after it is known.
LEMMA WalkSkipsStopped ==
  ASSUME NEW L \in Lists, Ring(L), NEW c \in L.started, NEW V, Walked(L, V, c)
  PROVE  Walked(Stopped(L, c), V \ {c}, L.next[c])
<1> DEFINE M == Stopped(L, c)
           before == L.prev[c]
<1>1. /\ M.started = L.started \ {c}
      /\ \A x \in Alarms \cup {HEAD} :
           M.next[x] = IF x = c THEN c ELSE IF x = before THEN L.next[c] ELSE L.next[x]
  BY StoppedIs, RemovedLinks, StartedIsLinked
<1>2. V \subseteq L.started /\ L.started \subseteq Alarms /\ c # HEAD /\ c \in InRing(L)
  BY StartedIsLinked DEF Walked, Lists
<1> HIDE DEF M
<1>3. ASSUME NEW x \in (V \ {c}) \cup {HEAD}
      PROVE  M.next[x] \in (V \ {c}) \cup {HEAD, L.next[c]}
  <2>1. x \in InRing(L) /\ x \in Alarms \cup {HEAD} /\ x # c
    BY <1>2 DEF InRing
  <2>2. L.next[x] \in V \cup {HEAD, c}
    BY DEF Walked
  <2>3. x # before => L.next[x] # c
    BY <2>1 DEF Ring, RingNext, before
  <2> QED BY <1>1, <2>1, <2>2, <2>3
<1> QED BY <1>1, <1>2, <1>3 DEF Walked, M

\* What alt_tick relies on as it walks: a list that holds, a place in it, no alarm
\* forgotten before that place.
OnTheWay(L, c) ==
  /\ L \in Lists /\ Ring(L) /\ c \in InRing(L)
  /\ NoneOlder(L) /\ CalledBefore(L, c)

\* Where alt_tick is once a callback has stopped the alarm that followed: at an
\* alarm off the list, which is its own next.
Astray(L, c) ==
  /\ L \in Lists /\ Ring(L) /\ NoneOlder(L)
  /\ c \in Alarms \ L.started /\ L.next[c] = c

WalkHolds(L, c) == OnTheWay(L, c) \/ Astray(L, c)

LEMMA StartKeepsWay ==
  ASSUME NEW L, NEW c, OnTheWay(L, c), nticks \in Nat,
         NEW a \in Alarms \ L.started, NEW n \in Nat
  PROVE  /\ OnTheWay(Started(L, a, n), c)
         /\ c \in L.started => c \in Started(L, a, n).started
                              /\ Started(L, a, n).next[c] = L.next[c]
<1> DEFINE M == Started(L, a, n)
<1>1. L \in Lists /\ Ring(L)
  BY DEF OnTheWay
<1>2. M \in Lists /\ Ring(M)
  BY <1>1, StartedIs, StartedKeepsRing
<1>3. /\ M.started = L.started \cup {a}
      /\ \A x \in Alarms : M.time[x] = IF x = a THEN nticks + n + 1 ELSE L.time[x]
  BY <1>1, StartedIs
<1>4. L.started \subseteq Alarms /\ L.time \in [Alarms -> Nat]
  BY <1>1 DEF Lists
<1>5. PICK V \in SUBSET L.started : Walked(L, V, c) /\ \A x \in V : L.time[x] > nticks
  BY DEF OnTheWay, CalledBefore
<1>6. Walked(M, V \cup {a}, c)
  BY <1>1, <1>5, WalkOutlivesStart
<1>7. c \in InRing(M)
  BY <1>3 DEF OnTheWay, InRing
<1>8. c \in L.started => M.next[c] = L.next[c]
  BY <1>1, StartedIs, InsertedLinks, StartedIsLinked
<1> HIDE DEF M
<1>9. NoneOlder(M)
  BY <1>3, <1>4 DEF NoneOlder, OnTheWay
<1>10. CalledBefore(M, c)
  <2>1. V \cup {a} \in SUBSET M.started /\ \A x \in V \cup {a} : M.time[x] > nticks
    BY <1>3, <1>4, <1>5
  <2> QED BY <1>6, <2>1 DEF CalledBefore
<1> QED BY <1>2, <1>3, <1>7, <1>8, <1>9, <1>10 DEF OnTheWay, M

LEMMA StopKeepsWay ==
  ASSUME NEW L, NEW c, OnTheWay(L, c), NEW a \in L.started, a # c, L.next[c] # a
  PROVE  /\ OnTheWay(Stopped(L, a), c)
         /\ c \in L.started => c \in Stopped(L, a).started
                              /\ Stopped(L, a).next[c] = L.next[c]
<1> DEFINE M == Stopped(L, a)
<1>1. L \in Lists /\ Ring(L)
  BY DEF OnTheWay
<1>2. a \in Alarms /\ L.next[a] # NULL /\ a # HEAD
  BY <1>1, StartedIsLinked
<1>3. M \in Lists /\ Ring(M) /\ M.started = L.started \ {a} /\ M.time = L.time
  BY <1>1, <1>2, StoppedIs, StoppedKeepsRing
<1>4. PICK V \in SUBSET L.started : Walked(L, V, c) /\ \A x \in V : L.time[x] > nticks
  BY DEF OnTheWay, CalledBefore
<1>5. Walked(M, V \ {a}, c)
  BY <1>1, <1>4, WalkOutlivesStop
<1>6. c \in InRing(M)
  BY <1>3 DEF OnTheWay, InRing
<1>7. ASSUME c \in L.started PROVE M.next[c] = L.next[c]
  <2>1. a \in InRing(L) /\ c \in Alarms
    BY <1>1, <1>7, StartedIsLinked
  <2>2. L.prev[a] # c
    BY <1>1, <2>1 DEF Ring, RingPrev
  <2> QED BY <1>1, <1>2, <2>1, <2>2, StoppedIs, RemovedLinks
<1> HIDE DEF M
<1>8. NoneOlder(M) /\ CalledBefore(M, c)
  BY <1>3, <1>4, <1>5 DEF NoneOlder, CalledBefore, OnTheWay
<1> QED BY <1>3, <1>6, <1>7, <1>8 DEF OnTheWay, M

\* What the callback returns settles the alarm it was called for, and the walk
\* goes on behind it.
LEMMA RecurringKeepsWay ==
  ASSUME NEW L, NEW c, OnTheWay(L, c), nticks \in Nat, c \in L.started, NEW n \in Nat
  PROVE  OnTheWay(Recurring(L, c, n), L.next[c])
<1>1. L \in Lists /\ Ring(L) /\ NoneOlder(L)
  BY DEF OnTheWay
<1>2. /\ c \in Alarms /\ L.next[c] # NULL /\ L.next[c] # c /\ L.next[c] \in InRing(L)
      /\ L.time \in [Alarms -> Nat] /\ L.started \subseteq Alarms
  BY <1>1, StartedIsLinked DEF Lists
<1>3. PICK V \in SUBSET L.started : Walked(L, V, c) /\ \A x \in V : L.time[x] > nticks
  BY DEF OnTheWay, CalledBefore
<1>4. CASE n = 0
  <2> DEFINE M == Stopped(L, c)
  <2>1. M \in Lists /\ Ring(M) /\ M.started = L.started \ {c} /\ M.time = L.time
    BY <1>1, <1>2, StoppedIs, StoppedKeepsRing
  <2>2. Walked(M, V \ {c}, L.next[c])
    BY <1>1, <1>3, WalkSkipsStopped
  <2>3. Recurring(L, c, n) = M
    BY <1>4 DEF Recurring
  <2> HIDE DEF M
  <2>4. NoneOlder(M) /\ CalledBefore(M, L.next[c]) /\ L.next[c] \in InRing(M)
    BY <1>1, <1>2, <1>3, <2>1, <2>2 DEF NoneOlder, CalledBefore, InRing
  <2> QED BY <2>1, <2>3, <2>4 DEF OnTheWay
<1>5. CASE n # 0
  <2> DEFINE M == [L EXCEPT !.time[c] = @ + n]
  <2>1. Recurring(L, c, n) = M
    BY <1>5 DEF Recurring
  <2>2. M = [L EXCEPT !.time = [L.time EXCEPT ![c] = L.time[c] + n]]
    BY <1>1, <1>2 DEF Lists
  <2>3. [L.time EXCEPT ![c] = L.time[c] + n] \in [Alarms -> Nat]
    BY <1>2
  <2>4. /\ M \in Lists /\ M.next = L.next /\ M.prev = L.prev /\ M.started = L.started
        /\ M.time = [L.time EXCEPT ![c] = L.time[c] + n]
    BY <1>1, <2>2, <2>3 DEF Lists
  <2> HIDE DEF M
  <2>5. Ring(M) /\ InRing(M) = InRing(L)
    <3>1. InRing(M) = InRing(L)
      BY <2>4 DEF InRing
    <3>2. RingNext(M) /\ RingPrev(M)
      BY <1>1, <2>4, <3>1 DEF Ring, RingNext, RingPrev
    <3>3. RingWhole(M)
      BY <1>1, <2>4 DEF Ring, RingWhole
    <3>4. Unlinked(M)
      BY <1>1, <2>4, <3>1 DEF Ring, Unlinked
    <3> QED BY <3>1, <3>2, <3>3, <3>4 DEF Ring
  <2>6. L.time[c] >= nticks
    BY <1>1 DEF NoneOlder
  <2>7. \A x \in Alarms : M.time[x] = IF x = c THEN L.time[c] + n ELSE L.time[x]
    BY <1>2, <2>4
  <2>8. NoneOlder(M)
    BY <1>1, <1>2, <2>4, <2>6, <2>7 DEF NoneOlder
  <2>9. Walked(M, V \cup {c}, L.next[c])
    <3>1. Walked(L, V \cup {c}, L.next[c])
      BY <1>1, <1>3, WalkGoesOn
    <3> QED BY <2>4, <3>1 DEF Walked
  <2>10. \A x \in V \cup {c} : M.time[x] > nticks
    BY <1>2, <1>3, <1>5, <2>6, <2>7
  <2>11. CalledBefore(M, L.next[c])
    BY <1>3, <2>4, <2>9, <2>10 DEF CalledBefore
  <2> QED BY <1>2, <2>1, <2>4, <2>5, <2>8, <2>11 DEF OnTheWay
<1> QED BY <1>4, <1>5

\* A callback that leaves its own alarm and the next one where they are leaves
\* the next step where it was.
LEMMA CallbackKeepsWay ==
  ASSUME OnTheWay(alarms, cursor), nticks \in Nat, cursor \in alarms.started,
         NEW L \in AfterCallback,
         \A a \in {cursor, alarms.next[cursor]} : a \in alarms.started => L # Stopped(alarms, a)
  PROVE  OnTheWay(L, cursor) /\ cursor \in L.started /\ L.next[cursor] = alarms.next[cursor]
<1>1. CASE L = alarms
  BY <1>1
<1>2. ASSUME NEW a \in Alarms \ alarms.started, NEW n \in Periods, L = Started(alarms, a, n)
      PROVE  OnTheWay(L, cursor) /\ cursor \in L.started
               /\ L.next[cursor] = alarms.next[cursor]
  BY <1>2, StartKeepsWay, ClockConstants
<1>3. ASSUME NEW a \in alarms.started, L = Stopped(alarms, a)
      PROVE  OnTheWay(L, cursor) /\ cursor \in L.started
               /\ L.next[cursor] = alarms.next[cursor]
  BY <1>3, StopKeepsWay
<1> QED BY <1>1, <1>2, <1>3 DEF AfterCallback

-----------------------------------------------------------------------------
(* Callbacks that stop an alarm alt_tick holds: its own, or the next. *)

\* Of an alarm off the list what its callback returns changes at most its time.
LEMMA RecurringOffTheList ==
  ASSUME NEW L \in Lists, Ring(L), NEW c \in Alarms \ L.started, L.next[c] = c,
         NEW n \in Nat
  PROVE  /\ Recurring(L, c, n) \in Lists
         /\ Recurring(L, c, n).started = L.started /\ Recurring(L, c, n).next = L.next
         /\ Recurring(L, c, n).prev = L.prev
         /\ \A x \in L.started : Recurring(L, c, n).time[x] = L.time[x]
<1>0. /\ c # NULL /\ c # HEAD /\ L.started \subseteq Alarms /\ c \notin InRing(L)
      /\ L.next \in [Alarms \cup {HEAD} -> Alarms \cup {HEAD, NULL}]
      /\ L.prev \in [Alarms \cup {HEAD} -> Alarms \cup {HEAD, NULL}]
      /\ L.time \in [Alarms -> Nat]
  BY ClockConstants DEF Lists, InRing
<1>1. L.prev[c] = c
  BY <1>0 DEF Ring, Unlinked
<1>2. CASE n = 0
  <2> DEFINE M == Stopped(L, c)
  <2>1. /\ M \in Lists /\ M.started = L.started \ {c} /\ M.time = L.time
        /\ M.next = Removed(L, c).next /\ M.prev = Removed(L, c).prev
    BY <1>0, StoppedIs
  <2>2. /\ Removed(L, c).next \in [Alarms \cup {HEAD} -> Alarms \cup {HEAD, NULL}]
        /\ Removed(L, c).prev \in [Alarms \cup {HEAD} -> Alarms \cup {HEAD, NULL}]
        /\ \A x \in Alarms \cup {HEAD} : /\ Removed(L, c).next[x] = L.next[x]
                                         /\ Removed(L, c).prev[x] = L.prev[x]
    BY <1>0, <1>1, RemovedLinks
  <2>3. Removed(L, c).next = L.next /\ Removed(L, c).prev = L.prev
    BY <1>0, <2>2
  <2>4. Recurring(L, c, n) = M
    BY <1>2 DEF Recurring
  <2> HIDE DEF M
  <2> QED BY <2>1, <2>3, <2>4
<1>3. CASE n # 0
  <2>1. [L.time EXCEPT ![c] = L.time[c] + n] \in [Alarms -> Nat]
    BY <1>0
  <2>2. Recurring(L, c, n) = [L EXCEPT !.time = [L.time EXCEPT ![c] = L.time[c] + n]]
    BY <1>0, <1>3 DEF Recurring, Lists
  <2> QED BY <1>0, <2>1, <2>2 DEF Lists
<1> QED BY <1>2, <1>3

\* Nothing of the walk depends on more than the links and the times of the list.
LEMMA SameWalk ==
  ASSUME NEW L, NEW d, WalkHolds(L, d), NEW M \in Lists,
         M.started = L.started, M.next = L.next, M.prev = L.prev,
         \A x \in L.started : M.time[x] = L.time[x]
  PROVE  WalkHolds(M, d)
<1>1. InRing(M) = InRing(L)
  BY DEF InRing
<1>2. Ring(L) /\ NoneOlder(L)
  BY DEF WalkHolds, OnTheWay, Astray
<1>3. Ring(M)
  <2>1. RingNext(M) /\ RingPrev(M)
    BY <1>1, <1>2 DEF Ring, RingNext, RingPrev
  <2>2. RingWhole(M)
    BY <1>2 DEF Ring, RingWhole
  <2>3. Unlinked(M)
    BY <1>1, <1>2 DEF Ring, Unlinked
  <2> QED BY <2>1, <2>2, <2>3 DEF Ring
<1>4. NoneOlder(M)
  BY <1>2 DEF NoneOlder
<1>5. ASSUME CalledBefore(L, d) PROVE CalledBefore(M, d)
  <2>1. PICK V \in SUBSET L.started : Walked(L, V, d) /\ \A a \in V : L.time[a] > nticks
    BY <1>5 DEF CalledBefore
  <2>2. Walked(M, V, d) /\ \A a \in V : M.time[a] > nticks
    BY <2>1 DEF Walked
  <2> QED BY <2>1, <2>2 DEF CalledBefore
<1> QED BY <1>1, <1>3, <1>4, <1>5 DEF WalkHolds, OnTheWay, Astray

\* So a callback that has taken its own alarm off the list changes nothing more.
LEMMA OffTheListKeepsWalk ==
  ASSUME NEW L, NEW d, WalkHolds(L, d), NEW c \in Alarms \ L.started, L.next[c] = c,
         NEW n \in Nat
  PROVE  WalkHolds(Recurring(L, c, n), d)
<1>1. L \in Lists /\ Ring(L)
  BY DEF WalkHolds, OnTheWay, Astray
<1> QED BY <1>1, RecurringOffTheList, SameWalk

\* Starting or stopping another alarm does not bring alt_tick back to the list.
LEMMA StartKeepsAstray ==
  ASSUME NEW L, NEW d, Astray(L, d), nticks \in Nat,
         NEW a \in Alarms \ L.started, a # d, NEW n \in Nat
  PROVE  Astray(Started(L, a, n), d)
<1> DEFINE M == Started(L, a, n)
<1>1. L \in Lists /\ Ring(L) /\ NoneOlder(L) /\ d \in Alarms \ L.started /\ L.next[d] = d
  BY DEF Astray
<1>2. M \in Lists /\ Ring(M) /\ M.started = L.started \cup {a}
  BY <1>1, StartedIs, StartedKeepsRing
<1>3. M.next[d] = d
  BY <1>1, StartedIs, InsertedLinks, ClockConstants
<1>4. \A x \in Alarms : M.time[x] = IF x = a THEN nticks + n + 1 ELSE L.time[x]
  BY <1>1, StartedIs
<1>5. L.started \subseteq Alarms
  BY <1>1 DEF Lists
<1> HIDE DEF M
<1>6. NoneOlder(M)
  BY <1>1, <1>2, <1>4, <1>5 DEF NoneOlder
<1> QED BY <1>1, <1>2, <1>3, <1>6 DEF Astray, M

LEMMA StopKeepsAstray ==
  ASSUME NEW L, NEW d, Astray(L, d), NEW a \in L.started
  PROVE  Astray(Stopped(L, a), d)
<1> DEFINE M == Stopped(L, a)
<1>1. L \in Lists /\ Ring(L) /\ NoneOlder(L) /\ d \in Alarms \ L.started /\ L.next[d] = d
  BY DEF Astray
<1>2. a \in Alarms /\ a \in InRing(L) /\ L.next[a] # NULL /\ a # d
  BY <1>1, StartedIsLinked
<1>3. M \in Lists /\ Ring(M) /\ M.started = L.started \ {a} /\ M.time = L.time
  BY <1>1, <1>2, StoppedIs, StoppedKeepsRing
<1>4. d \notin InRing(L) /\ d \in Alarms \cup {HEAD}
  BY <1>1, ClockConstants DEF InRing
<1>5. L.prev[a] # d
  BY <1>1, <1>2, <1>4 DEF Ring, RingPrev
<1>6. M.next[d] = d
  BY <1>1, <1>2, <1>4, <1>5, StoppedIs, RemovedLinks
<1> HIDE DEF M
<1>7. NoneOlder(M)
  BY <1>1, <1>3 DEF NoneOlder
<1> QED BY <1>1, <1>3, <1>6, <1>7 DEF Astray, M

LEMMA RecurringKeepsAstray ==
  ASSUME NEW L, NEW d, Astray(L, d), nticks \in Nat, NEW c \in L.started, NEW n \in Nat
  PROVE  Astray(Recurring(L, c, n), d)
<1>1. CASE n = 0
  BY <1>1, StopKeepsAstray DEF Recurring
<1>2. CASE n # 0
  <2> DEFINE M == [L EXCEPT !.time[c] = @ + n]
  <2>1. /\ L \in Lists /\ Ring(L) /\ NoneOlder(L)
        /\ d \in Alarms \ L.started /\ L.next[d] = d
    BY DEF Astray
  <2>2. L.started \subseteq Alarms /\ L.time \in [Alarms -> Nat]
    BY <2>1 DEF Lists
  <2>3. M = [L EXCEPT !.time = [L.time EXCEPT ![c] = L.time[c] + n]]
    BY <2>1, <2>2 DEF Lists
  <2>4. [L.time EXCEPT ![c] = L.time[c] + n] \in [Alarms -> Nat]
    BY <2>2
  <2>5. /\ M \in Lists /\ M.next = L.next /\ M.prev = L.prev /\ M.started = L.started
        /\ M.time = [L.time EXCEPT ![c] = L.time[c] + n]
    BY <2>1, <2>3, <2>4 DEF Lists
  <2>6. Recurring(L, c, n) = M
    BY <1>2 DEF Recurring
  <2> HIDE DEF M
  <2>7. InRing(M) = InRing(L)
    BY <2>5 DEF InRing
  <2>8. RingNext(M) /\ RingPrev(M)
    BY <2>1, <2>5, <2>7 DEF Ring, RingNext, RingPrev
  <2>9. RingWhole(M)
    BY <2>1, <2>5 DEF Ring, RingWhole
  <2>10. Unlinked(M)
    BY <2>1, <2>5, <2>7 DEF Ring, Unlinked
  <2>11. \A x \in L.started : M.time[x] = IF x = c THEN L.time[c] + n ELSE L.time[x]
    BY <2>2, <2>5
  <2>12. NoneOlder(M)
    BY <2>1, <2>2, <2>5, <2>11 DEF NoneOlder
  <2> QED BY <2>1, <2>5, <2>6, <2>8, <2>9, <2>10, <2>12 DEF Astray, Ring
<1> QED BY <1>1, <1>2

\* Whoever holds an alarm that is stopped holds one that is its own next.
LEMMA StoppedIsAstray ==
  ASSUME NEW L \in Lists, Ring(L), NoneOlder(L), NEW a \in L.started
  PROVE  Astray(Stopped(L, a), a)
<1> DEFINE M == Stopped(L, a)
<1>1. a \in Alarms /\ L.next[a] # NULL
  BY StartedIsLinked
<1>2. M \in Lists /\ Ring(M) /\ M.started = L.started \ {a} /\ M.time = L.time
  BY <1>1, StoppedIs, StoppedKeepsRing
<1>3. M.next[a] = a
  BY <1>1, StoppedIs, RemovedLinks
<1> HIDE DEF M
<1>4. NoneOlder(M)
  BY <1>2 DEF NoneOlder
<1> QED BY <1>1, <1>2, <1>3, <1>4 DEF Astray, M

\* A callback that starts its own alarm, which was stopped before it was called,
\* puts alt_tick at the first place of the list, unless it returns 0.
LEMMA StartedAnew ==
  ASSUME NEW L, NEW c, Astray(L, c), nticks \in Nat, NEW p \in Nat, NEW n \in Nat
  PROVE  WalkHolds(Recurring(Started(L, c, p), c, n), c)
<1> DEFINE M == Started(L, c, p)
<1>1. L \in Lists /\ Ring(L) /\ NoneOlder(L) /\ c \in Alarms \ L.started
  BY DEF Astray
<1>2. M \in Lists /\ Ring(M) /\ M.started = L.started \cup {c}
  BY <1>1, StartedIs, StartedKeepsRing
<1>3. M.next[HEAD] = c
  BY <1>1, StartedIs, InsertedLinks
<1>4. \A x \in Alarms : M.time[x] = IF x = c THEN nticks + p + 1 ELSE L.time[x]
  BY <1>1, StartedIs
<1>5. L.started \subseteq Alarms
  BY <1>1 DEF Lists
<1> HIDE DEF M
<1>6. NoneOlder(M)
  BY <1>1, <1>2, <1>4, <1>5 DEF NoneOlder
<1>7. ASSUME n = 0 PROVE WalkHolds(Recurring(M, c, n), c)
  <2>1. Recurring(M, c, n) = Stopped(M, c)
    BY <1>7 DEF Recurring
  <2> QED BY <1>2, <1>6, <2>1, StoppedIsAstray DEF WalkHolds
<1>8. ASSUME n # 0 PROVE WalkHolds(Recurring(M, c, n), c)
  <2> DEFINE R == Recurring(M, c, n)
  <2>1. Walked(M, {}, c)
    BY <1>3 DEF Walked
  <2>2. OnTheWay(M, c)
    BY <1>2, <1>6, <2>1 DEF OnTheWay, InRing, CalledBefore
  <2>3. OnTheWay(R, M.next[c])
    BY <1>2, <2>2, RecurringKeepsWay
  <2>4. R.next = M.next /\ R.started = M.started
    BY <1>2, <1>8 DEF Recurring, Lists
  <2> HIDE DEF R
  <2>5. Walked(R, {}, c)
    BY <1>3, <2>4 DEF Walked
  <2>6. OnTheWay(R, c)
    BY <1>2, <2>3, <2>4, <2>5 DEF OnTheWay, InRing, CalledBefore
  <2> QED BY <2>6 DEF WalkHolds, R
<1> QED BY <1>7, <1>8 DEF M

\* Whatever a callback does and returns, alt_tick goes on round the list or astray.
LEMMA CallKeepsWalk ==
  ASSUME WalkHolds(alarms, cursor), nticks \in Nat, cursor \in Alarms,
         NEW L \in AfterCallback, NEW n \in Nat
  PROVE  WalkHolds(Recurring(L, cursor, n), alarms.next[cursor])
<1>0. alarms \in Lists /\ Ring(alarms) /\ NoneOlder(alarms)
  BY DEF WalkHolds, OnTheWay, Astray
<1>1. CASE OnTheWay(alarms, cursor)
  <2>0. cursor \in alarms.started
    BY <1>1, ClockConstants DEF OnTheWay, InRing
  <2>1. CASE L = Stopped(alarms, cursor)
    <3>1. L = Recurring(alarms, cursor, 0)
      BY <2>1 DEF Recurring
    <3>2. WalkHolds(L, alarms.next[cursor])
      BY <1>1, <2>0, <3>1, RecurringKeepsWay DEF WalkHolds
    <3>3. Astray(L, cursor)
      BY <1>0, <2>0, <2>1, StoppedIsAstray
    <3> QED BY <3>2, <3>3, OffTheListKeepsWalk DEF Astray
  <2>2. CASE alarms.next[cursor] \in alarms.started /\ L = Stopped(alarms, alarms.next[cursor])
    <3> DEFINE d == alarms.next[cursor]
    <3>1. Astray(L, d)
      BY <1>0, <2>2, StoppedIsAstray
    <3>2. cursor # d /\ d \in Alarms /\ d # NULL /\ alarms.next[d] # NULL
      BY <1>0, <2>0, <2>2, StartedIsLinked
    <3>3. cursor \in L.started
      BY <1>0, <2>0, <2>2, <3>2, StoppedIs
    <3> QED BY <3>1, <3>3, RecurringKeepsAstray DEF WalkHolds
  <2>3. CASE \A a \in {cursor, alarms.next[cursor]} :
               a \in alarms.started => L # Stopped(alarms, a)
    <3>1. OnTheWay(L, cursor) /\ cursor \in L.started /\ L.next[cursor] = alarms.next[cursor]
      BY <1>1, <2>0, <2>3, CallbackKeepsWay
    <3> QED BY <3>1, RecurringKeepsWay DEF WalkHolds
  <2> QED BY <2>0, <2>1, <2>2, <2>3
<1>2. CASE Astray(alarms, cursor)
  <2>0. alarms.next[cursor] = cursor /\ cursor \in Alarms \ alarms.started
    BY <1>2 DEF Astray
  <2>1. ASSUME Astray(L, cursor) PROVE WalkHolds(Recurring(L, cursor, n), cursor)
    BY <2>1, OffTheListKeepsWalk DEF WalkHolds, Astray
  <2>2. CASE L = alarms
    BY <1>2, <2>0, <2>1, <2>2
  <2>3. ASSUME NEW a \in Alarms \ alarms.started, NEW p \in Periods, L = Started(alarms, a, p)
        PROVE  WalkHolds(Recurring(L, cursor, n), cursor)
    <3>1. p \in Nat
      BY ClockConstants
    <3>2. CASE a = cursor
      BY <1>2, <2>3, <3>1, <3>2, StartedAnew
    <3>3. CASE a # cursor
      BY <1>2, <2>1, <2>3, <3>1, <3>3, StartKeepsAstray
    <3> QED BY <3>2, <3>3
  <2>4. ASSUME NEW a \in alarms.started, L = Stopped(alarms, a)
        PROVE  WalkHolds(Recurring(L, cursor, n), cursor)
    BY <1>2, <2>1, <2>4, StopKeepsAstray
  <2> QED BY <2>0, <2>2, <2>3, <2>4 DEF AfterCallback
<1> QED BY <1>1, <1>2 DEF WalkHolds

-----------------------------------------------------------------------------
(* The invariant of the list, over the steps. *)

\* Between ticks nothing is due; within one, the walk holds.
ListInv ==
  /\ pc \in [Actors -> Places] /\ nticks \in Nat
  /\ cursor \in Alarms \cup {HEAD} /\ strayed \in {0, 1}
  /\ alarms \in Lists /\ Ring(alarms)
  /\ pc["isr"] # "tick" => \A a \in alarms.started : alarms.time[a] > nticks
  /\ pc["isr"] = "tick" => WalkHolds(alarms, cursor)

\* Where the list and the ticks stay alone, the invariant of the list does if the
\* handler neither enters nor leaves a tick.
LEMMA ListAlone ==
  ASSUME ListInv, pc' \in [Actors -> Places], UNCHANGED <<alarms, tick>>,
         pc'["isr"] = "tick" <=> pc["isr"] = "tick"
  PROVE  ListInv'
BY DEF ListInv, tick, WalkHolds, OnTheWay, Astray, NoneOlder, CalledBefore

\* What happens to the places.
LEMMA Moves ==
  ASSUME pc \in [Actors -> Places], NEW r \in Actors, NEW at \in Places, Goto(r, at)
  PROVE  pc' \in [Actors -> Places] /\ \A s \in Actors : pc'[s] = IF s = r THEN at ELSE pc[s]
BY DEF Goto

LEMMA ListInitially == Init => ListInv
<1> SUFFICES ASSUME Init PROVE ListInv
  OBVIOUS
<1> DEFINE unlinked == [x \in Alarms \cup {HEAD} |-> IF x = HEAD THEN HEAD ELSE NULL]
<1>1. alarms = [next |-> unlinked, prev |-> unlinked,
                time |-> [a \in Alarms |-> 0], started |-> {}]
  BY DEF Init
<1>2. /\ pc \in [Actors -> Places] /\ nticks = 0 /\ cursor = HEAD /\ strayed = 0
      /\ pc["isr"] = "off"
  BY DEF Init, Actors, Places
<1>3. unlinked \in [Alarms \cup {HEAD} -> Alarms \cup {HEAD, NULL}]
  OBVIOUS
<1>4. alarms \in Lists /\ InRing(alarms) = {HEAD} /\ alarms.started = {}
  BY <1>1, <1>3 DEF Lists, InRing
<1>5. /\ unlinked[HEAD] = HEAD
      /\ \A a \in Alarms : unlinked[a] = NULL
  BY ClockConstants
<1> HIDE DEF unlinked
<1>6. Ring(alarms)
  BY <1>1, <1>4, <1>5, ClockConstants DEF Ring, RingNext, RingPrev, RingWhole, Unlinked
<1> QED BY <1>2, <1>4, <1>6 DEF ListInv

LEMMA ListStep == ListInv /\ [Next]_vars => ListInv'
<1> SUFFICES ASSUME ListInv, [Next]_vars PROVE ListInv'
  OBVIOUS
<1>0. pc \in [Actors -> Places] /\ "isr" \in Actors /\ "thread" \in Actors
  BY DEF ListInv, Actors
<1>1. CASE Count
  BY <1>1, <1>0, ListAlone DEF Count, tick
<1>2. ASSUME NEW r \in Actors, Timer(r) PROVE ListInv'
  <2>1. PICK at \in Places \ {"tick"} : Goto(r, at)
    BY <1>2 DEF Timer, MtimeHigh, MtimeLow, MtimeAgain, Schedule, SetMax, SetLow, Places
  <2>2. pc[r] # "tick" /\ UNCHANGED <<alarms, tick>>
    BY <1>2 DEF Timer, MtimeHigh, MtimeLow, MtimeAgain, Schedule, SetMax, SetLow, Runs, tick
  <2>3. pc' \in [Actors -> Places] /\ \A s \in Actors : pc'[s] = IF s = r THEN at ELSE pc[s]
    BY <1>0, <2>1, Moves
  <2> QED BY <1>0, <2>1, <2>2, <2>3, ListAlone
<1>3. CASE IrqTaken
  <2>1. Goto("isr", "high") /\ pc["isr"] = "off" /\ UNCHANGED <<alarms, tick>> /\ "high" \in Places
    BY <1>3 DEF IrqTaken, tick, Places
  <2>2. pc' \in [Actors -> Places] /\ pc'["isr"] = "high"
    BY <1>0, <2>1, Moves
  <2> QED BY <2>1, <2>2, ListAlone
<1>4. CASE IrqScheduled
  <2>1. /\ pc["isr"] = "set_high" /\ nticks' = nticks + 1 /\ cursor' = alarms.next[HEAD]
        /\ strayed' = 0 /\ alarms' = alarms /\ Goto("isr", "tick") /\ "tick" \in Places
    BY <1>4 DEF IrqScheduled, Runs, Places
  <2>2. pc' \in [Actors -> Places] /\ pc'["isr"] = "tick"
    BY <1>0, <2>1, Moves
  <2>3. HEAD \in InRing(alarms) /\ InRing(alarms) \subseteq Alarms \cup {HEAD}
    BY DEF ListInv, InRing, Lists
  <2>4. cursor' \in InRing(alarms)
    BY <2>1, <2>3 DEF ListInv, Ring, RingNext
  <2>5. \A a \in alarms.started : alarms.time[a] > nticks /\ alarms.time[a] \in Nat
    BY <2>1 DEF ListInv, Lists
  <2>6. \A a \in alarms.started : alarms.time[a] >= nticks'
    BY <2>1, <2>5 DEF ListInv
  <2>7. Walked(alarms, {}, cursor')
    BY <2>1 DEF Walked
  <2>8. WalkHolds(alarms, cursor)'
    BY <2>1, <2>4, <2>6, <2>7 DEF ListInv, WalkHolds, OnTheWay, NoneOlder, CalledBefore
  <2> QED BY <2>1, <2>2, <2>3, <2>4, <2>8 DEF ListInv
<1>5. CASE TickSkips
  <2>1. /\ pc["isr"] = "tick" /\ cursor # HEAD /\ alarms.time[cursor] > nticks
        /\ cursor' = alarms.next[cursor] /\ alarms' = alarms /\ pc' = pc /\ nticks' = nticks
        /\ strayed' = strayed /\ strayed \in {0, 1}
    BY <1>5 DEF TickSkips, Runs, ListInv
  <2>2. CASE OnTheWay(alarms, cursor)
    <3>1. cursor \in alarms.started /\ alarms \in Lists /\ Ring(alarms)
      BY <2>1, <2>2 DEF OnTheWay, InRing
    <3>2. PICK V \in SUBSET alarms.started :
            Walked(alarms, V, cursor) /\ \A a \in V : alarms.time[a] > nticks
      BY <2>2 DEF OnTheWay, CalledBefore
    <3>3. Walked(alarms, V \cup {cursor}, cursor')
      BY <2>1, <3>1, <3>2, WalkGoesOn
    <3>4. V \cup {cursor} \in SUBSET alarms.started
            /\ \A a \in V \cup {cursor} : alarms.time[a] > nticks
      BY <2>1, <3>1, <3>2
    <3>5. CalledBefore(alarms, cursor)'
      BY <2>1, <3>3, <3>4 DEF CalledBefore
    <3>6. cursor' \in InRing(alarms) /\ cursor' \in Alarms \cup {HEAD}
      BY <2>1, <3>1, StartedIsLinked
    <3>7. WalkHolds(alarms, cursor)'
      BY <2>1, <2>2, <3>5, <3>6 DEF WalkHolds, OnTheWay, NoneOlder
    <3> QED BY <1>0, <2>1, <3>6, <3>7 DEF ListInv
  <2>3. CASE Astray(alarms, cursor)
    <3>1. cursor' = cursor
      BY <2>1, <2>3 DEF Astray
    <3>2. WalkHolds(alarms, cursor)'
      BY <2>1, <2>3, <3>1 DEF WalkHolds, Astray, NoneOlder
    <3> QED BY <2>1, <3>1, <3>2 DEF ListInv
  <2> QED BY <2>1, <2>2, <2>3 DEF ListInv, WalkHolds
<1>6. CASE TickCalls
  <2>1. /\ pc["isr"] = "tick" /\ cursor # HEAD
        /\ cursor' = alarms.next[cursor] /\ pc' = pc /\ nticks' = nticks
        /\ strayed' \in {0, 1}
    BY <1>6 DEF TickCalls, Runs, ListInv
  <2>2. PICK L \in AfterCallback, n \in Periods : alarms' = Recurring(L, cursor, n)
    BY <1>6 DEF TickCalls
  <2>3. WalkHolds(alarms, cursor) /\ cursor \in Alarms /\ nticks \in Nat
    BY <2>1 DEF ListInv
  <2>4. WalkHolds(Recurring(L, cursor, n), cursor')
    BY <2>1, <2>3, CallKeepsWalk, ClockConstants
  <2>5. WalkHolds(alarms, cursor)'
    BY <2>1, <2>2, <2>4 DEF WalkHolds, OnTheWay, Astray, NoneOlder, CalledBefore
  <2>6. cursor' \in Alarms \cup {HEAD} /\ alarms' \in Lists /\ Ring(alarms)'
    BY <2>5 DEF WalkHolds, OnTheWay, Astray, InRing, Lists
  <2> QED BY <1>0, <2>1, <2>3, <2>5, <2>6 DEF ListInv
<1>7. CASE TickDone
  <2>1. /\ pc["isr"] = "tick" /\ cursor = HEAD /\ Goto("isr", "off") /\ "off" \in Places
        /\ UNCHANGED <<alarms, nticks, cursor, strayed>>
    BY <1>7 DEF TickDone, Runs, tick, Places
  <2>2. pc' \in [Actors -> Places] /\ pc'["isr"] = "off"
    BY <1>0, <2>1, Moves
  <2>3. OnTheWay(alarms, HEAD)
    BY <2>1, ClockConstants DEF ListInv, WalkHolds, Astray
  <2>4. PICK V \in SUBSET alarms.started :
          Walked(alarms, V, HEAD) /\ \A a \in V : alarms.time[a] > nticks
    BY <2>3 DEF OnTheWay, CalledBefore
  <2>5. V = alarms.started
    BY <2>3, <2>4, WalkEnds DEF OnTheWay
  <2> QED BY <2>1, <2>2, <2>4, <2>5 DEF ListInv
<1>8. CASE SysclkInit \/ TimerStarted \/ (\E us \in Sleeps : BusySleep(us)) \/ SleepFrom \/ SleepOn
  <2>1. PICK at \in Places : Goto("thread", at)
    BY <1>8 DEF SysclkInit, TimerStarted, BusySleep, SleepFrom, SleepOn, Places
  <2>2. UNCHANGED <<alarms, tick>>
    BY <1>8 DEF SysclkInit, TimerStarted, BusySleep, SleepFrom, SleepOn, tick
  <2>3. pc' \in [Actors -> Places] /\ pc'["isr"] = pc["isr"]
    BY <1>0, <2>1, Moves
  <2> QED BY <2>2, <2>3, ListAlone
<1>9. ASSUME NEW a \in Alarms, NEW n \in Periods, AlarmStart(a, n) PROVE ListInv'
  <2>1. /\ pc["isr"] = "off" /\ a \notin alarms.started /\ alarms' = Started(alarms, a, n)
        /\ pc' = pc /\ UNCHANGED <<nticks, cursor, strayed>> /\ n \in Nat
    BY <1>9, ClockConstants DEF AlarmStart, tick
  <2>2. alarms \in Lists /\ Ring(alarms) /\ nticks \in Nat
    BY DEF ListInv
  <2>3. alarms' \in Lists /\ Ring(alarms')
    BY <2>1, <2>2, StartedIs, StartedKeepsRing
  <2>4. \A x \in alarms'.started : alarms'.time[x] > nticks
    <3>0. alarms.started \subseteq Alarms /\ alarms.time \in [Alarms -> Nat]
      BY <2>2 DEF Lists
    <3>1. alarms'.started = alarms.started \cup {a}
      BY <2>1, <2>2, StartedIs
    <3>2. \A x \in Alarms : alarms'.time[x] = IF x = a THEN nticks + n + 1 ELSE alarms.time[x]
      BY <2>1, <2>2, StartedIs
    <3>3. \A x \in alarms.started : alarms.time[x] > nticks
      BY <2>1 DEF ListInv
    <3> QED BY <2>1, <2>2, <3>0, <3>1, <3>2, <3>3
  <2> QED BY <2>1, <2>3, <2>4 DEF ListInv
<1>10. ASSUME NEW a \in Alarms, AlarmStop(a) PROVE ListInv'
  <2>1. /\ pc["isr"] = "off" /\ alarms.next[a] # NULL /\ alarms' = Stopped(alarms, a)
        /\ pc' = pc /\ UNCHANGED <<nticks, cursor, strayed>>
    BY <1>10 DEF AlarmStop, tick
  <2>2. alarms \in Lists /\ Ring(alarms)
    BY DEF ListInv
  <2>3. /\ alarms' \in Lists /\ Ring(alarms')
        /\ alarms'.started = alarms.started \ {a} /\ alarms'.time = alarms.time
    BY <2>1, <2>2, StoppedIs, StoppedKeepsRing
  <2>4. \A x \in alarms'.started : alarms'.time[x] > nticks
    BY <2>1, <2>3 DEF ListInv
  <2> QED BY <2>1, <2>3, <2>4 DEF ListInv
<1>11. CASE UNCHANGED vars
  BY <1>0, <1>11, ListAlone DEF vars
<1> QED
  BY <1>0, <1>1, <1>2, <1>3, <1>4, <1>5, <1>6, <1>7, <1>8, <1>9, <1>10, <1>11
  DEF Next, Isr, Thread

-----------------------------------------------------------------------------
(* The invariant of the timer: what is read and written in halves. *)

LEMMA Halves ==
  ASSUME NEW m \in Nat
  PROVE  High(m) \in Nat /\ Low(m) \in 0 .. Word - 1 /\ High(m) * Word + Low(m) = m
<1>1. Word \in Nat /\ Word > 0
  BY ClockConstants
<1> QED BY <1>1 DEF High, Low

LEMMA HighGrows ==
  ASSUME NEW m \in Nat, NEW n \in Nat, m <= n
  PROVE  High(m) <= High(n)
<1>1. Word \in Nat /\ Word > 0
  BY ClockConstants
<1>2. /\ High(m) \in Nat /\ Low(m) \in 0 .. Word - 1 /\ High(m) * Word + Low(m) = m
      /\ High(n) \in Nat /\ Low(n) \in 0 .. Word - 1 /\ High(n) * Word + Low(n) = n
  BY Halves
<1>3. SUFFICES ASSUME High(m) >= High(n) + 1 PROVE FALSE
  BY <1>2
<1>4. High(m) * Word >= (High(n) + 1) * Word
  BY <1>1, <1>2, <1>3
<1>5. (High(n) + 1) * Word = High(n) * Word + Word
  BY <1>1, <1>2
<1>6. High(m) * Word \in Nat /\ High(n) * Word \in Nat
  BY <1>1, <1>2
<1> QED BY <1>1, <1>2, <1>4, <1>5, <1>6

\* Whatever mtime comes to, and what is a tick later, has a high half.
LEMMA HighIsAWord ==
  ASSUME NEW m \in 0 .. MaxTime + DELTA
  PROVE  High(m) \in 0 .. Word - 1
<1>1. Word \in Nat /\ Word > 0 /\ m \in Nat /\ m < (Word - 1) * Word
  BY ClockConstants
<1>2. High(m) \in Nat /\ Low(m) \in 0 .. Word - 1 /\ High(m) * Word + Low(m) = m
  BY <1>1, Halves
<1>3. SUFFICES ASSUME High(m) >= Word PROVE FALSE
  BY <1>1, <1>2
<1>4. High(m) * Word >= Word * Word /\ (Word - 1) * Word <= Word * Word
  BY <1>1, <1>2, <1>3
<1>5. High(m) * Word \in Nat /\ Word * Word \in Nat /\ (Word - 1) * Word \in Nat
  BY <1>1, <1>2
<1> QED BY <1>1, <1>2, <1>4, <1>5

\* When each began to read.
Since(r) == IF r = "isr" THEN taken ELSE begun

\* A high half that is still the same says that the two halves belong together:
\* to a moment between the beginning of the read and now.
ReadIsTrue(r) ==
  /\ pc[r] \in {"low", "again"} => hi[r] <= High(mtime)
  /\ pc[r] = "again" /\ hi[r] = High(mtime) => Got(r) \in Since(r) .. mtime
  /\ pc[r] = "got" => Got(r) \in Since(r) .. mtime
ReadsAreTrue == \A r \in Actors : ReadIsTrue(r)

Mtimecmp == cmp_hi * Word + cmp_lo
Writing == {"set_max", "set_low", "set_high"}

\* Outside the handler's own write, mtimecmp is a tick after the last interrupt;
\* the thread writes it only while there are no interrupts.
WritesAreTrue ==
  /\ \A r \in Actors : pc[r] = "set_high" => cmp_lo = Low(target[r])
  /\ pc["isr"] \in Writing => target["isr"] >= taken + DELTA
  /\ mtie = 1 /\ pc["isr"] \in {"off", "tick"} => Mtimecmp >= taken + DELTA
  /\ mtie = 0 => pc["isr"] = "off" /\ taken = -DELTA
  /\ pc["thread"] \in Writing => mtie = 0
  /\ taken <= mtime

\* The clocks alt_busy_sleep waits for, in a word.
Clocks(us) == (MHZ * us) % Word

\* A sleep counts from no earlier than its beginning.
SleepIsTrue ==
  /\ begun <= mtime
  /\ pc["thread"] = "idle" \/ mtie = 0 => end_time = -1
  /\ end_time >= 0 => end_time = Clocks(asked) /\ begun <= offset

\* The part of TypeOK that is not about the list.
ClockTypes ==
  /\ mtime \in 0 .. MaxTime /\ mtie \in {0, 1} /\ tick_rate \in {0, 1}
  /\ cmp_hi \in 0 .. Word - 1 /\ cmp_lo \in 0 .. Word - 1
  /\ pc \in [Actors -> Places]
  /\ hi \in [Actors -> 0 .. Word - 1] /\ lo \in [Actors -> 0 .. Word - 1]
  /\ target \in [Actors -> 0 .. MaxTime + DELTA]
  /\ offset \in 0 .. MaxTime /\ end_time \in -1 .. Word - 1
  /\ begun \in 0 .. MaxTime /\ asked \in Sleeps \cup {0}
  /\ taken \in -DELTA .. MaxTime

ClockInv == ClockTypes /\ ReadsAreTrue /\ WritesAreTrue /\ SleepIsTrue

LEMMA TypesAre == ClockTypes /\ ListInv => TypeOK
BY DEF ClockTypes, ListInv, TypeOK, Actors

LEMMA ClockInitially == Init => ClockInv
<1> SUFFICES ASSUME Init PROVE ClockInv
  OBVIOUS
<1> USE ClockConstants DEF Init, Actors, Places
<1>1. ClockTypes
  BY DEF ClockTypes
<1>2. ReadsAreTrue
  BY DEF ReadsAreTrue, ReadIsTrue
<1>3. WritesAreTrue
  BY DEF WritesAreTrue, Writing, Mtimecmp
<1>4. SleepIsTrue
  BY DEF SleepIsTrue
<1> QED BY <1>1, <1>2, <1>3, <1>4 DEF ClockInv

\* A reader keeps what it holds, or is not reading.
LEMMA ReadKept ==
  ASSUME NEW s, ReadIsTrue(s), mtime' = mtime,
         \/ pc'[s] \notin {"low", "again", "got"}
         \/ /\ pc'[s] = pc[s] /\ hi'[s] = hi[s] /\ lo'[s] = lo[s]
            /\ Since(s)' = Since(s)
  PROVE  ReadIsTrue(s)'
BY DEF ReadIsTrue, Got

LEMMA ClocksInWord ==
  ASSUME NEW us \in Sleeps \cup {0}
  PROVE  /\ MHZ * us \in Nat /\ Clocks(us) \in 0 .. Word - 1
         /\ MHZ * us < Word => Clocks(us) = MHZ * us
<1>1. MHZ \in Nat /\ Word \in Nat /\ Word > 0 /\ us \in Nat
  BY ClockConstants
<1>2. MHZ * us \in Nat
  BY <1>1
<1>3. ASSUME NEW m \in Nat PROVE m % Word \in 0 .. Word - 1 /\ (m < Word => m % Word = m)
  BY <1>1
<1> QED BY <1>2, <1>3 DEF Clocks

LEMMA ReadStep ==
  ASSUME ClockInv, NEW r \in Actors, MtimeHigh(r) \/ MtimeLow(r) \/ MtimeAgain(r)
  PROVE  ClockInv'
<1>0. /\ pc \in [Actors -> Places] /\ mtime \in Nat
      /\ hi \in [Actors -> 0 .. Word - 1] /\ lo \in [Actors -> 0 .. Word - 1]
      /\ taken <= mtime /\ begun <= mtime /\ taken \in Int /\ begun \in Int
  BY ClockConstants DEF ClockInv, ClockTypes, WritesAreTrue, SleepIsTrue
<1>1. /\ High(mtime) \in 0 .. Word - 1 /\ Low(mtime) \in 0 .. Word - 1
      /\ High(mtime) * Word + Low(mtime) = mtime
  <2>1. mtime \in 0 .. MaxTime + DELTA
    BY ClockConstants DEF ClockInv, ClockTypes
  <2> QED BY <1>0, <2>1, Halves, HighIsAWord
<1>2. UNCHANGED <<mtime, cmp_hi, cmp_lo, mtie, tick_rate, target, offset, end_time, begun,
                  asked, taken>>
  BY DEF MtimeHigh, MtimeLow, MtimeAgain, timer, sleep
<1>3. PICK at \in {"high", "low", "again", "got"} : Goto(r, at)
  BY DEF MtimeHigh, MtimeLow, MtimeAgain
<1>4. pc' \in [Actors -> Places] /\ \A s \in Actors : pc'[s] = IF s = r THEN at ELSE pc[s]
  BY <1>0, <1>3, Moves DEF Places
<1>5. pc[r] \in {"high", "low", "again"} /\ (r = "thread" => pc["isr"] = "off")
  BY DEF MtimeHigh, MtimeLow, MtimeAgain, Runs
<1>6. /\ hi' \in [Actors -> 0 .. Word - 1] /\ lo' \in [Actors -> 0 .. Word - 1]
      /\ \A s \in Actors \ {r} : hi'[s] = hi[s] /\ lo'[s] = lo[s]
  BY <1>0, <1>1 DEF MtimeHigh, MtimeLow, MtimeAgain
<1>7. ClockTypes'
  BY <1>2, <1>4, <1>6 DEF ClockInv, ClockTypes
<1>8. ASSUME NEW s \in Actors, s # r PROVE ReadIsTrue(s)'
  BY <1>2, <1>4, <1>6, <1>8, ReadKept DEF ClockInv, ReadsAreTrue, Since
<1>9. ReadIsTrue(r)'
  <2>1. CASE MtimeHigh(r)
    <3>1. pc'[r] = "low" /\ hi'[r] = High(mtime)
      BY <1>0, <2>1 DEF MtimeHigh, Goto
    <3> QED BY <1>1, <1>2, <3>1 DEF ReadIsTrue
  <2>2. CASE MtimeLow(r)
    <3>1. pc[r] = "low" /\ pc'[r] = "again" /\ hi'[r] = hi[r] /\ lo'[r] = Low(mtime)
      BY <1>0, <2>2 DEF MtimeLow, Goto, Runs
    <3>2. hi[r] <= High(mtime)
      BY <3>1 DEF ClockInv, ReadsAreTrue, ReadIsTrue
    <3>3. hi'[r] = High(mtime) => Got(r)' = mtime
      BY <1>1, <3>1 DEF Got
    <3>4. mtime \in Since(r) .. mtime
      BY <1>0 DEF Since
    <3> QED BY <1>2, <3>1, <3>2, <3>3, <3>4 DEF ReadIsTrue, Since
  <2>3. CASE MtimeAgain(r)
    <3>1. /\ pc[r] = "again" /\ hi'[r] = hi[r] /\ lo'[r] = lo[r]
          /\ pc'[r] = IF High(mtime) = hi[r] THEN "got" ELSE "high"
      BY <1>0, <2>3 DEF MtimeAgain, Goto, Runs
    <3> QED BY <1>2, <3>1 DEF ClockInv, ReadsAreTrue, ReadIsTrue, Got, Since
  <2> QED BY <2>1, <2>2, <2>3
<1>10. WritesAreTrue'
  BY <1>2, <1>3, <1>4, <1>5 DEF ClockInv, WritesAreTrue, Writing, Mtimecmp, Actors
<1>11. SleepIsTrue'
  BY <1>2, <1>3, <1>4, <1>5 DEF ClockInv, SleepIsTrue, Actors
<1> QED BY <1>7, <1>8, <1>9, <1>10, <1>11 DEF ClockInv, ReadsAreTrue

LEMMA WriteStep ==
  ASSUME ClockInv, NEW r \in Actors, Schedule(r) \/ SetMax(r) \/ SetLow(r)
  PROVE  ClockInv'
<1>0. /\ pc \in [Actors -> Places] /\ mtime \in 0 .. MaxTime /\ Word \in Nat /\ Word > 0
      /\ DELTA \in Nat /\ MaxTime \in Nat
      /\ target \in [Actors -> 0 .. MaxTime + DELTA] /\ taken \in Int
  BY ClockConstants DEF ClockInv, ClockTypes
<1>1. UNCHANGED <<mtime, mtie, tick_rate, hi, lo, offset, end_time, begun, asked, taken>>
  BY DEF Schedule, SetMax, SetLow, timer, sleep
<1>2. PICK at \in Writing : Goto(r, at)
  BY DEF Schedule, SetMax, SetLow, Writing
<1>3. pc' \in [Actors -> Places] /\ \A s \in Actors : pc'[s] = IF s = r THEN at ELSE pc[s]
  BY <1>0, <1>2, Moves DEF Places, Writing
<1>4. /\ pc[r] \in {"got", "set_max", "set_low"} /\ (r = "thread" => pc["isr"] = "off")
      /\ r = "thread" => mtie = 0
  BY DEF Schedule, SetMax, SetLow, Runs, ClockInv, WritesAreTrue, Writing
<1>5. /\ target' \in [Actors -> 0 .. MaxTime + DELTA]
      /\ \A s \in Actors \ {r} : target'[s] = target[s]
      /\ r = "isr" => target'[r] >= taken + DELTA
  <2>1. CASE Schedule(r)
    <3>1. Got(r) \in Since(r) .. mtime
      BY <2>1 DEF Schedule, Runs, ClockInv, ReadsAreTrue, ReadIsTrue
    <3>2. Since(r) \in Int /\ (r = "isr" => Since(r) = taken)
      BY <1>0 DEF Since, ClockInv, ClockTypes
    <3>3. Got(r) \in Nat
      BY <1>0 DEF Got, ClockInv, ClockTypes
    <3>4. target' = [target EXCEPT ![r] = Got(r) + DELTA]
      BY <2>1 DEF Schedule
    <3> QED BY <1>0, <3>1, <3>2, <3>3, <3>4
  <2>2. CASE SetMax(r) \/ SetLow(r)
    <3>1. target' = target /\ pc[r] \in Writing
      BY <2>2 DEF SetMax, SetLow, Runs, Writing
    <3> QED BY <1>0, <3>1 DEF ClockInv, WritesAreTrue
  <2> QED BY <2>1, <2>2
<1>6. cmp_hi' \in 0 .. Word - 1 /\ cmp_lo' \in 0 .. Word - 1
  <2>1. target[r] \in Nat
    BY <1>0
  <2>2. Low(target[r]) \in 0 .. Word - 1
    BY <2>1, Halves
  <2> QED BY <1>0, <2>2 DEF ClockInv, ClockTypes, Schedule, SetMax, SetLow, timer
<1>7. ClockTypes'
  BY <1>1, <1>3, <1>5, <1>6 DEF ClockInv, ClockTypes
<1>8. ReadsAreTrue'
  <2> SUFFICES ASSUME NEW s \in Actors PROVE ReadIsTrue(s)'
    BY DEF ReadsAreTrue
  <2>1. CASE s = r
    BY <1>1, <1>3, <2>1, ReadKept DEF ClockInv, ReadsAreTrue, Writing
  <2>2. CASE s # r
    BY <1>1, <1>3, <2>2, ReadKept DEF ClockInv, ReadsAreTrue, Since
  <2> QED BY <2>1, <2>2
<1>9. \A s \in Actors : pc'[s] = "set_high" => cmp_lo' = Low(target'[s])
  <2> SUFFICES ASSUME NEW s \in Actors, pc'[s] = "set_high"
               PROVE  cmp_lo' = Low(target'[s])
    OBVIOUS
  <2>1. CASE s = r
    BY <1>0, <1>3, <2>1 DEF Schedule, SetMax, SetLow, Goto
  <2>2. CASE s # r
    <3>1. pc[s] = "set_high"
      BY <1>3, <2>2
    <3> QED BY <1>4, <2>2, <3>1 DEF Actors, ClockInv, WritesAreTrue, Writing
  <2> QED BY <2>1, <2>2
<1>10. WritesAreTrue'
  <2>1. mtie' = 0 => pc'["isr"] = "off" /\ taken' = -DELTA
    BY <1>1, <1>3, <1>4 DEF ClockInv, WritesAreTrue, Actors, Writing
  <2>2. pc'["thread"] \in Writing => mtie' = 0
    BY <1>1, <1>3, <1>4 DEF ClockInv, WritesAreTrue, Actors
  <2>3. pc'["isr"] \in Writing => target'["isr"] >= taken' + DELTA
    BY <1>1, <1>3, <1>4, <1>5 DEF ClockInv, WritesAreTrue, Actors
  <2>4. ~(mtie' = 1 /\ pc'["isr"] \in {"off", "tick"})
    BY <1>1, <1>3, <1>4 DEF Actors, Writing
  <2> QED BY <1>1, <1>9, <2>1, <2>2, <2>3, <2>4 DEF ClockInv, WritesAreTrue
<1>11. SleepIsTrue'
  BY <1>1, <1>3 DEF ClockInv, SleepIsTrue, Actors, Writing
<1> QED BY <1>7, <1>8, <1>10, <1>11 DEF ClockInv

\* The last write to mtimecmp, by either: it is what was aimed at, whole.
LEMMA CmpIsTarget ==
  ASSUME ClockInv, NEW r \in Actors, pc[r] = "set_high", cmp_hi' = High(target[r]),
         cmp_lo' = cmp_lo
  PROVE  cmp_hi' \in 0 .. Word - 1 /\ Mtimecmp' = target[r]
<1>1. target[r] \in 0 .. MaxTime + DELTA /\ target[r] \in Nat
  BY ClockConstants DEF ClockInv, ClockTypes
<1>2. cmp_lo = Low(target[r])
  BY DEF ClockInv, WritesAreTrue
<1> QED BY <1>1, <1>2, Halves, HighIsAWord DEF Mtimecmp

LEMMA IrqStep ==
  ASSUME ClockInv, IrqTaken \/ IrqScheduled \/ TickSkips \/ TickCalls \/ TickDone
  PROVE  ClockInv'
<1>0. /\ pc \in [Actors -> Places] /\ mtime \in 0 .. MaxTime /\ "isr" \in Actors
      /\ "thread" \in Actors /\ DELTA \in Nat /\ MaxTime \in Nat /\ Word \in Nat /\ Word > 0
      /\ hi \in [Actors -> 0 .. Word - 1] /\ lo \in [Actors -> 0 .. Word - 1]
      /\ target \in [Actors -> 0 .. MaxTime + DELTA]
  BY ClockConstants DEF ClockInv, ClockTypes, Actors
<1>1. UNCHANGED <<mtime, cmp_lo, mtie, tick_rate, offset, end_time, begun, asked>>
  BY DEF IrqTaken, IrqScheduled, TickSkips, TickCalls, TickDone, timer, sleep
<1>2. CASE IrqTaken
  <2>1. /\ pc["isr"] = "off" /\ mtie = 1 /\ Goto("isr", "high") /\ taken' = mtime
        /\ UNCHANGED <<cmp_hi, hi, lo, target>>
    BY <1>2 DEF IrqTaken, timer
  <2>2. /\ pc' \in [Actors -> Places] /\ pc'["isr"] = "high" /\ pc'["thread"] = pc["thread"]
    BY <1>0, <2>1, Moves DEF Places, Actors
  <2>3. ClockTypes'
    BY <1>0, <1>1, <2>1, <2>2 DEF ClockInv, ClockTypes
  <2>4. ReadIsTrue("isr")' /\ ReadIsTrue("thread")'
    BY <1>0, <1>1, <2>1, <2>2, ReadKept DEF ClockInv, ReadsAreTrue, Since
  <2>5. WritesAreTrue'
    BY <1>0, <1>1, <2>1, <2>2 DEF ClockInv, WritesAreTrue, Writing, Mtimecmp, Actors
  <2>6. SleepIsTrue'
    BY <1>1, <2>1, <2>2 DEF ClockInv, SleepIsTrue
  <2> QED BY <2>3, <2>4, <2>5, <2>6 DEF ClockInv, ReadsAreTrue, Actors
<1>3. CASE IrqScheduled
  <2>1. /\ pc["isr"] = "set_high" /\ Goto("isr", "tick") /\ taken' = taken
        /\ cmp_hi' = High(target["isr"]) /\ Forget("isr")
    BY <1>3 DEF IrqScheduled, Runs
  <2>2. /\ pc' \in [Actors -> Places] /\ pc'["isr"] = "tick" /\ pc'["thread"] = pc["thread"]
    BY <1>0, <2>1, Moves DEF Places, Actors
  <2>3. /\ hi' \in [Actors -> 0 .. Word - 1] /\ lo' \in [Actors -> 0 .. Word - 1]
        /\ target' \in [Actors -> 0 .. MaxTime + DELTA]
        /\ hi'["thread"] = hi["thread"] /\ lo'["thread"] = lo["thread"]
        /\ target'["thread"] = target["thread"]
    BY <1>0, <2>1 DEF Forget
  <2>4. cmp_hi' \in 0 .. Word - 1 /\ Mtimecmp' = target["isr"]
    BY <1>0, <1>1, <2>1, CmpIsTarget
  <2>5. target["isr"] >= taken + DELTA /\ mtie = 1
    BY <1>0, <2>1 DEF ClockInv, ClockTypes, WritesAreTrue, Writing
  <2>6. ClockTypes'
    BY <1>1, <2>1, <2>2, <2>3, <2>4 DEF ClockInv, ClockTypes
  <2>7. ReadIsTrue("isr")' /\ ReadIsTrue("thread")'
    BY <1>0, <1>1, <2>1, <2>2, <2>3, ReadKept DEF ClockInv, ReadsAreTrue, Since
  <2>8. WritesAreTrue'
    BY <1>0, <1>1, <2>1, <2>2, <2>3, <2>4, <2>5 DEF ClockInv, WritesAreTrue, Writing, Actors
  <2>9. SleepIsTrue'
    BY <1>1, <2>1, <2>2 DEF ClockInv, SleepIsTrue
  <2> QED BY <2>6, <2>7, <2>8, <2>9 DEF ClockInv, ReadsAreTrue, Actors
<1>4. CASE TickSkips \/ TickCalls \/ TickDone
  <2>1. pc["isr"] = "tick" /\ UNCHANGED <<cmp_hi, hi, lo, target, taken>>
    BY <1>4 DEF TickSkips, TickCalls, TickDone, Runs, timer
  <2>2. PICK at \in {"off", "tick"} : Goto("isr", at)
    <3>1. CASE TickDone
      BY <3>1 DEF TickDone
    <3>2. CASE TickSkips \/ TickCalls
      <4>1. pc' = pc
        BY <3>2 DEF TickSkips, TickCalls
      <4> QED BY <1>0, <2>1, <4>1 DEF Goto
    <3> QED BY <1>4, <3>1, <3>2
  <2>3. /\ pc' \in [Actors -> Places] /\ pc'["isr"] = at /\ pc'["thread"] = pc["thread"]
    BY <1>0, <2>2, Moves DEF Places, Actors
  <2>4. ClockTypes'
    BY <1>1, <2>1, <2>3 DEF ClockInv, ClockTypes
  <2>5. ReadIsTrue("isr")' /\ ReadIsTrue("thread")'
    BY <1>0, <1>1, <2>1, <2>3, ReadKept DEF ClockInv, ReadsAreTrue, Since
  <2>6. WritesAreTrue'
    BY <1>0, <1>1, <2>1, <2>3 DEF ClockInv, WritesAreTrue, Writing, Mtimecmp, Actors
  <2>7. SleepIsTrue'
    BY <1>1, <2>1, <2>3 DEF ClockInv, SleepIsTrue
  <2> QED BY <2>4, <2>5, <2>6, <2>7 DEF ClockInv, ReadsAreTrue, Actors
<1> QED BY <1>2, <1>3, <1>4

LEMMA ThreadStep ==
  ASSUME ClockInv,
         SysclkInit \/ TimerStarted \/ (\E us \in Sleeps : BusySleep(us))
           \/ SleepFrom \/ SleepOn
  PROVE  ClockInv'
<1>0. /\ pc \in [Actors -> Places] /\ mtime \in 0 .. MaxTime /\ "isr" \in Actors
      /\ "thread" \in Actors /\ DELTA \in Nat \ {0} /\ MaxTime \in Nat
      /\ Word \in Nat /\ Word > 0
      /\ hi \in [Actors -> 0 .. Word - 1] /\ lo \in [Actors -> 0 .. Word - 1]
      /\ target \in [Actors -> 0 .. MaxTime + DELTA]
      /\ begun \in 0 .. MaxTime /\ taken \in Int /\ mtie \in {0, 1}
      /\ offset \in 0 .. MaxTime /\ end_time \in -1 .. Word - 1
      /\ asked \in Sleeps \cup {0}
  BY ClockConstants DEF ClockInv, ClockTypes, Actors
<1>1. UNCHANGED <<mtime, cmp_lo, taken>> /\ pc["isr"] = "off"
  BY DEF SysclkInit, TimerStarted, BusySleep, SleepFrom, SleepOn, timer, Runs
<1>2. PICK at \in {"high", "idle"} : Goto("thread", at)
  BY DEF SysclkInit, TimerStarted, BusySleep, SleepFrom, SleepOn
<1>3. pc' \in [Actors -> Places] /\ pc'["isr"] = "off" /\ pc'["thread"] = at
  BY <1>0, <1>1, <1>2, Moves DEF Places, Actors
<1>4. /\ hi' \in [Actors -> 0 .. Word - 1] /\ lo' \in [Actors -> 0 .. Word - 1]
      /\ target' \in [Actors -> 0 .. MaxTime + DELTA]
  BY <1>0 DEF SysclkInit, TimerStarted, BusySleep, SleepFrom, SleepOn, Forget
<1>5. ReadsAreTrue'
  BY <1>3 DEF ReadsAreTrue, ReadIsTrue, Actors
<1>6. CASE SysclkInit
  <2>1. /\ tick_rate' = 1 /\ at = "high"
        /\ UNCHANGED <<cmp_hi, mtie, offset, end_time, begun, asked>>
    BY <1>0, <1>2, <1>3, <1>6 DEF SysclkInit, timer, sleep, Goto
  <2>2. end_time = -1
    BY <1>6 DEF SysclkInit, Runs, ClockInv, SleepIsTrue
  <2>3. ClockTypes'
    BY <1>1, <1>3, <1>4, <2>1 DEF ClockInv, ClockTypes
  <2>4. WritesAreTrue'
    BY <1>1, <1>3, <2>1 DEF ClockInv, WritesAreTrue, Writing, Mtimecmp, Actors
  <2>5. SleepIsTrue'
    BY <1>1, <1>3, <2>1, <2>2 DEF ClockInv, SleepIsTrue
  <2> QED BY <1>5, <2>3, <2>4, <2>5 DEF ClockInv
<1>7. CASE TimerStarted
  <2>1. /\ pc["thread"] = "set_high" /\ cmp_hi' = High(target["thread"]) /\ mtie' = 1
        /\ UNCHANGED <<tick_rate, offset, end_time, begun, asked>>
    BY <1>7 DEF TimerStarted, Runs, sleep
  <2>2. cmp_hi' \in 0 .. Word - 1 /\ Mtimecmp' = target["thread"]
    BY <1>0, <1>1, <2>1, CmpIsTarget
  <2>3. mtie = 0 /\ taken = -DELTA /\ end_time = -1
    BY <2>1 DEF ClockInv, WritesAreTrue, Writing, SleepIsTrue
  <2>4. Mtimecmp' >= taken' + DELTA
    BY <1>0, <1>1, <2>2, <2>3
  <2>5. ClockTypes'
    BY <1>1, <1>3, <1>4, <2>1, <2>2 DEF ClockInv, ClockTypes
  <2>6. WritesAreTrue'
    BY <1>1, <1>3, <2>1, <2>4 DEF ClockInv, WritesAreTrue, Writing, Actors
  <2>7. SleepIsTrue'
    BY <1>1, <1>3, <2>1, <2>3 DEF ClockInv, SleepIsTrue
  <2> QED BY <1>5, <2>5, <2>6, <2>7 DEF ClockInv
<1>8. ASSUME NEW us \in Sleeps, BusySleep(us) PROVE ClockInv'
  <2>1. /\ pc["thread"] = "idle" /\ mtie = 1 /\ begun' = mtime /\ asked' = us
        /\ UNCHANGED <<cmp_hi, mtie, tick_rate, offset, end_time>>
    BY <1>8 DEF BusySleep, Runs, timer
  <2>2. end_time = -1
    BY <2>1 DEF ClockInv, SleepIsTrue
  <2>3. ClockTypes'
    BY <1>0, <1>1, <1>3, <1>4, <2>1 DEF ClockInv, ClockTypes
  <2>4. WritesAreTrue'
    BY <1>1, <1>3, <2>1 DEF ClockInv, WritesAreTrue, Writing, Mtimecmp, Actors
  <2>5. SleepIsTrue'
    BY <1>0, <1>1, <1>3, <2>1, <2>2 DEF ClockInv, SleepIsTrue
  <2> QED BY <1>5, <2>3, <2>4, <2>5 DEF ClockInv
<1>9. CASE SleepFrom
  <2>1. /\ pc["thread"] = "got" /\ mtie = 1 /\ offset' = Got("thread")
        /\ end_time' = Clocks(asked) /\ at = "high"
        /\ UNCHANGED <<cmp_hi, mtie, tick_rate, begun, asked>>
    BY <1>0, <1>2, <1>3, <1>9 DEF SleepFrom, Runs, timer, Clocks, Goto
  <2>2. Got("thread") \in begun .. mtime /\ Got("thread") \in 0 .. MaxTime
    BY <1>0, <2>1 DEF ClockInv, ReadsAreTrue, ReadIsTrue, Since
  <2>3. Clocks(asked) \in 0 .. Word - 1
    BY <1>0, ClocksInWord
  <2>4. ClockTypes'
    BY <1>0, <1>1, <1>3, <1>4, <2>1, <2>2, <2>3 DEF ClockInv, ClockTypes
  <2>5. WritesAreTrue'
    BY <1>1, <1>3, <2>1 DEF ClockInv, WritesAreTrue, Writing, Mtimecmp, Actors
  <2>6. SleepIsTrue'
    BY <1>0, <1>1, <1>3, <2>1, <2>2, <2>3 DEF ClockInv, SleepIsTrue
  <2> QED BY <1>5, <2>4, <2>5, <2>6 DEF ClockInv
<1>10. CASE SleepOn
  <2>1. /\ mtie = 1 /\ UNCHANGED <<cmp_hi, mtie, tick_rate>>
        /\ \/ at = "high" /\ UNCHANGED <<offset, end_time, begun, asked>>
           \/ offset' = 0 /\ end_time' = -1 /\ begun' = 0 /\ asked' = 0
    <3>1. CASE Got("thread") - offset < end_time
      BY <1>0, <1>2, <1>3, <1>10, <3>1 DEF SleepOn, timer, sleep, Goto
    <3>2. CASE ~(Got("thread") - offset < end_time)
      BY <1>10, <3>2 DEF SleepOn, timer
    <3> QED BY <3>1, <3>2
  <2>2. ClockTypes'
    BY <1>0, <1>1, <1>3, <1>4, <2>1 DEF ClockInv, ClockTypes
  <2>3. WritesAreTrue'
    BY <1>1, <1>3, <2>1 DEF ClockInv, WritesAreTrue, Writing, Mtimecmp, Actors
  <2>4. SleepIsTrue'
    BY <1>0, <1>1, <1>3, <2>1 DEF ClockInv, SleepIsTrue
  <2> QED BY <1>5, <2>2, <2>3, <2>4 DEF ClockInv
<1> QED BY <1>6, <1>7, <1>8, <1>9, <1>10

LEMMA CountStep ==
  ASSUME ClockInv, Count
  PROVE  ClockInv'
<1>1. /\ mtime' = mtime + 1 /\ mtime < MaxTime /\ mtime \in 0 .. MaxTime
      /\ UNCHANGED <<cmp_hi, cmp_lo, mtie, tick_rate, pc, hi, lo, target, offset, end_time,
                      begun, asked, taken>>
      /\ DELTA \in Nat /\ MaxTime \in Nat /\ taken \in Int /\ begun \in Nat
      /\ hi \in [Actors -> 0 .. Word - 1]
  BY ClockConstants DEF Count, sleep, ClockInv, ClockTypes
<1>2. High(mtime) <= High(mtime') /\ High(mtime) \in Nat /\ High(mtime') \in Nat
  BY <1>1, HighGrows, Halves
<1>3. ClockTypes'
  BY <1>1 DEF ClockInv, ClockTypes
<1>4. ASSUME NEW r \in Actors PROVE ReadIsTrue(r)'
  <2>1. Got(r)' = Got(r) /\ Since(r)' = Since(r) /\ Since(r) \in Int
    BY <1>1 DEF Got, Since
  <2>2. ReadIsTrue(r) /\ hi[r] \in Int
    BY <1>1 DEF ClockInv, ReadsAreTrue
  <2>3. pc[r] \in {"low", "again"} => hi[r] <= High(mtime')
    BY <1>2, <2>2 DEF ReadIsTrue
  <2>4. pc[r] = "again" /\ hi[r] = High(mtime') => Got(r) \in Since(r) .. mtime'
    BY <1>1, <1>2, <2>1, <2>2 DEF ReadIsTrue
  <2>5. pc[r] = "got" => Got(r) \in Since(r) .. mtime'
    BY <1>1, <2>1, <2>2 DEF ReadIsTrue
  <2> QED BY <1>1, <2>1, <2>3, <2>4, <2>5 DEF ReadIsTrue
<1>5. WritesAreTrue'
  BY <1>1 DEF ClockInv, WritesAreTrue, Mtimecmp
<1>6. SleepIsTrue'
  BY <1>1 DEF ClockInv, SleepIsTrue
<1> QED BY <1>3, <1>4, <1>5, <1>6 DEF ClockInv, ReadsAreTrue

LEMMA ClockStep == ClockInv /\ [Next]_vars => ClockInv'
<1> SUFFICES ASSUME ClockInv, [Next]_vars PROVE ClockInv'
  OBVIOUS
<1>1. CASE UNCHANGED <<timer, pc, tick_rate, hi, lo, target, sleep, taken>>
  BY <1>1
  DEF timer, sleep, ClockInv, ClockTypes, ReadsAreTrue, ReadIsTrue, WritesAreTrue, SleepIsTrue,
      Since, Got, Mtimecmp
<1>2. ASSUME NEW r \in Actors, Timer(r) PROVE ClockInv'
  BY <1>2, ReadStep, WriteStep DEF Timer
<1>3. ASSUME NEW a \in Alarms, NEW n \in Periods, AlarmStart(a, n) PROVE ClockInv'
  BY <1>1, <1>3 DEF AlarmStart
<1>4. ASSUME NEW a \in Alarms, AlarmStop(a) PROVE ClockInv'
  BY <1>1, <1>4 DEF AlarmStop
<1>5. CASE UNCHANGED vars
  BY <1>1, <1>5 DEF vars
<1> QED
  BY <1>2, <1>3, <1>4, <1>5, IrqStep, ThreadStep, CountStep DEF Next, Isr, Thread, Actors

-----------------------------------------------------------------------------
(* The theorems over all behaviours. *)

LEMMA Invariants == Spec => [](ClockInv /\ ListInv)
<1>1. Init => ClockInv /\ ListInv
  BY ClockInitially, ListInitially
<1>2. ClockInv /\ ListInv /\ [Next]_vars => (ClockInv /\ ListInv)'
  BY ClockStep, ListStep
<1> QED BY <1>1, <1>2, PTL DEF Spec

\* TypeOK is an invariant, for every word, tick and set of alarms: what is read
\* and written in halves stays in a word, and the list of alarms leads nowhere
\* but to alarms and its head.
THEOREM TypeCorrect == Spec => []TypeOK
<1>1. ClockInv /\ ListInv => TypeOK
  BY TypesAre DEF ClockInv
<1> QED BY <1>1, Invariants, PTL

\* ListIsARing is an invariant: whatever the thread starts and stops, and whatever
\* callbacks start and stop while alt_tick walks, alt_llist_insert and
\* alt_llist_remove keep one ring of the head and the alarms started.
THEOREM ListStaysARing == Spec => []ListIsARing
<1>1. ListInv => ListIsARing
  BY RingIsTheRing DEF ListInv
<1> QED BY <1>1, Invariants, PTL

\* NoneOverdue is an invariant: alt_tick passes no alarm that is due, however
\* callbacks change the list under it, and alt_alarm_start never asks for a tick
\* that has been.
THEOREM NothingIsOverdue == Spec => []NoneOverdue
<1>1. ListInv => NoneOverdue
  BY DEF ListInv, NoneOverdue
<1> QED BY <1>1, Invariants, PTL

\* TicksAreApart: at the moment an interrupt is taken, mtimecmp is at least a tick
\* after the last one, though its halves are written one after the other and
\* computed from a clock that is read in halves as well.
THEOREM TicksStayApart == Spec => TicksAreApart
<1>1. ClockInv => (IrqTaken => mtime >= taken + DELTA)
  <2> SUFFICES ASSUME ClockInv, IrqTaken PROVE mtime >= taken + DELTA
    OBVIOUS
  <2>1. /\ mtime \in Int /\ taken \in Int /\ DELTA \in Int
        /\ Mtimecmp \in Int
    <3>1. Word \in Int /\ cmp_hi \in Int /\ cmp_lo \in Int
      BY ClockConstants DEF ClockInv, ClockTypes
    <3> QED BY <3>1, ClockConstants DEF ClockInv, ClockTypes, Mtimecmp
  <2>2. mtime >= Mtimecmp /\ Mtimecmp >= taken + DELTA
    BY DEF IrqTaken, Pending, Mtimecmp, ClockInv, WritesAreTrue
  <2> QED BY <2>1, <2>2
<1> QED BY <1>1, Invariants, PTL DEF TicksAreApart, Spec

\* SleepsLongEnough: a sleep of alt_busy_sleep that fits in a word ends no earlier
\* than the clocks it was asked to wait for, whenever interrupts tear its reads.
THEOREM SleepsAreLongEnough == Spec => SleepsLongEnough
<1>1. ClockInv => (SleepOn /\ pc'["thread"] = "idle" /\ MHZ * asked < Word
                     => mtime >= begun + MHZ * asked)
  <2> SUFFICES ASSUME ClockInv, SleepOn, pc'["thread"] = "idle", MHZ * asked < Word
               PROVE  mtime >= begun + MHZ * asked
    OBVIOUS
  <2>1. /\ pc["thread"] = "got" /\ end_time >= 0 /\ "thread" \in Actors
        /\ pc \in [Actors -> Places]
    BY DEF SleepOn, Runs, ClockInv, ClockTypes, Actors
  <2>2. ~(Got("thread") - offset < end_time)
    BY <2>1 DEF SleepOn, Goto
  <2>3. Got("thread") \in begun .. mtime /\ begun <= offset /\ end_time = MHZ * asked
    BY <2>1, ClocksInWord
    DEF ClockInv, ClockTypes, ReadsAreTrue, ReadIsTrue, Since, SleepIsTrue
  <2>4. begun \in Int /\ mtime \in Int /\ offset \in Int /\ end_time \in Int
    BY DEF ClockInv, ClockTypes
  <2> QED BY <2>2, <2>3, <2>4
<1> QED BY <1>1, Invariants, PTL DEF SleepsLongEnough, Spec

-----------------------------------------------------------------------------
(* The wall clock, over the ticks. *)

LEMMA DivMod ==
  ASSUME NEW m \in Nat \ {0}, NEW q \in Nat, NEW x \in 0 .. m - 1
  PROVE  (q * m + x) % m = x
OBVIOUS

\* Whole seconds and their part make up the time the ticks have taken.
LEMMA TicksMakeTime ==
  ASSUME NEW n \in Nat
  PROVE  /\ n \div RATE \in Nat /\ Part(n) \in 0 .. US - 1
         /\ (n \div RATE) * US + Part(n) = n * (US \div RATE)
<1> DEFINE P == US \div RATE
           q == n \div RATE
           r == n % RATE
<1>1. /\ RATE \in Nat /\ RATE > 0 /\ US \in Nat /\ P \in Nat /\ P > 0 /\ US = RATE * P
  BY TimeConstants
<1>2. q \in Nat /\ r \in 0 .. RATE - 1 /\ n = q * RATE + r
  BY <1>1
<1> HIDE DEF P, q, r
<1>3. r * P \in Nat /\ r * P <= (RATE - 1) * P
  BY <1>1, <1>2
<1>4. (RATE - 1) * P = US - P
  BY <1>1
<1>5. r * P \in 0 .. US - 1 /\ US \in Nat \ {0}
  BY <1>1, <1>3, <1>4
<1>6. n * P = q * US + r * P
  <2>1. n * P = (q * RATE) * P + r * P
    BY <1>1, <1>2
  <2>2. (q * RATE) * P = q * (RATE * P)
    BY <1>1, <1>2
  <2> QED BY <1>1, <2>1, <2>2
<1>7. (n * P) % US = r * P
  BY <1>2, <1>5, <1>6, DivMod
<1>8. Part(n) = (n * P) % US
  BY DEF Part, P
<1> QED BY <1>2, <1>5, <1>6, <1>7, <1>8 DEF P, q

\* What settimeofday sets, gettimeofday returns d ticks later with d periods
\* added: for every time, every moment it is set at, and every d.
LEMMA ClockGoesOn ==
  ASSUME NEW sec \in Nat, NEW usec \in 0 .. US - 1, NEW n \in Nat, NEW d \in Nat
  PROVE  LET t == [sec |-> sec, usec |-> usec]
             later == Gettod(Settod(t, n), n + d)
         IN  /\ later.usec \in 0 .. US - 1
             /\ InMicroseconds(later) = InMicroseconds(t) + d * (US \div RATE)
<1> DEFINE t == [sec |-> sec, usec |-> usec]
           P == US \div RATE
           q == n \div RATE
           s == (n + d) \div RATE
           S == sec - q + s
           u == usec - Part(n) + Part(n + d)
<1>1. US \in Nat /\ US > 0 /\ P \in Nat
  BY TimeConstants
<1>2. /\ q \in Nat /\ Part(n) \in 0 .. US - 1 /\ q * US + Part(n) = n * P
      /\ s \in Nat /\ Part(n + d) \in 0 .. US - 1 /\ s * US + Part(n + d) = (n + d) * P
  BY TicksMakeTime
<1>3. Gettod(Settod(t, n), n + d) = Normal(S, u)
  BY DEF Gettod, Settod
<1> HIDE DEF P, q, s
<1>4. S * US + u = sec * US + usec + d * P
  <2>1. (n + d) * P = n * P + d * P /\ n * P \in Nat /\ d * P \in Nat
    BY <1>1
  <2>2. S * US = sec * US - q * US + s * US /\ q * US \in Nat /\ s * US \in Nat
          /\ sec * US \in Nat
    BY <1>1, <1>2
  <2>3. u = usec - Part(n) + Part(n + d) /\ Part(n) \in Int /\ Part(n + d) \in Int
    BY <1>1, <1>2
  <2> HIDE DEF S, u
  <2>4. S * US + u = sec * US + usec + (s * US + Part(n + d)) - (q * US + Part(n))
    BY <1>1, <2>2, <2>3
  <2>5. (s * US + Part(n + d)) - (q * US + Part(n)) = d * P
    BY <1>2, <2>1
  <2> QED BY <2>1, <2>2, <2>3, <2>4, <2>5
<1>5. S \in Int /\ u \in Int /\ u > -US /\ u < US + US
  BY <1>1, <1>2
<1> HIDE DEF S, u
<1>6. sec * US \in Nat /\ d * P \in Nat /\ S * US \in Int
  BY <1>1, <1>5
<1>7. u < 0 => S > 0
  <2> SUFFICES ASSUME u < 0, S <= 0 PROVE FALSE
    BY <1>5
  <2>1. S * US <= 0
    BY <1>1, <1>5
  <2> QED BY <1>4, <1>5, <1>6, <2>1
<1>8. /\ Normal(S, u).usec \in 0 .. US - 1
      /\ Normal(S, u).sec * US + Normal(S, u).usec = S * US + u
  <2>1. CASE u < 0
    <3>1. Normal(S, u) = [sec |-> S - 1, usec |-> u + US]
      BY <1>5, <1>7, <2>1 DEF Normal
    <3>2. (S - 1) * US = S * US - US
      BY <1>1, <1>5
    <3> QED BY <1>1, <1>5, <1>6, <2>1, <3>1, <3>2
  <2>2. CASE u >= US
    <3>1. Normal(S, u) = [sec |-> S + 1, usec |-> u - US]
      BY <1>1, <1>5, <2>2 DEF Normal
    <3>2. (S + 1) * US = S * US + US
      BY <1>1, <1>5
    <3> QED BY <1>1, <1>5, <1>6, <2>2, <3>1, <3>2
  <2>3. CASE u >= 0 /\ u < US
    <3>1. Normal(S, u) = [sec |-> S, usec |-> u]
      BY <1>1, <1>5, <2>3 DEF Normal
    <3> QED BY <1>1, <1>5, <2>3, <3>1
  <2> QED BY <1>1, <1>5, <2>1, <2>2, <2>3
<1> QED BY <1>3, <1>4, <1>8 DEF InMicroseconds, P

\* WallClockRuns is an invariant: at every count of ticks, the time of day that is
\* set then runs with the ticks that follow, whatever the rate of the clock.
THEOREM WallClockAlwaysRuns == Spec => []WallClockRuns
<1>1. ListInv => WallClockRuns
  <2> SUFFICES ASSUME nticks \in Nat PROVE WallClockRuns
    BY DEF ListInv
  <2>1. 0 .. 1 \subseteq Nat /\ {0, US - 1} \subseteq 0 .. US - 1 /\ {1, RATE} \subseteq Nat
    <3>1. RATE \in Nat /\ US \in Nat /\ US # 0
      BY TimeConstants
    <3> QED BY <3>1
  <2>2. ASSUME NEW sec \in 0 .. 1, NEW usec \in {0, US - 1}, NEW d \in {1, RATE}
        PROVE  LET t == [sec |-> sec, usec |-> usec]
                   later == Gettod(Settod(t, nticks), nticks + d)
               IN  /\ later.usec \in 0 .. US - 1
                   /\ InMicroseconds(later) = InMicroseconds(t) + d * (US \div RATE)
    <3>1. sec \in Nat /\ usec \in 0 .. US - 1 /\ d \in Nat
      BY <2>1
    <3> QED BY <3>1, ClockGoesOn
  <2> QED BY <2>2 DEF WallClockRuns
<1> QED BY <1>1, Invariants, PTL
=============================================================================
