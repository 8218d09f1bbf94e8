----------------------- MODULE FileDescriptorsProofs -----------------------
(***************************************************************************)
(* What holds of the pool for every number of descriptors, every set of    *)
(* devices and file systems, and whatever their drivers refuse.            *)
(***************************************************************************)
EXTENDS FileDescriptors, WellFoundedInduction, TLAPS

Pools == [dev : [Fds -> Nodes \cup {NULL}], flags : [Fds -> SUBSET Flags],
          max : -1 .. ALT_MAX_FD - 1]

\* Both searches see what they look for: what is open, or can be locked, is not
\* above the mark, which is at a descriptor besides the streams if it is at any.
BelowMark(p) ==
  /\ \A i \in Fds : (i > 2 /\ p.dev[i] # NULL) \/ "DEV" \in p.flags[i] => i <= p.max
  /\ p.max = -1 \/ p.max > 2

\* A free descriptor has no flag, and only devices are marked and locked.
Flagged(p) ==
  \A i \in Fds : /\ p.dev[i] = NULL => p.flags[i] = {}
                 /\ "EXCL" \in p.flags[i] => "DEV" \in p.flags[i]
                 /\ "DEV" \in p.flags[i] => p.dev[i] \notin FileSystems

StreamsOpen(p) == \A i \in Streams : p.dev[i] # NULL

PoolInv(p) == p \in Pools /\ BelowMark(p) /\ Flagged(p) /\ StreamsOpen(p)

Lists ==
  /\ phase \in {"sys_init", "stdout", "stdin", "stderr", "main", "exit"}
  /\ alt_dev_list \in Seq(Devices \cup {dev_null}) /\ alt_fs_list \in Seq(FileSystems)

\* Before main only the streams are open, and nothing is locked.
Started(p) ==
  \A i \in Fds : (i > 2 => p.dev[i] = NULL) /\ "EXCL" \notin p.flags[i]

IndInv ==
  Lists /\ PoolInv(pool) /\ (phase \notin {"main", "exit"} => Started(pool))

-----------------------------------------------------------------------------
(* Lemmas about the searches. *)

\* Every set of numbers has a least one.
LEMMA Least ==
  ASSUME NEW S, S \subseteq Nat, S # {}
  PROVE  \E i \in S : \A j \in S : i <= j
<1> DEFINE R == OpToRel(<, Nat)
<1>1. IsWellFoundedOn(R, Nat)  BY NatLessThanWellFounded
<1>2. R = {ss \in Nat \X Nat : ss[1] < ss[2]}  BY DEF OpToRel
<1> HIDE DEF R
<1>3. PICK i \in S : \A j \in S : ~(<<j, i>> \in R)  BY <1>1, WFMin
<1>4. \A j \in S : ~(j < i)  BY <1>2, <1>3
<1> QED  BY <1>4

LEMMA FdsAreNaturals == Fds \subseteq Nat /\ Streams \subseteq Fds
BY PoolConstants DEF Fds, Streams

\* The search for a free descriptor returns one that is free, or the error.
LEMMA FirstFreeIsFree ==
  ASSUME NEW p
  PROVE  FirstFree(p) = -24 \/ (FirstFree(p) \in Fds /\ p.dev[FirstFree(p)] = NULL)
<1> DEFINE free == {i \in Fds : p.dev[i] = NULL}
<1>1. CASE free = {}
  BY <1>1 DEF FirstFree
<1>2. CASE free # {}
  <2>1. free \subseteq Nat  BY FdsAreNaturals
  <2>2. \E i \in free : \A j \in free : i <= j
    <3> HIDE DEF free
    <3> QED  BY <1>2, <2>1, Least
  <2> QED  BY <2>2, <1>2 DEF FirstFree
<1> QED  BY <1>1, <1>2

\* What the search for a name returns is in one of the lists.
LEMMA FoundIsNode ==
  ASSUME Lists, NEW name
  PROVE  Found(name) \in Nodes \cup {NULL}
<1>1. alt_find_dev(name) \in Devices \cup {dev_null, NULL}
  <2> DEFINE at == {i \in DOMAIN alt_dev_list : Name[alt_dev_list[i]] = name}
  <2>1. CASE at = {}  BY <2>1 DEF alt_find_dev, FirstOf
  <2>2. CASE at # {}
    <3>1. at \subseteq Nat  BY DEF Lists
    <3>2. \E i \in at : \A j \in at : i <= j
      <4> HIDE DEF at
      <4> QED  BY <2>2, <3>1, Least
    <3>3. PICK i \in at : alt_find_dev(name) = alt_dev_list[i]
      BY <2>2, <3>2 DEF alt_find_dev, FirstOf
    <3> QED  BY <3>3 DEF Lists
  <2> QED  BY <2>1, <2>2
<1>2. alt_find_file(name) \in FileSystems \cup {NULL}
  <2> DEFINE at == {i \in DOMAIN alt_fs_list : Holds(Name[alt_fs_list[i]], name)}
  <2>1. CASE at = {}  BY <2>1 DEF alt_find_file, FirstOf
  <2>2. CASE at # {}
    <3>1. at \subseteq Nat  BY DEF Lists
    <3>2. \E i \in at : \A j \in at : i <= j
      <4> HIDE DEF at
      <4> QED  BY <2>2, <3>1, Least
    <3>3. PICK i \in at : alt_find_file(name) = alt_fs_list[i]
      BY <2>2, <3>2 DEF alt_find_file, FirstOf
    <3> QED  BY <3>3 DEF Lists
  <2> QED  BY <2>1, <2>2
<1> QED  BY <1>1, <1>2 DEF Found, Nodes

-----------------------------------------------------------------------------
(* Lemmas about the operations on a pool. *)

\* q is p after fd was given out for d, and not locked.
GivenOut(q, p, d, fd) ==
  /\ d \in Nodes /\ fd \in Fds /\ fd > 2 /\ p.dev[fd] = NULL
  /\ q.dev = [p.dev EXCEPT ![fd] = d]
  /\ "EXCL" \notin q.flags[fd]
  /\ \A i \in Fds : i # fd => q.flags[i] = p.flags[i]

\* q is p after old was moved to fd.
MovedTo(q, p, old, fd) ==
  /\ q.dev[old] = NULL /\ q.flags[old] = {}
  /\ q.dev[fd] = p.dev[old] /\ q.flags[fd] = p.flags[old]
  /\ \A i \in Fds : i \notin {fd, old} => q.dev[i] = p.dev[i] /\ q.flags[i] = p.flags[i]

\* A device given out, and the flags of its descriptor.
LEMMA MarkedPool ==
  ASSUME NEW p, PoolInv(p), NEW d \in Nodes, FirstFree(p) \in Fds,
         NEW flags \in SUBSET (Flags \ ALT_FD_FLAGS_MASK)
  PROVE  LET q == Marked(p, d, flags) fd == FirstFree(p)
         IN  /\ PoolInv(q) /\ GivenOut(q, p, d, fd)
             /\ d \notin FileSystems => "DEV" \in q.flags[fd]
             /\ "O_WRONLY" \in q.flags[fd] <=> "O_WRONLY" \in flags
<1> DEFINE fd == FirstFree(p)
           q == Marked(p, d, flags)
           f == (flags \ ALT_FD_FLAGS_MASK) \cup (IF d \in FileSystems THEN {} ELSE {"DEV"})
           max == IF fd > p.max THEN fd ELSE p.max
<1>1. /\ fd \in Fds /\ p.dev[fd] = NULL
  <2> fd # -24  BY FdsAreNaturals
  <2> QED  BY FirstFreeIsFree
<1>2. fd > 2
  <2>1. fd \notin Streams  BY <1>1 DEF PoolInv, StreamsOpen
  <2> HIDE DEF fd
  <2> QED  BY <1>1, <2>1, FdsAreNaturals DEF Streams
<1>3. q = [dev |-> [p.dev EXCEPT ![fd] = d], flags |-> [p.flags EXCEPT ![fd] = f], max |-> max]
  <2>1. alt_get_fd(p, d) = [p EXCEPT !.dev = [p.dev EXCEPT ![fd] = d], !.max = max]
    BY DEF alt_get_fd
  <2>2. alt_get_fd(p, d) = [dev |-> [p.dev EXCEPT ![fd] = d], flags |-> p.flags, max |-> max]
    <3> HIDE DEF fd, max
    <3> QED  BY <2>1 DEF PoolInv, Pools
  <2>3. q = [alt_get_fd(p, d) EXCEPT !.flags[fd] = f]  BY DEF Marked
  <2> HIDE DEF fd, f, max, q
  <2> QED  BY <2>2, <2>3
<1>4. /\ f \in SUBSET Flags /\ "EXCL" \notin f /\ (d \notin FileSystems <=> "DEV" \in f)
      /\ "O_WRONLY" \in f <=> "O_WRONLY" \in flags
  BY DEF ALT_FD_FLAGS_MASK, Flags
<1>5. d # NULL  BY PoolConstants
<1>6. max \in -1 .. ALT_MAX_FD - 1 /\ fd <= max /\ p.max <= max
  <2>1. p.max \in -1 .. ALT_MAX_FD - 1  BY DEF PoolInv, Pools
  <2> HIDE DEF fd
  <2> QED  BY <1>1, <2>1, PoolConstants DEF Fds
<1> HIDE DEF fd, q, f, max
<1>7. q \in Pools
  BY <1>1, <1>3, <1>4, <1>6 DEF PoolInv, Pools
<1>8. BelowMark(q)
  <2>a. q.max = -1 \/ q.max > 2
    <3>1. p.max = -1 \/ p.max > 2  BY DEF PoolInv, BelowMark
    <3>2. max = fd \/ max = p.max  BY DEF max
    <3> QED  BY <1>2, <1>3, <3>1, <3>2
  <2> SUFFICES ASSUME NEW i \in Fds, (i > 2 /\ q.dev[i] # NULL) \/ "DEV" \in q.flags[i]
               PROVE  i <= q.max
    BY <2>a DEF BelowMark
  <2>1. CASE i = fd  BY <2>1, <1>3, <1>6
  <2>2. CASE i # fd
    <3>1. i <= p.max  BY <2>2, <1>1, <1>3 DEF PoolInv, BelowMark, Pools
    <3>2. p.max \in Int  BY DEF PoolInv, Pools
    <3> QED  BY <3>1, <3>2, <1>3, <1>6, FdsAreNaturals
  <2> QED  BY <2>1, <2>2
<1>9. Flagged(q) /\ StreamsOpen(q)
  <2>1. Flagged(q)  BY <1>1, <1>3, <1>4, <1>5 DEF PoolInv, Pools, Flagged
  <2>2. StreamsOpen(q)  BY <1>1, <1>3, <1>5, FdsAreNaturals DEF PoolInv, Pools, StreamsOpen
  <2> QED  BY <2>1, <2>2
<1>10. /\ d \notin FileSystems => "DEV" \in q.flags[fd]
       /\ "O_WRONLY" \in q.flags[fd] <=> "O_WRONLY" \in flags
  BY <1>1, <1>3, <1>4 DEF PoolInv, Pools
<1>11. GivenOut(q, p, d, fd)
  BY <1>1, <1>2, <1>3, <1>4 DEF PoolInv, Pools, GivenOut
<1> QED  BY <1>7, <1>8, <1>9, <1>10, <1>11 DEF PoolInv, q, fd

\* A descriptor given back.
LEMMA ReleasedPool ==
  ASSUME NEW p, PoolInv(p), NEW fd \in Fds \cup {-24}
  PROVE  PoolInv(alt_release_fd(p, fd))
<1> DEFINE q == alt_release_fd(p, fd)
<1>1. CASE ~(fd > 2)  BY <1>1 DEF alt_release_fd
<1>2. CASE fd > 2
  <2>1. fd \in Fds  BY <1>2
  <2>2. q = [dev |-> [p.dev EXCEPT ![fd] = NULL], flags |-> [p.flags EXCEPT ![fd] = {}],
             max |-> p.max]
    BY <1>2 DEF alt_release_fd, PoolInv, Pools
  <2>3. fd \notin Streams  BY <1>2 DEF Streams
  <2> HIDE DEF q
  <2>4. q \in Pools  BY <2>1, <2>2 DEF PoolInv, Pools
  <2>5. BelowMark(q) /\ Flagged(q)
    BY <2>1, <2>2 DEF PoolInv, Pools, BelowMark, Flagged
  <2>6. StreamsOpen(q)
    BY <2>1, <2>2, <2>3, FdsAreNaturals DEF PoolInv, Pools, StreamsOpen
  <2> QED  BY <2>4, <2>5, <2>6 DEF PoolInv, q
<1> QED  BY <1>1, <1>2, FdsAreNaturals

\* A descriptor moved to a stream, as at startup.
LEMMA MovedPool ==
  ASSUME NEW p, PoolInv(p), NEW old \in Fds, old > 2, p.dev[old] # NULL, NEW fd \in Streams
  PROVE  LET q == Moved(p, old, fd)
         IN  /\ PoolInv(q)
             /\ MovedTo(q, p, old, fd)
<1> DEFINE r == [p EXCEPT !.dev[fd] = p.dev[old], !.flags[fd] = p.flags[old]]
<1>1. r = [dev |-> [p.dev EXCEPT ![fd] = p.dev[old]],
           flags |-> [p.flags EXCEPT ![fd] = p.flags[old]], max |-> p.max]
  <2>1. r = [p EXCEPT !.dev = [p.dev EXCEPT ![fd] = p.dev[old]],
                      !.flags = [p.flags EXCEPT ![fd] = p.flags[old]]]
    BY Zenon DEF r
  <2> HIDE DEF r
  <2> QED  BY <2>1 DEF PoolInv, Pools
<1>2. fd \in Fds /\ fd \in 0 .. 2  BY FdsAreNaturals DEF Streams
<1>3. Moved(p, old, fd) = alt_release_fd(r, old)  BY DEF Moved
<1> HIDE DEF r
<1>4. r \in Pools  BY <1>1, <1>2 DEF PoolInv, Pools
<1>5. BelowMark(r)
  <2>1. old <= p.max /\ p.max \in Int  BY DEF PoolInv, BelowMark, Pools
  <2>2. fd <= p.max  BY <1>2, <2>1, FdsAreNaturals
  <2> QED  BY <1>1, <1>2, <2>2 DEF PoolInv, BelowMark, Pools
<1>6. Flagged(r)  BY <1>1, <1>2 DEF PoolInv, Pools, Flagged
<1>7. StreamsOpen(r)  BY <1>1, <1>2, FdsAreNaturals DEF PoolInv, Pools, StreamsOpen
<1>8. PoolInv(alt_release_fd(r, old))
  BY <1>4, <1>5, <1>6, <1>7, ReleasedPool DEF PoolInv
<1>9. alt_release_fd(r, old) =
        [dev |-> [r.dev EXCEPT ![old] = NULL], flags |-> [r.flags EXCEPT ![old] = {}],
         max |-> r.max]
  BY <1>4 DEF alt_release_fd, Pools
<1>10. fd # old  BY <1>2, FdsAreNaturals
<1> QED  BY <1>1, <1>2, <1>3, <1>8, <1>9, <1>10 DEF PoolInv, Pools, MovedTo

\* What open leaves behind, and what a successful one has found out.
LEMMA OpenPools ==
  ASSUME Lists, PoolInv(pool), NEW name, NEW flags \in SUBSET (Flags \ ALT_FD_FLAGS_MASK)
  PROVE  /\ \A q \in Failures(name, flags) :
              PoolInv(q) /\ q.dev = pool.dev /\ q.flags = pool.flags
         /\ \A q \in Successes(name, flags) :
              LET d == Found(name) fd == FirstFree(pool)
              IN  /\ PoolInv(q) /\ GivenOut(q, pool, d, fd)
                  /\ d \notin FileSystems => ~alt_file_locked(q, fd)
                  /\ "O_WRONLY" \in q.flags[fd] <=> "O_WRONLY" \in flags
<1> DEFINE d == Found(name)
           fd == FirstFree(pool)
           p == Marked(pool, d, flags)
<1>1. d \in Nodes \cup {NULL}  BY FoundIsNode
<1>2. fd = -24 \/ (fd \in Fds /\ pool.dev[fd] = NULL)  BY FirstFreeIsFree
<1>3. fd < 0 <=> fd = -24
  <2>1. \A n \in Fds : ~(n < 0)  BY FdsAreNaturals
  <2> HIDE DEF fd
  <2>2. CASE fd = -24  BY <2>2
  <2>3. CASE fd \in Fds  BY <2>1, <2>3
  <2> QED  BY <1>2, <2>2, <2>3
<1>4. CASE d = NULL \/ fd < 0
  <2> DEFINE q == alt_release_fd(pool, fd)
  <2>1. Failures(name, flags) = {q} /\ Successes(name, flags) = {}
    BY <1>4 DEF Failures, Successes
  <2>2. PoolInv(q)  BY <1>2, ReleasedPool
  <2>3. q.dev = pool.dev /\ q.flags = pool.flags
    <3> HIDE DEF fd
    <3>1. CASE fd > 2
      <4>1. fd \in Fds /\ pool.dev[fd] = NULL /\ pool.flags[fd] = {}
        BY <1>2, <3>1 DEF PoolInv, Flagged
      <4> QED  BY <3>1, <4>1 DEF alt_release_fd, PoolInv, Pools
    <3>2. CASE ~(fd > 2)  BY <3>2 DEF alt_release_fd
    <3> QED  BY <3>1, <3>2
  <2> QED  BY <2>1, <2>2, <2>3
<1>5. CASE d # NULL /\ ~(fd < 0)
  <2>1. d \in Nodes /\ fd \in Fds /\ pool.dev[fd] = NULL  BY <1>1, <1>2, <1>3, <1>5
  <2>2. /\ PoolInv(p) /\ GivenOut(p, pool, d, fd)
        /\ "O_WRONLY" \in p.flags[fd] <=> "O_WRONLY" \in flags
    BY <2>1, MarkedPool
  <2> DEFINE r == alt_release_fd(p, fd)
  <2>3. /\ Failures(name, flags) \subseteq {r}
        /\ \A q \in Successes(name, flags) :
             q = p /\ (d \notin FileSystems => ~alt_file_locked(p, fd))
    <3> HIDE DEF d, fd, p, r
    <3> QED  BY <1>5 DEF Failures, Successes, d, fd, p, r
  <2>4. PoolInv(r)  BY <2>1, <2>2, ReleasedPool
  <2>5. r.dev = pool.dev /\ r.flags = pool.flags
    <3> HIDE DEF p, fd, d
    <3>1. pool.flags[fd] = {}  BY <2>1 DEF PoolInv, Flagged
    <3>2. /\ r.dev = [p.dev EXCEPT ![fd] = NULL]
          /\ r.flags = [p.flags EXCEPT ![fd] = {}]
      BY <2>2 DEF alt_release_fd, PoolInv, Pools, GivenOut
    <3> QED  BY <2>1, <2>2, <3>1, <3>2 DEF PoolInv, Pools, GivenOut
  <2> HIDE DEF p, r
  <2> QED  BY <2>1, <2>2, <2>3, <2>4, <2>5
<1> QED  BY <1>4, <1>5

\* A call to open that fails, at whatever point.
LEMMA FailedOpen ==
  ASSUME Lists, PoolInv(pool), NEW name, NEW flags \in SUBSET (Flags \ ALT_FD_FLAGS_MASK),
         NEW q \in Failures(name, flags)
  PROVE  PoolInv(q) /\ q.dev = pool.dev /\ q.flags = pool.flags
<1>1. \A r \in Failures(name, flags) :
        PoolInv(r) /\ r.dev = pool.dev /\ r.flags = pool.flags
  BY OpenPools
<1> QED  BY <1>1

\* One that succeeds.
LEMMA SuccessfulOpen ==
  ASSUME Lists, PoolInv(pool), NEW name, NEW flags \in SUBSET (Flags \ ALT_FD_FLAGS_MASK),
         NEW q \in Successes(name, flags)
  PROVE  LET d == Found(name) fd == FirstFree(pool)
         IN  /\ PoolInv(q) /\ GivenOut(q, pool, d, fd)
             /\ d \notin FileSystems => ~alt_file_locked(q, fd)
             /\ "O_WRONLY" \in q.flags[fd] <=> "O_WRONLY" \in flags
BY OpenPools

-----------------------------------------------------------------------------
(* The invariant. *)

LEMMA InitIndInv == Init => IndInv
<1> SUFFICES ASSUME Init PROVE IndInv  OBVIOUS
<1> USE PoolConstants DEF Init
<1>1. Lists  BY DEF Lists
<1>2. pool \in Pools  BY DEF Pools, Fds, Streams, Nodes, Flags
<1>3. dev_null # NULL  BY DEF Nodes
<1>4. BelowMark(pool) /\ Flagged(pool) /\ StreamsOpen(pool) /\ Started(pool)
  BY <1>3, FdsAreNaturals DEF BelowMark, Flagged, StreamsOpen, Started, Fds, Streams
<1> QED  BY <1>1, <1>2, <1>4 DEF IndInv, PoolInv

LEMMA ListsStep == Lists /\ [Next]_vars => Lists'
<1> SUFFICES ASSUME Lists, [Next]_vars PROVE Lists'  OBVIOUS
<1> USE DEF Lists, lists
<1>1. ASSUME NEW d \in Devices, alt_dev_reg(d) PROVE Lists'
  BY <1>1 DEF alt_dev_reg
<1>2. ASSUME NEW d \in FileSystems, alt_fs_reg(d) PROVE Lists'
  BY <1>2 DEF alt_fs_reg
<1>3. CASE SysInitDone  BY <1>3 DEF SysInitDone
<1>4. CASE alt_io_redirect  BY <1>4 DEF alt_io_redirect
<1>5. ASSUME NEW name, NEW flags, Open(name, flags) PROVE Lists'
  BY <1>5 DEF Open
<1>6. ASSUME NEW fd \in Fds, Close(fd) \/ alt_fd_lock(fd) \/ alt_fd_unlock(fd) PROVE Lists'
  BY <1>6 DEF Close, alt_fd_lock, alt_fd_unlock, On
<1>7. ASSUME NEW fd \in Fds, NEW flags, SetFlags(fd, flags) PROVE Lists'
  BY <1>7 DEF SetFlags, On
<1>8. CASE MainReturns  BY <1>8 DEF MainReturns
<1>9. CASE UNCHANGED vars  BY <1>9 DEF vars
<1> QED  BY <1>1, <1>2, <1>3, <1>4, <1>5, <1>6, <1>7, <1>8, <1>9 DEF Next

\* Changing flags that are neither of the private ones, or the lock of a device.
LEMMA FlagsPool ==
  ASSUME NEW p, PoolInv(p), NEW fd \in Fds, p.dev[fd] # NULL, NEW f \in SUBSET Flags,
         "DEV" \in f <=> "DEV" \in p.flags[fd], "EXCL" \in f => "DEV" \in f
  PROVE  LET q == [p EXCEPT !.flags[fd] = f]
         IN  PoolInv(q) /\ q.dev = p.dev /\ q.flags = [p.flags EXCEPT ![fd] = f] /\ q.max = p.max
<1> DEFINE q == [p EXCEPT !.flags[fd] = f]
<1>1. q = [dev |-> p.dev, flags |-> [p.flags EXCEPT ![fd] = f], max |-> p.max]
  BY DEF PoolInv, Pools
<1> HIDE DEF q
<1>2. q \in Pools  BY <1>1 DEF PoolInv, Pools
<1>3. BelowMark(q)  BY <1>1 DEF PoolInv, Pools, BelowMark
<1>4. Flagged(q) /\ StreamsOpen(q)
  BY <1>1, FdsAreNaturals DEF PoolInv, Pools, Flagged, StreamsOpen
<1> QED  BY <1>1, <1>2, <1>3, <1>4 DEF PoolInv, q

\* What each action does to the pool, as far as the properties need it.
LEMMA RedirectStep ==
  ASSUME Lists, PoolInv(pool), Started(pool), alt_io_redirect
  PROVE  PoolInv(pool') /\ Started(pool')
<1>1. PICK fd, name, flags :
        fd \in Streams /\ flags \in {{"O_WRONLY"}, {}} /\ alt_open_fd(fd, name, flags)
  <2>1. 0 \in Streams /\ 1 \in Streams /\ 2 \in Streams  BY DEF Streams
  <2> QED  BY <2>1 DEF alt_io_redirect
<1>a. fd \in Streams  BY <1>1
<1>2. flags \in SUBSET (Flags \ ALT_FD_FLAGS_MASK)  BY <1>1 DEF Flags, ALT_FD_FLAGS_MASK
<1>3. CASE pool' \in Failures(name, flags)
  <2>1. PoolInv(pool') /\ pool'.dev = pool.dev /\ pool'.flags = pool.flags
    BY <1>2, <1>3, FailedOpen
  <2> QED  BY <2>1 DEF Started
<1>4. CASE pool' \in {Moved(p, FirstFree(pool), fd) : p \in Successes(name, flags)}
  <2> DEFINE old == FirstFree(pool)
             d == Found(name)
  <2>1. PICK p \in Successes(name, flags) : pool' = Moved(p, old, fd)  BY <1>4
  <2>2. PoolInv(p) /\ GivenOut(p, pool, d, old)
    BY <1>2, SuccessfulOpen
  <2> HIDE DEF old, d
  <2>3. old \in Fds /\ old > 2 /\ p.dev[old] # NULL
    BY <2>2, PoolConstants DEF PoolInv, Pools, GivenOut
  <2>5. PoolInv(pool') /\ MovedTo(pool', p, old, fd)
    BY <1>a, <2>1, <2>2, <2>3, MovedPool
  <2>6. fd \in Fds /\ ~(fd > 2)  BY <1>a, FdsAreNaturals DEF Streams
  <2>7. ASSUME NEW i \in Fds
        PROVE  (i > 2 => pool'.dev[i] = NULL) /\ "EXCL" \notin pool'.flags[i]
    BY <2>2, <2>3, <2>5, <2>6 DEF PoolInv, Pools, Started, GivenOut, MovedTo
  <2> QED  BY <2>5, <2>7 DEF Started
<1> QED  BY <1>1, <1>3, <1>4 DEF alt_open_fd

\* How a stream s comes out that name is opened for, with these flags.
Opened(p, s, name, flags) ==
  LET d == Found(name)
  IN  \/ p.dev[s] = d /\ ("O_WRONLY" \in p.flags[s] <=> "O_WRONLY" \in flags)
      \/ p.dev[s] = dev_null /\ (d = NULL \/ d \in Openers)

\* A call to open that fails at startup fails for the want of a device, or its
\* driver refuses: there is a free descriptor, and nothing is locked.
LEMMA FailedAtStartup ==
  ASSUME Lists, PoolInv(pool), Started(pool), NEW name,
         NEW flags \in SUBSET (Flags \ ALT_FD_FLAGS_MASK), Failures(name, flags) # {}
  PROVE  Found(name) = NULL \/ Found(name) \in Openers
<1> DEFINE d == Found(name)
           fd == FirstFree(pool)
           p == Marked(pool, d, flags)
<1>1. fd \in Fds
  <2>1. 3 \in {i \in Fds : pool.dev[i] = NULL}
    <3>1. 3 \in Fds  BY PoolConstants DEF Fds
    <3> QED  BY <3>1 DEF Started
  <2>2. {i \in Fds : pool.dev[i] = NULL} \subseteq Nat  BY FdsAreNaturals
  <2>3. \E i \in {j \in Fds : pool.dev[j] = NULL} :
          \A j \in {k \in Fds : pool.dev[k] = NULL} : i <= j
    BY <2>1, <2>2, Least
  <2> QED  BY <2>1, <2>3 DEF FirstFree
<1>2. ~(fd < 0)
  <2> HIDE DEF fd
  <2> QED  BY <1>1, FdsAreNaturals
<1>3. SUFFICES ASSUME d # NULL PROVE d \in Openers  OBVIOUS
<1>4. d \in Nodes  BY <1>3, FoundIsNode
<1>5. GivenOut(p, pool, d, fd)  BY <1>1, <1>4, MarkedPool
<1>6. ~alt_file_locked(p, fd)
  <2> HIDE DEF p, fd, d
  <2> QED  BY <1>5 DEF alt_file_locked, GivenOut, Started
<1> HIDE DEF p, fd
<1> QED  BY <1>2, <1>3, <1>6 DEF Failures, p, fd

\* A stream redirected, and the others.
LEMMA OpenedStream ==
  ASSUME Lists, PoolInv(pool), Started(pool), NEW s \in Streams, NEW name,
         NEW flags \in SUBSET (Flags \ ALT_FD_FLAGS_MASK),
         alt_open_fd(s, name, flags), pool.dev[s] = dev_null
  PROVE  /\ Opened(pool', s, name, flags)
         /\ \A i \in Streams \ {s} : pool'.dev[i] = pool.dev[i] /\ pool'.flags[i] = pool.flags[i]
<1>1. CASE pool' \in Failures(name, flags)
  <2>1. pool'.dev = pool.dev /\ pool'.flags = pool.flags  BY <1>1, FailedOpen
  <2>2. Found(name) = NULL \/ Found(name) \in Openers  BY <1>1, FailedAtStartup
  <2> QED  BY <2>1, <2>2 DEF Opened
<1>2. CASE pool' \in {Moved(p, FirstFree(pool), s) : p \in Successes(name, flags)}
  <2> DEFINE old == FirstFree(pool)
             d == Found(name)
  <2>1. PICK p \in Successes(name, flags) : pool' = Moved(p, old, s)  BY <1>2
  <2>2. /\ PoolInv(p) /\ GivenOut(p, pool, d, old)
        /\ "O_WRONLY" \in p.flags[old] <=> "O_WRONLY" \in flags
    BY SuccessfulOpen
  <2> HIDE DEF old, d
  <2>3. /\ old \in Fds /\ old > 2 /\ p.dev[old] = d /\ p.dev[old] # NULL
        /\ \A i \in Fds : i # old => p.dev[i] = pool.dev[i] /\ p.flags[i] = pool.flags[i]
    BY <2>2, PoolConstants DEF PoolInv, Pools, GivenOut
  <2>4. MovedTo(pool', p, old, s)  BY <2>1, <2>2, <2>3, MovedPool
  <2>5. \A i \in Streams : i \in Fds /\ i # old  BY <2>3, FdsAreNaturals DEF Streams
  <2>6. pool'.dev[s] = d /\ pool'.flags[s] = p.flags[old]
    BY <2>3, <2>4 DEF MovedTo
  <2>7. \A i \in Streams \ {s} : pool'.dev[i] = pool.dev[i] /\ pool'.flags[i] = pool.flags[i]
    BY <2>3, <2>4, <2>5 DEF MovedTo
  <2> QED  BY <2>2, <2>6, <2>7 DEF Opened, d
<1> QED  BY <1>1, <1>2 DEF alt_open_fd

LEMMA UserFlagsType ==
  ASSUME NEW flags \in UserFlags
  PROVE  flags \in SUBSET (Flags \ ALT_FD_FLAGS_MASK)
BY PoolConstants DEF Flags, ALT_FD_FLAGS_MASK

LEMMA LockedPool ==
  ASSUME PoolInv(pool), NEW fd \in Fds, alt_fd_lock(fd)
  PROVE  /\ PoolInv(pool') /\ pool'.dev = pool.dev
         /\ pool'.flags = [pool.flags EXCEPT ![fd] = @ \cup {"EXCL"}]
<1>1. pool.dev[fd] # NULL /\ "DEV" \in pool.flags[fd]  BY DEF alt_fd_lock, On
<1>2. pool.flags[fd] \cup {"EXCL"} \in SUBSET Flags  BY DEF PoolInv, Pools, Flags
<1> QED  BY <1>1, <1>2, FlagsPool DEF alt_fd_lock

LEMMA UnlockedPool ==
  ASSUME PoolInv(pool), NEW fd \in Fds, alt_fd_unlock(fd)
  PROVE  /\ PoolInv(pool') /\ pool'.dev = pool.dev
         /\ pool'.flags = [pool.flags EXCEPT ![fd] = @ \ {"EXCL"}]
<1>1. pool.dev[fd] # NULL /\ "DEV" \in pool.flags[fd]  BY DEF alt_fd_unlock, On
<1>2. pool.flags[fd] \ {"EXCL"} \in SUBSET Flags  BY DEF PoolInv, Pools
<1> QED  BY <1>1, <1>2, FlagsPool DEF alt_fd_unlock

LEMMA SetPool ==
  ASSUME PoolInv(pool), NEW fd \in Fds, NEW flags \in UserFlags, SetFlags(fd, flags)
  PROVE  /\ PoolInv(pool') /\ pool'.dev = pool.dev
         /\ pool'.flags = [pool.flags EXCEPT ![fd] =
               (@ \ ALT_FCNTL_FLAGS_MASK) \cup (flags \cap ALT_FCNTL_FLAGS_MASK)]
<1> DEFINE f == (pool.flags[fd] \ ALT_FCNTL_FLAGS_MASK) \cup (flags \cap ALT_FCNTL_FLAGS_MASK)
<1>1. pool.dev[fd] # NULL  BY DEF SetFlags, On
<1>2. f \in SUBSET Flags  BY DEF PoolInv, Pools, ALT_FCNTL_FLAGS_MASK, Flags
<1>3. /\ "DEV" \in f <=> "DEV" \in pool.flags[fd]
      /\ "EXCL" \in f <=> "EXCL" \in pool.flags[fd]
  BY DEF ALT_FCNTL_FLAGS_MASK
<1>4. "EXCL" \in f => "DEV" \in f  BY <1>3 DEF PoolInv, Flagged
<1>5. pool' = [pool EXCEPT !.flags[fd] = f]  BY DEF SetFlags
<1> HIDE DEF f
<1>6. /\ PoolInv(pool') /\ pool'.dev = pool.dev /\ pool'.flags = [pool.flags EXCEPT ![fd] = f]
  BY <1>1, <1>2, <1>3, <1>4, <1>5, FlagsPool
<1> QED  BY <1>6 DEF f

\* fcntl neither locks nor unlocks.
LEMMA SetKeepsLocks ==
  ASSUME PoolInv(pool), NEW i \in Fds, NEW flags \in UserFlags, SetFlags(i, flags),
         NEW fd \in Fds
  PROVE  "EXCL" \in pool'.flags[fd] <=> "EXCL" \in pool.flags[fd]
<1> DEFINE f == (pool.flags[i] \ ALT_FCNTL_FLAGS_MASK) \cup (flags \cap ALT_FCNTL_FLAGS_MASK)
<1>1. pool'.flags = [pool.flags EXCEPT ![i] = f]  BY SetPool
<1>2. "EXCL" \in f <=> "EXCL" \in pool.flags[i]  BY DEF ALT_FCNTL_FLAGS_MASK
<1> HIDE DEF f
<1> QED  BY <1>1, <1>2 DEF PoolInv, Pools

LEMMA PoolStep == IndInv /\ [Next]_vars => PoolInv(pool)'
<1> SUFFICES ASSUME IndInv, [Next]_vars PROVE PoolInv(pool')  OBVIOUS
<1> USE DEF IndInv
<1>1. CASE UNCHANGED pool  BY <1>1
<1>2. CASE alt_io_redirect
  <2>1. Started(pool)  BY <1>2 DEF alt_io_redirect
  <2> QED  BY <1>2, <2>1, RedirectStep
<1>3. ASSUME NEW name, NEW flags \in UserFlags, Open(name, flags) PROVE PoolInv(pool')
  BY <1>3, UserFlagsType, FailedOpen, SuccessfulOpen DEF Open
<1>4. ASSUME NEW fd \in Fds, Close(fd) PROVE PoolInv(pool')
  BY <1>4, ReleasedPool DEF Close
<1>5. ASSUME NEW fd \in Fds, alt_fd_lock(fd) \/ alt_fd_unlock(fd) PROVE PoolInv(pool')
  BY <1>5, LockedPool, UnlockedPool
<1>6. ASSUME NEW fd \in Fds, NEW flags \in UserFlags, SetFlags(fd, flags) PROVE PoolInv(pool')
  BY <1>6, SetPool
<1>7. CASE MainReturns
  <2>1. 1 \in Fds  BY PoolConstants DEF Fds
  <2> QED  BY <1>7, <2>1, ReleasedPool DEF MainReturns
<1> QED  BY <1>1, <1>2, <1>3, <1>4, <1>5, <1>6, <1>7
           DEF Next, vars, alt_dev_reg, alt_fs_reg, SysInitDone

LEMMA NextIndInv == IndInv /\ [Next]_vars => IndInv'
<1> SUFFICES ASSUME IndInv, [Next]_vars PROVE IndInv'  OBVIOUS
<1>1. Lists'  BY ListsStep DEF IndInv
<1>2. PoolInv(pool)'  BY PoolStep
<1>3. ASSUME phase' \notin {"main", "exit"} PROVE Started(pool)'
  <2>1. CASE alt_io_redirect
    <3>1. Started(pool)  BY <2>1 DEF IndInv, alt_io_redirect
    <3> QED  BY <2>1, <3>1, RedirectStep DEF IndInv
  <2>2. CASE UNCHANGED pool /\ (phase' = phase \/ SysInitDone)
    BY <1>3, <2>2 DEF IndInv, Started, SysInitDone
  <2> QED
    BY <1>3, <2>1, <2>2 DEF Next, vars, lists, alt_dev_reg, alt_fs_reg, SysInitDone, Open,
       Close, alt_fd_lock, alt_fd_unlock, SetFlags, On, MainReturns
<1> QED  BY <1>1, <1>2, <1>3 DEF IndInv

LEMMA Invariant == Spec => []IndInv
BY InitIndInv, NextIndInv, PTL DEF Spec

-----------------------------------------------------------------------------
(* Theorems. *)

\* The lists, the pool and its mark keep their types. [alt_dev.c, alt_get_fd]
THEOREM TypeCorrect == Spec => []TypeOK
<1>1. IndInv => TypeOK  BY DEF IndInv, Lists, PoolInv, Pools, TypeOK
<1> QED  BY <1>1, Invariant, PTL

\* Every descriptor that is open is seen by the searches of the pool.
\* [alt_max_fd; alt_get_fd, alt_file_locked]
THEOREM OpenIsBelowMark == Spec => []PoolBelowMark
<1>1. IndInv => PoolBelowMark
  BY FdsAreNaturals DEF IndInv, PoolInv, BelowMark, PoolBelowMark, Streams, Fds
<1> QED  BY <1>1, Invariant, PTL

\* The standard streams can be used at any time. [alt_release_fd, alt_io_redirect]
THEOREM StreamsAlwaysOpen == Spec => []StreamsStayOpen
<1>1. IndInv => StreamsStayOpen  BY DEF IndInv, PoolInv, StreamsOpen, StreamsStayOpen
<1> QED  BY <1>1, Invariant, PTL

\* What is free has no flags, and startup leaves only the streams open.
\* [alt_release_fd, alt_open_fd]
THEOREM PoolAlwaysClean == Spec => []PoolIsClean
<1>1. IndInv => PoolIsClean
  BY FdsAreNaturals DEF IndInv, PoolInv, Flagged, Started, PoolIsClean, Streams, Fds
<1> QED  BY <1>1, Invariant, PTL

\* A call to open that fails leaves every descriptor as it was. [open]
THEOREM FailuresLeaveNothing == Spec => []FailedOpenLeavesNothing
<1>1. ASSUME IndInv, NEW name \in Paths, NEW flags \in UserFlags, NEW p \in Failures(name, flags)
      PROVE  p.dev = pool.dev /\ p.flags = pool.flags
  BY <1>1, UserFlagsType, FailedOpen DEF IndInv
<1>2. IndInv => FailedOpenLeavesNothing  BY <1>1 DEF FailedOpenLeavesNothing
<1> QED  BY <1>2, Invariant, PTL

\* What has been redirected when alt_main is at a phase, and what has not.
StreamInv ==
  /\ phase \in {"sys_init", "stdout"} => pool.dev[1] = dev_null
  /\ phase \in {"stdin", "stderr"} => Opened(pool, 1, ALT_STDOUT, {"O_WRONLY"})
  /\ phase \in {"sys_init", "stdout", "stdin"} => pool.dev[0] = dev_null
  /\ phase = "stderr" => Opened(pool, 0, ALT_STDIN, {})
  /\ phase \notin {"main", "exit"} => pool.dev[2] = dev_null

AllOpened(p) ==
  /\ Opened(p, 0, ALT_STDIN, {})
  /\ Opened(p, 1, ALT_STDOUT, {"O_WRONLY"})
  /\ Opened(p, 2, ALT_STDERR, {"O_WRONLY"})

\* The three calls of alt_io_redirect; the last makes main start.
LEMMA StreamsStep ==
  ASSUME IndInv, StreamInv, [Next]_vars
  PROVE  /\ StreamInv'
         /\ phase # "main" /\ phase' = "main" => AllOpened(pool')
<1> USE DEF IndInv
<1>1. CASE alt_io_redirect
  <2>1. /\ UNCHANGED lists /\ phase \notin {"main", "exit"}
        /\ Lists /\ PoolInv(pool) /\ Started(pool)
    BY <1>1 DEF alt_io_redirect
  <2>2. \A name : Found(name)' = Found(name)
    BY <2>1 DEF Found, alt_find_dev, alt_find_file, lists
  <2>3. /\ 0 \in Streams /\ 1 \in Streams /\ 2 \in Streams
        /\ {} \in SUBSET (Flags \ ALT_FD_FLAGS_MASK)
        /\ {"O_WRONLY"} \in SUBSET (Flags \ ALT_FD_FLAGS_MASK)
    BY DEF Streams, Flags, ALT_FD_FLAGS_MASK
  <2>4. ASSUME NEW s, NEW name, NEW flags, Opened(pool', s, name, flags)
        PROVE  Opened(pool, s, name, flags)'
    BY <2>2, <2>4 DEF Opened
  <2>5. ASSUME NEW s, NEW name, NEW flags, Opened(pool, s, name, flags),
               pool'.dev[s] = pool.dev[s], pool'.flags[s] = pool.flags[s]
        PROVE  Opened(pool', s, name, flags)
    BY <2>5 DEF Opened
  <2>6. CASE phase = "stdout" /\ phase' = "stdin" /\ alt_open_fd(1, ALT_STDOUT, {"O_WRONLY"})
    <3>1. /\ Opened(pool', 1, ALT_STDOUT, {"O_WRONLY"})
          /\ pool'.dev[0] = pool.dev[0] /\ pool'.dev[2] = pool.dev[2]
      BY <2>1, <2>3, <2>6, OpenedStream DEF StreamInv
    <3> QED  BY <2>4, <2>6, <3>1 DEF StreamInv
  <2>7. CASE phase = "stdin" /\ phase' = "stderr" /\ alt_open_fd(0, ALT_STDIN, {})
    <3>1. /\ Opened(pool', 0, ALT_STDIN, {})
          /\ pool'.dev[1] = pool.dev[1] /\ pool'.flags[1] = pool.flags[1]
          /\ pool'.dev[2] = pool.dev[2]
      BY <2>1, <2>3, <2>7, OpenedStream DEF StreamInv
    <3>2. Opened(pool', 1, ALT_STDOUT, {"O_WRONLY"})
      BY <2>5, <2>7, <3>1 DEF StreamInv
    <3> QED  BY <2>4, <2>7, <3>1, <3>2 DEF StreamInv
  <2>8. CASE phase = "stderr" /\ phase' = "main" /\ alt_open_fd(2, ALT_STDERR, {"O_WRONLY"})
    <3>1. /\ Opened(pool', 2, ALT_STDERR, {"O_WRONLY"})
          /\ \A i \in {0, 1} : pool'.dev[i] = pool.dev[i] /\ pool'.flags[i] = pool.flags[i]
      BY <2>1, <2>3, <2>8, OpenedStream DEF StreamInv
    <3>2. AllOpened(pool')
      BY <2>5, <2>8, <3>1 DEF StreamInv, AllOpened
    <3> QED  BY <2>8, <3>2 DEF StreamInv
  <2> QED  BY <1>1, <2>6, <2>7, <2>8 DEF alt_io_redirect
<1>2. CASE phase = "sys_init" /\ phase' \in {"sys_init", "stdout"} /\ UNCHANGED pool
  BY <1>2 DEF StreamInv
<1>3. CASE phase = "main" /\ phase' \in {"main", "exit"}
  BY <1>3 DEF StreamInv
<1>4. CASE UNCHANGED vars
  <2>1. \A name : Found(name)' = Found(name)
    BY <1>4 DEF Found, alt_find_dev, alt_find_file, vars, lists
  <2>2. \A s, name, flags : Opened(pool, s, name, flags)' = Opened(pool, s, name, flags)
    BY <1>4, <2>1 DEF Opened, vars
  <2> QED  BY <1>4, <2>2 DEF StreamInv, vars
<1> QED
  BY <1>1, <1>2, <1>3, <1>4
  DEF Next, alt_dev_reg, alt_fs_reg, SysInitDone, Open, Close, alt_fd_lock, alt_fd_unlock,
      SetFlags, On, MainReturns, lists

\* When main starts each stream refers to the device system.h names and can be used
\* in its direction, or is still the null device for a reason.
\* [alt_io_redirect, alt_open_fd]
THEOREM StreamsAreRedirected == Spec => StreamsRedirected
<1> DEFINE Start == phase # "main" /\ phase' = "main" => AllOpened(pool')
<1>1. Init => StreamInv
  BY FdsAreNaturals DEF Init, StreamInv, Streams
<1>2. IndInv /\ StreamInv /\ [Next]_vars => StreamInv' /\ Start
  BY StreamsStep
<1>3. ASSUME AllOpened(pool')
      PROVE  \A s \in {<<0, ALT_STDIN>>, <<1, ALT_STDOUT>>, <<2, ALT_STDERR>>} :
               LET d == Found(s[2])
               IN  \/ /\ pool'.dev[s[1]] = d
                      /\ IF s[1] = 0 THEN MayRead(pool', 0) ELSE MayWrite(pool', s[1])
                   \/ pool'.dev[s[1]] = dev_null /\ (d = NULL \/ d \in Openers)
  BY <1>3 DEF AllOpened, Opened, MayRead, MayWrite
<1>4. IndInv /\ StreamInv /\ [Next]_vars =>
        [phase # "main" /\ phase' = "main" =>
           \A s \in {<<0, ALT_STDIN>>, <<1, ALT_STDOUT>>, <<2, ALT_STDERR>>} :
             LET d == Found(s[2])
             IN  \/ /\ pool'.dev[s[1]] = d
                    /\ IF s[1] = 0 THEN MayRead(pool', 0) ELSE MayWrite(pool', s[1])
                 \/ pool'.dev[s[1]] = dev_null /\ (d = NULL \/ d \in Openers)]_vars
  BY <1>2, <1>3
<1>5. Spec => []StreamInv
  BY <1>1, <1>2, Invariant, PTL DEF Spec
<1> QED  BY <1>4, <1>5, Invariant, PTL DEF Spec, StreamsRedirected

\* What an action of main does to the pool; before main nothing is locked.
LEMMA MainStep ==
  ASSUME IndInv, [Next]_vars
  PROVE  \/ UNCHANGED pool
         \/ phase \notin {"main", "exit"} /\ Started(pool) /\ Started(pool')
         \/ pool'.dev = pool.dev /\ pool'.flags = pool.flags
         \/ /\ PoolInv(pool') /\ phase = "main"
            /\ \E d, fd : /\ GivenOut(pool', pool, d, fd)
                          /\ d \notin FileSystems => ~alt_file_locked(pool', fd)
         \/ \E fd \in Fds :
              /\ Close(fd) /\ fd > 2 /\ pool'.dev = [pool.dev EXCEPT ![fd] = NULL]
              /\ pool'.flags = [pool.flags EXCEPT ![fd] = {}]
         \/ \E fd \in Fds :
              /\ alt_fd_lock(fd) \/ alt_fd_unlock(fd)
                 \/ \E flags \in UserFlags : SetFlags(fd, flags)
              /\ pool'.dev = pool.dev
<1> USE DEF IndInv
<1>1. CASE alt_io_redirect
  <2>1. phase \notin {"main", "exit"}  BY <1>1 DEF alt_io_redirect
  <2> QED  BY <1>1, <2>1, RedirectStep
<1>2. ASSUME NEW name, NEW flags \in UserFlags, Open(name, flags)
      PROVE  \/ pool'.dev = pool.dev /\ pool'.flags = pool.flags
             \/ /\ PoolInv(pool') /\ phase = "main"
                /\ \E d, fd : /\ GivenOut(pool', pool, d, fd)
                              /\ d \notin FileSystems => ~alt_file_locked(pool', fd)
  <2>1. flags \in SUBSET (Flags \ ALT_FD_FLAGS_MASK)  BY UserFlagsType
  <2>2. CASE pool' \in Failures(name, flags)  BY <2>1, <2>2, FailedOpen
  <2>3. CASE pool' \in Successes(name, flags)
    <3>1. /\ PoolInv(pool') /\ GivenOut(pool', pool, Found(name), FirstFree(pool))
          /\ Found(name) \notin FileSystems => ~alt_file_locked(pool', FirstFree(pool))
      BY <2>1, <2>3, SuccessfulOpen
    <3> QED  BY <1>2, <3>1 DEF Open
  <2> QED  BY <1>2, <2>2, <2>3 DEF Open
<1>3. ASSUME NEW fd \in Fds, Close(fd)
      PROVE  \/ UNCHANGED pool
             \/ /\ fd > 2 /\ pool'.dev = [pool.dev EXCEPT ![fd] = NULL]
                /\ pool'.flags = [pool.flags EXCEPT ![fd] = {}]
  BY <1>3 DEF Close, alt_release_fd, PoolInv, Pools
<1>4. ASSUME NEW fd \in Fds, alt_fd_lock(fd) \/ alt_fd_unlock(fd)
      PROVE  pool'.dev = pool.dev
  BY <1>4, LockedPool, UnlockedPool
<1>5. ASSUME NEW fd \in Fds, NEW flags \in UserFlags, SetFlags(fd, flags)
      PROVE  pool'.dev = pool.dev
  BY <1>5, SetPool
<1>6. CASE MainReturns  BY <1>6 DEF MainReturns, alt_release_fd
<1>7. CASE UNCHANGED pool  BY <1>7
<1> QED  BY <1>1, <1>2, <1>3, <1>4, <1>5, <1>6, <1>7, Zenon
           DEF Next, vars, alt_dev_reg, alt_fs_reg, SysInitDone

\* While a device is locked no further descriptor comes to refer to it: open finds
\* the lock wherever it is, since what is locked is below the mark.
\* [alt_file_locked, against alt_fd_lock; alt_open_fd]
THEOREM LocksKeepOthersOut == Spec => LockKeepsOthersOut
<1>1. ASSUME IndInv, [Next]_vars, NEW d \in Nodes, Locked(d)
      PROVE  Users(d)' \subseteq Users(d)
  <2>1. PICK i \in Fds : pool.dev[i] = d /\ "EXCL" \in pool.flags[i]
    BY <1>1 DEF Locked, Users
  <2>2. d # NULL /\ d \notin FileSystems
    BY <1>1, <2>1, PoolConstants DEF IndInv, PoolInv, Flagged
  <2>3. CASE pool'.dev = pool.dev  BY <2>3 DEF Users
  <2>4. CASE phase \notin {"main", "exit"} /\ Started(pool)
    BY <2>1, <2>4 DEF Started
  <2>5. ASSUME NEW e, NEW fd, PoolInv(pool'), GivenOut(pool', pool, e, fd),
               e \notin FileSystems => ~alt_file_locked(pool', fd)
        PROVE  Users(d)' \subseteq Users(d)
    <3>1. fd \in Fds /\ pool.dev[fd] = NULL /\ i # fd /\ e \in Nodes
      BY <2>1, <2>2, <2>5 DEF GivenOut
    <3>2. /\ pool'.dev[i] = d /\ pool'.dev[fd] = e /\ pool'.flags[i] = pool.flags[i]
          /\ \A j \in Fds : j # fd => pool'.dev[j] = pool.dev[j]
      BY <1>1, <2>1, <2>5, <3>1 DEF GivenOut, IndInv, PoolInv, Pools
    <3>3. i <= pool'.max
      BY <2>1, <2>5, <3>2 DEF PoolInv, BelowMark, Flagged
    <3>4. e # d
      BY <2>1, <2>2, <2>5, <3>1, <3>2, <3>3 DEF alt_file_locked
    <3> QED  BY <3>2, <3>4 DEF Users
  <2>6. ASSUME NEW fd \in Fds, pool'.dev = [pool.dev EXCEPT ![fd] = NULL]
        PROVE  Users(d)' \subseteq Users(d)
    BY <1>1, <2>2, <2>6 DEF Users, IndInv, PoolInv, Pools
  <2> QED  BY <1>1, <2>3, <2>4, <2>5, <2>6, MainStep
<1>2. IndInv /\ [Next]_vars =>
        [\A d \in Nodes : Locked(d) /\ Locked(d)' => Users(d)' \subseteq Users(d)]_vars
  BY <1>1
<1> QED  BY <1>2, Invariant, PTL DEF Spec, LockKeepsOthersOut

\* A lock is given up by TIOCNXCL and by close, and by nothing else.
\* [ioctl, close; fcntl, open]
THEOREM LocksAreKept == Spec => LockIsKept
<1>1. ASSUME IndInv, [Next]_vars, NEW fd \in Fds,
             "EXCL" \in pool.flags[fd], "EXCL" \notin pool'.flags[fd]
      PROVE  alt_fd_unlock(fd) \/ Close(fd)
  <2>1. pool'.flags # pool.flags  BY <1>1
  <2>2. CASE phase \notin {"main", "exit"} /\ Started(pool)
    BY <1>1, <2>2 DEF Started
  <2>3. ASSUME NEW e, NEW i, GivenOut(pool', pool, e, i)
        PROVE  FALSE
    <3>1. pool.flags[i] = {} /\ i \in Fds
      BY <1>1, <2>3 DEF GivenOut, IndInv, PoolInv, Flagged
    <3> QED  BY <1>1, <2>3, <3>1 DEF GivenOut
  <2>4. ASSUME NEW i \in Fds, Close(i), pool'.flags = [pool.flags EXCEPT ![i] = {}]
        PROVE  Close(fd)
    <3>1. i = fd  BY <1>1, <2>4 DEF IndInv, PoolInv, Pools
    <3> QED  BY <2>4, <3>1
  <2>5. ASSUME NEW i \in Fds, alt_fd_lock(i) PROVE FALSE
    <3>1. PoolInv(pool)  BY <1>1 DEF IndInv
    <3>2. pool'.flags = [pool.flags EXCEPT ![i] = @ \cup {"EXCL"}]
      BY <2>5, <3>1, LockedPool
    <3> QED  BY <1>1, <3>1, <3>2 DEF PoolInv, Pools
  <2>6. ASSUME NEW i \in Fds, alt_fd_unlock(i) PROVE alt_fd_unlock(fd)
    <3>1. i = fd  BY <1>1, <2>6, UnlockedPool DEF IndInv, PoolInv, Pools
    <3> QED  BY <2>6, <3>1
  <2>7. ASSUME NEW i \in Fds, NEW flags \in UserFlags, SetFlags(i, flags) PROVE FALSE
    <3>1. PoolInv(pool)  BY <1>1 DEF IndInv
    <3>2. "EXCL" \in pool'.flags[fd] <=> "EXCL" \in pool.flags[fd]
      BY <2>7, <3>1, SetKeepsLocks
    <3> QED  BY <1>1, <3>2
  <2> QED  BY <1>1, <2>1, <2>2, <2>3, <2>4, <2>5, <2>6, <2>7, MainStep
<1>2. IndInv /\ [Next]_vars =>
        [\A fd \in Fds : "EXCL" \in pool.flags[fd] /\ "EXCL" \notin pool'.flags[fd]
           => alt_fd_unlock(fd) \/ Close(fd)]_vars
  BY <1>1
<1> QED  BY <1>2, Invariant, PTL DEF Spec, LockIsKept

\* A lock is granted to the only descriptor that refers to the device, or to the
\* only one besides the highest. [alt_fd_lock; alt_get_fd]
THEOREM LocksAreExclusive == Spec => LockIsExclusive
<1>1. ASSUME IndInv, [Next]_vars, NEW fd \in Fds,
             "EXCL" \notin pool.flags[fd], "EXCL" \in pool'.flags[fd]
      PROVE  Users(pool.dev[fd]) \subseteq {fd, pool.max}
  <2>1. pool'.flags # pool.flags  BY <1>1
  <2>2. CASE Started(pool')  BY <1>1, <2>2 DEF Started
  <2>3. ASSUME NEW e, NEW i, GivenOut(pool', pool, e, i) PROVE FALSE
    BY <1>1, <2>3 DEF GivenOut
  <2>4. ASSUME NEW i \in Fds, pool'.flags = [pool.flags EXCEPT ![i] = {}] PROVE FALSE
    BY <1>1, <2>4 DEF IndInv, PoolInv, Pools
  <2>5. ASSUME NEW i \in Fds, alt_fd_unlock(i) PROVE FALSE
    <3>1. PoolInv(pool)  BY <1>1 DEF IndInv
    <3>2. pool'.flags = [pool.flags EXCEPT ![i] = @ \ {"EXCL"}]
      BY <2>5, <3>1, UnlockedPool
    <3> QED  BY <1>1, <3>1, <3>2 DEF PoolInv, Pools
  <2>6. ASSUME NEW i \in Fds, NEW flags \in UserFlags, SetFlags(i, flags) PROVE FALSE
    <3>1. PoolInv(pool)  BY <1>1 DEF IndInv
    <3>2. "EXCL" \in pool'.flags[fd] <=> "EXCL" \in pool.flags[fd]
      BY <2>6, <3>1, SetKeepsLocks
    <3> QED  BY <1>1, <3>2
  <2>7. ASSUME NEW i \in Fds, alt_fd_lock(i)
        PROVE  Users(pool.dev[fd]) \subseteq {fd, pool.max}
    <3>1. i = fd  BY <1>1, <2>7, LockedPool DEF IndInv, PoolInv, Pools
    <3>2. /\ "DEV" \in pool.flags[fd] /\ pool.dev[fd] # NULL
          /\ \A j \in Fds : j # fd /\ pool.dev[j] = pool.dev[fd] => ~(j < pool.max)
      BY <2>7, <3>1 DEF alt_fd_lock, On
    <3>3. fd <= pool.max /\ pool.max \in Int /\ (pool.max = -1 \/ pool.max > 2)
      BY <1>1, <3>2 DEF IndInv, PoolInv, BelowMark, Pools
    <3>4. pool.max > 2  BY <3>3, FdsAreNaturals
    <3>5. ASSUME NEW j \in Fds, pool.dev[j] = pool.dev[fd], j # fd PROVE j = pool.max
      <4>1. j > 2 => j <= pool.max
        BY <1>1, <3>2, <3>5 DEF IndInv, PoolInv, BelowMark
      <4>2. ~(j < pool.max)  BY <3>2, <3>5
      <4> QED  BY <3>3, <3>4, <4>1, <4>2, FdsAreNaturals
    <3> QED  BY <3>5 DEF Users
  <2> QED  BY <1>1, <2>1, <2>2, <2>3, <2>4, <2>5, <2>6, <2>7, MainStep
<1>2. IndInv /\ [Next]_vars =>
        [\A fd \in Fds : "EXCL" \notin pool.flags[fd] /\ "EXCL" \in pool'.flags[fd]
           => Users(pool.dev[fd]) \subseteq {fd, pool.max}]_vars
  BY <1>1
<1> QED  BY <1>2, Invariant, PTL DEF Spec, LockIsExclusive

=============================================================================
