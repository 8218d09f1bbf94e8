-------------------------- MODULE FileDescriptors --------------------------
(***************************************************************************)
(* The file descriptors of the HAL, from reset to exit: the lists of       *)
(* devices and file systems (alt_dev.c, alt_fs_reg.c, alt_find_dev.c,      *)
(* alt_find_file.c), the pool alt_fd_list (alt_get_fd.c, alt_release_fd.c),*)
(* redirection of the standard streams at startup (alt_io_redirect.c,      *)
(* alt_main.c), and open, close, ioctl and fcntl.                          *)
(*                                                                         *)
(* One thread runs, so a call is one step.  A name is a sequence of        *)
(* characters; flags are the set of the bits that are set.                 *)
(***************************************************************************)
EXTENDS Integers, Sequences, FiniteSets

CONSTANTS
  ALT_MAX_FD,           \* size of the pool
  NULL,                 \* the null pointer
  Devices, FileSystems, \* alt_dev structures, without alt_dev_null
  dev_null,             \* alt_dev_null
  Name,                 \* the name each of them has
  Openers,              \* those whose driver has an open function
  Paths,                \* bound: names that are opened
  UserFlags,            \* bound: flags that open and fcntl are given
  ALT_STDIN, ALT_STDOUT, ALT_STDERR     \* names, from system.h

\* alt_file.h: a descriptor's own flags, and those fcntl may change.
ALT_FD_FLAGS_MASK == {"EXCL", "DEV"}
ALT_FCNTL_FLAGS_MASK == {"O_APPEND", "O_NONBLOCK"}

Nodes == Devices \cup FileSystems \cup {dev_null}
Fds == 0 .. ALT_MAX_FD - 1
Streams == {0, 1, 2}

ASSUME PoolConstants ==
  /\ ALT_MAX_FD \in Nat /\ ALT_MAX_FD > 3
  /\ Devices \cap FileSystems = {} /\ dev_null \notin Devices \cup FileSystems
  /\ NULL \notin Nodes
  /\ Openers \subseteq Nodes \ {dev_null}
  /\ \A d \in Nodes : Name[d] \in Seq(STRING)
  /\ UserFlags \subseteq SUBSET {"O_WRONLY", "O_RDWR", "O_APPEND", "O_NONBLOCK"}

VARIABLES
  phase,                \* how far alt_main is
  alt_dev_list,         \* devices, the last registered first
  alt_fs_list,          \* file systems, likewise
  pool                  \* dev and fd_flags of alt_fd_list, and alt_max_fd, the
                        \* highest descriptor ever allocated

lists == <<alt_dev_list, alt_fs_list>>
vars == <<phase, lists, pool>>

-----------------------------------------------------------------------------
(* Names. *)

\* The first of the entries of a list that match, which are at these positions.
FirstOf(list, at) ==
  IF at = {} THEN NULL ELSE list[CHOOSE i \in at : \A j \in at : i <= j]

\* The n-th character from 0; a string ends with an "end".
Char(s, n) == IF n < Len(s) THEN s[n + 1] ELSE "end"

alt_find_dev(name) ==
  FirstOf(alt_dev_list, {i \in DOMAIN alt_dev_list : Name[alt_dev_list[i]] = name})

\* Where the name of a file system ends: a slash at its end does not count.
Ends(fs, n) ==
  \/ Char(fs, n) = "end"
  \/ Char(fs, n) = "/" /\ Char(fs, n + 1) = "end"

\* The characters agree up to where the file system ends, and a directory or the
\* whole name ends there too.
Holds(fs, name) ==
  \E n \in 0 .. Len(fs) :
    /\ Ends(fs, n) /\ \A i \in 0 .. n - 1 : ~Ends(fs, i) /\ Char(fs, i) = Char(name, i)
    /\ Char(name, n) \in {"/", "end"}

alt_find_file(name) ==
  FirstOf(alt_fs_list, {i \in DOMAIN alt_fs_list : Holds(Name[alt_fs_list[i]], name)})

\* What open looks for: a device of that name, or else a file system.
Found(name) ==
  IF alt_find_dev(name) # NULL THEN alt_find_dev(name) ELSE alt_find_file(name)

-----------------------------------------------------------------------------
(* The pool. *)

\* The first free descriptor, or -EMFILE.
FirstFree(p) ==
  LET free == {i \in Fds : p.dev[i] = NULL}
  IN  IF free = {} THEN -24 ELSE CHOOSE i \in free : \A j \in free : i <= j

\* Mutant: the mark is that of the last descriptor given out.
alt_get_fd_Last(p, d) ==
  [p EXCEPT !.dev[FirstFree(p)] = d, !.max = FirstFree(p)]

\* alt_get_fd, when there is a free descriptor.
alt_get_fd(p, d) ==
  [p EXCEPT !.dev[FirstFree(p)] = d,
            !.max = IF FirstFree(p) > @ THEN FirstFree(p) ELSE @]

\* Mutant: the flags are left.
alt_release_fd_Flagged(p, fd) == IF fd > 2 THEN [p EXCEPT !.dev[fd] = NULL] ELSE p

\* The standard streams are never released, nor is the -EMFILE of a failed open.
alt_release_fd(p, fd) ==
  IF fd > 2 THEN [p EXCEPT !.dev[fd] = NULL, !.flags[fd] = {}] ELSE p

\* Another descriptor has the device of fd locked.
alt_file_locked(p, fd) ==
  \E i \in Fds \ {fd} : i <= p.max /\ p.dev[i] = p.dev[fd] /\ "EXCL" \in p.flags[i]

\* A descriptor allocated and marked, as it is when the driver is asked.
Marked(p, d, flags) ==
  [alt_get_fd(p, d) EXCEPT !.flags[FirstFree(p)] =
     (flags \ ALT_FD_FLAGS_MASK) \cup (IF d \in FileSystems THEN {} ELSE {"DEV"})]

\* The pools that a failed open may leave: no device, no descriptor, a locked
\* device or a driver that refuses; the last two give the descriptor back.
Failures(name, flags) ==
  LET d == Found(name) fd == FirstFree(pool) p == Marked(pool, d, flags)
  IN  IF d = NULL \/ fd < 0 THEN {alt_release_fd(pool, fd)}
      ELSE IF (d \notin FileSystems /\ alt_file_locked(p, fd)) \/ d \in Openers
      THEN {alt_release_fd(p, fd)} ELSE {}

\* The pools that a successful open may leave: in FirstFree(pool) it returns.
Successes(name, flags) ==
  LET d == Found(name) fd == FirstFree(pool) p == Marked(pool, d, flags)
  IN  IF d = NULL \/ fd < 0 THEN {}
      ELSE IF d \notin FileSystems /\ alt_file_locked(p, fd) THEN {} ELSE {p}

-----------------------------------------------------------------------------
(* Startup: alt_main. *)

Registered(list) == {list[i] : i \in DOMAIN list}

\* alt_dev_reg, from alt_sys_init: a device without a name is refused.
alt_dev_reg(d) ==
  /\ phase = "sys_init" /\ d \notin Registered(alt_dev_list) /\ Name[d] # <<>>
  /\ alt_dev_list' = <<d>> \o alt_dev_list
  /\ UNCHANGED <<phase, alt_fs_list, pool>>

alt_fs_reg(d) ==
  /\ phase = "sys_init" /\ d \notin Registered(alt_fs_list) /\ Name[d] # <<>>
  /\ alt_fs_list' = <<d>> \o alt_fs_list
  /\ UNCHANGED <<phase, alt_dev_list, pool>>

SysInitDone ==
  /\ phase = "sys_init" /\ phase' = "stdout"
  /\ UNCHANGED <<lists, pool>>

\* Mutant: it is given back first.
Moved_Late(p, old, fd) ==
  LET r == alt_release_fd(p, old)
  IN  [r EXCEPT !.dev[fd] = r.dev[old], !.flags[fd] = r.flags[old]]

\* The descriptor old copied to fd, and given back.
Moved(p, old, fd) ==
  alt_release_fd([p EXCEPT !.dev[fd] = p.dev[old], !.flags[fd] = p.flags[old]], old)

\* alt_open_fd: fd is what name opens as; it stays as it is when that fails.
alt_open_fd(fd, name, flags) ==
  pool' \in Failures(name, flags)
              \cup {Moved(p, FirstFree(pool), fd) : p \in Successes(name, flags)}

\* alt_io_redirect, stream by stream.
alt_io_redirect ==
  /\ \/ phase = "stdout" /\ phase' = "stdin" /\ alt_open_fd(1, ALT_STDOUT, {"O_WRONLY"})
     \/ phase = "stdin" /\ phase' = "stderr" /\ alt_open_fd(0, ALT_STDIN, {})
     \/ phase = "stderr" /\ phase' = "main" /\ alt_open_fd(2, ALT_STDERR, {"O_WRONLY"})
  /\ UNCHANGED lists

-----------------------------------------------------------------------------
(* What main calls. *)

Open(name, flags) ==
  /\ phase = "main"
  /\ pool' \in Successes(name, flags) \cup Failures(name, flags)
  /\ UNCHANGED <<phase, lists>>

\* The other calls are for descriptors that are open: the code does not look.
On(fd) == phase = "main" /\ pool.dev[fd] # NULL /\ UNCHANGED <<phase, lists>>

\* Whatever the driver's close function returns, the descriptor is released.
Close(fd) == On(fd) /\ pool' = alt_release_fd(pool, fd)

\* ioctl TIOCEXCL of a device; the highest descriptor is not looked at.
alt_fd_lock(fd) ==
  /\ On(fd) /\ "DEV" \in pool.flags[fd]
  /\ ~\E i \in Fds \ {fd} : i < pool.max /\ pool.dev[i] = pool.dev[fd]
  /\ pool' = [pool EXCEPT !.flags[fd] = @ \cup {"EXCL"}]

\* ioctl TIOCNXCL of a device.
alt_fd_unlock(fd) ==
  /\ On(fd) /\ "DEV" \in pool.flags[fd]
  /\ pool' = [pool EXCEPT !.flags[fd] = @ \ {"EXCL"}]

\* Mutant: all flags are replaced.
SetFlags_All(fd, flags) == On(fd) /\ pool' = [pool EXCEPT !.flags[fd] = flags]

\* fcntl F_SETFL.
SetFlags(fd, flags) ==
  /\ On(fd)
  /\ pool' = [pool EXCEPT !.flags[fd] =
                (@ \ ALT_FCNTL_FLAGS_MASK) \cup (flags \cap ALT_FCNTL_FLAGS_MASK)]

\* What read and write look at before they call the driver.
MayRead(p, fd) == "O_WRONLY" \notin p.flags[fd]
MayWrite(p, fd) == p.flags[fd] \cap {"O_WRONLY", "O_RDWR"} # {}

\* main returns: standard output is closed, and the program exits.
MainReturns ==
  /\ phase = "main" /\ phase' = "exit"
  /\ pool' = alt_release_fd(pool, 1)
  /\ UNCHANGED lists

Init ==
  /\ phase = "sys_init"
  /\ alt_dev_list = <<dev_null>> /\ alt_fs_list = <<>>
  /\ pool = [dev |-> [i \in Fds |-> IF i \in Streams THEN dev_null ELSE NULL],
             flags |-> [i \in Fds |-> {}], max |-> -1]

Next ==
  \/ \E d \in Devices : alt_dev_reg(d)
  \/ \E d \in FileSystems : alt_fs_reg(d)
  \/ SysInitDone \/ alt_io_redirect
  \/ \E name \in Paths, flags \in UserFlags : Open(name, flags)
  \/ \E fd \in Fds : Close(fd) \/ alt_fd_lock(fd) \/ alt_fd_unlock(fd)
  \/ \E fd \in Fds, flags \in UserFlags : SetFlags(fd, flags)
  \/ MainReturns

Spec == Init /\ [][Next]_vars

-----------------------------------------------------------------------------
(* Properties. *)

Flags == {"O_WRONLY", "O_RDWR", "O_APPEND", "O_NONBLOCK", "EXCL", "DEV"}

TypeOK ==
  /\ phase \in {"sys_init", "stdout", "stdin", "stderr", "main", "exit"}
  /\ alt_dev_list \in Seq(Devices \cup {dev_null}) /\ alt_fs_list \in Seq(FileSystems)
  /\ pool \in [dev : [Fds -> Nodes \cup {NULL}], flags : [Fds -> SUBSET Flags],
               max : -1 .. ALT_MAX_FD - 1]

\* Both searches of the pool stop at the high water mark: every descriptor that
\* is open is below it, whatever was closed or failed to open before.
\* [alt_max_fd; alt_get_fd, alt_file_locked]
PoolBelowMark == \A i \in Fds \ Streams : pool.dev[i] # NULL => i <= pool.max

\* Standard input, output and error can be used at any time, whatever the
\* redirection failed to open and whatever main closes. [alt_release_fd]
StreamsStayOpen == \A i \in Streams : pool.dev[i] # NULL

\* Nothing is left behind: what is free has no flag of its earlier use, and main
\* starts with every descriptor but the streams. [alt_release_fd, alt_open_fd]
PoolIsClean ==
  \A i \in Fds \ Streams :
    /\ pool.dev[i] = NULL => pool.flags[i] = {}
    /\ phase \notin {"main", "exit"} => pool.dev[i] = NULL

\* When main starts each stream refers to what system.h names, if there is such a
\* device and it can be opened, and else still to the null device.  A stream
\* that was redirected can be used in its direction. [alt_io_redirect, alt_open_fd]
StreamsRedirected ==
  [][phase # "main" /\ phase' = "main" =>
       \A s \in {<<0, ALT_STDIN>>, <<1, ALT_STDOUT>>, <<2, ALT_STDERR>>} :
         LET d == Found(s[2])
         IN  \/ /\ pool'.dev[s[1]] = d
                /\ IF s[1] = 0 THEN MayRead(pool', 0) ELSE MayWrite(pool', s[1])
             \/ pool'.dev[s[1]] = dev_null /\ (d = NULL \/ d \in Openers)]_vars

Users(d) == {i \in Fds : pool.dev[i] = d}
Locked(d) == \E i \in Users(d) : "EXCL" \in pool.flags[i]

\* While a device is locked no further descriptor comes to refer to it.
\* [alt_file_locked, against alt_fd_lock; alt_open_fd]
LockKeepsOthersOut ==
  [][\A d \in Nodes : Locked(d) /\ Locked(d)' => Users(d)' \subseteq Users(d)]_vars

\* A lock is given up by the calls that say so, and by no other.
\* [ioctl, close; fcntl, open]
LockIsKept ==
  [][\A fd \in Fds : "EXCL" \in pool.flags[fd] /\ "EXCL" \notin pool'.flags[fd]
       => alt_fd_unlock(fd) \/ Close(fd)]_vars

\* A lock is granted only when no other descriptor refers to the device, but for
\* the highest one that was ever given out, which alt_fd_lock does not look at.
\* It relies on the mark as open does. [alt_fd_lock; alt_get_fd]
LockIsExclusive ==
  [][\A fd \in Fds : "EXCL" \notin pool.flags[fd] /\ "EXCL" \in pool'.flags[fd]
       => Users(pool.dev[fd]) \subseteq {fd, pool.max}]_vars

\* A call to open that fails leaves every descriptor as it was, however far it
\* came. [open, alt_release_fd]
FailedOpenLeavesNothing ==
  \A name \in Paths, flags \in UserFlags : \A p \in Failures(name, flags) :
    p.dev = pool.dev /\ p.flags = pool.flags

=============================================================================
