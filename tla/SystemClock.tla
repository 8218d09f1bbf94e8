---------------------------- MODULE SystemClock ----------------------------
(***************************************************************************)
(* The system clock of the HAL: the machine timer and its interrupt        *)
(* (mtimer.c), the list of alarms and alt_tick (alt_tick.c,                *)
(* alt_alarm_start.c), and busy sleeping on the timer (alt_busy_sleep.c).  *)
(*                                                                         *)
(* The processor has words half as long as mtime, so mtime is read and     *)
(* mtimecmp is written in pieces while mtime goes on counting.  The thread *)
(* and the interrupt handler both do it; the handler stops the thread.     *)
(* Alarms are started and stopped with interrupts disabled, in one step.   *)
(***************************************************************************)
EXTENDS TimeOfDay, FiniteSets

CONSTANTS
  Alarms,               \* alt_alarm structures
  HEAD, NULL,           \* &alt_alarm_list; a structure never started
  Word,                 \* 2^32
  DELTA,                \* MTIMECMP_DELTA_AMT
  MHZ,                  \* CPU_FREQUENCY_MHZ
  Sleeps,               \* bound: arguments of alt_busy_sleep
  Periods,              \* bound: ticks asked for, and values callbacks return
  MaxTime               \* bound: how far mtime counts

ASSUME ClockConstants ==
  /\ HEAD \notin Alarms /\ NULL \notin Alarms /\ HEAD # NULL
  /\ Word \in Nat /\ Word >= 2
  /\ DELTA \in Nat \ {0} /\ MHZ \in Nat \ {0}
  /\ Sleeps \subseteq 0 .. Word - 1
  /\ Periods \subseteq Nat
  /\ MaxTime \in Nat /\ MaxTime + DELTA < (Word - 1) * Word

VARIABLES
  mtime,                \* counts for ever
  cmp_hi, cmp_lo,       \* mtimecmp, of this hart
  mtie,                 \* the timer interrupt is enabled
  tick_rate,            \* _alt_tick_rate is set
  pc,                   \* where the handler ("isr") and the "thread" are
  hi, lo,               \* what each has read of mtime
  target,               \* what each is writing to mtimecmp
  offset, end_time,     \* alt_niosv_timestamp_offset; of alt_busy_sleep
  nticks,               \* _alt_nticks
  alarms,               \* alt_alarm_list: next, prev and time of the alarms; and,
                        \* as history, those started and not stopped since
  cursor,               \* alt_tick: alarm
  strayed,              \* history: a callback of this tick has stopped the alarm
                        \* that follows its own
  \* History: when the last timer interrupt was taken, when the last sleep
  \* began and how long it is to be.
  taken, begun, asked

timer == <<mtime, cmp_hi, cmp_lo, mtie>>
tick == <<nticks, cursor, strayed>>
sleep == <<offset, end_time, begun, asked>>
vars == <<timer, tick_rate, pc, hi, lo, target, sleep, alarms, tick, taken>>

-----------------------------------------------------------------------------
High(t) == t \div Word
Low(t) == t % Word

\* The timer interrupt's line.
Pending == mtime >= cmp_hi * Word + cmp_lo

Runs(r, at) ==
  /\ pc[r] = at
  /\ r = "thread" => pc["isr"] = "off"

Goto(r, at) == pc' = [pc EXCEPT ![r] = at]

-----------------------------------------------------------------------------
(* alt_niosv_mtime_get and alt_niosv_mtimecmp_set, by either. *)

MtimeHigh(r) ==
  /\ Runs(r, "high")
  /\ hi' = [hi EXCEPT ![r] = High(mtime)]
  /\ Goto(r, "low")
  /\ UNCHANGED <<timer, tick_rate, lo, target, sleep, alarms, tick, taken>>

MtimeLow(r) ==
  /\ Runs(r, "low")
  /\ lo' = [lo EXCEPT ![r] = Low(mtime)]
  /\ Goto(r, "again")
  /\ UNCHANGED <<timer, tick_rate, hi, target, sleep, alarms, tick, taken>>

\* Mutant: no look whether the high word has changed meanwhile.
MtimeAgain_Once(r) ==
  /\ Runs(r, "again")
  /\ Goto(r, "got")
  /\ UNCHANGED <<timer, tick_rate, hi, lo, target, sleep, alarms, tick, taken>>

\* The high word must be what it was before the low word was read.
MtimeAgain(r) ==
  /\ Runs(r, "again")
  /\ Goto(r, IF High(mtime) = hi[r] THEN "got" ELSE "high")
  /\ UNCHANGED <<timer, tick_rate, hi, lo, target, sleep, alarms, tick, taken>>

Got(r) == hi[r] * Word + lo[r]

\* The handler, and the thread that sets the timer up, schedule the next tick.
Schedule(r) ==
  /\ Runs(r, "got")
  /\ r = "thread" => mtie = 0
  /\ target' = [target EXCEPT ![r] = Got(r) + DELTA]
  /\ Goto(r, "set_max")
  /\ UNCHANGED <<timer, tick_rate, hi, lo, sleep, alarms, tick, taken>>

SetMax(r) ==
  /\ Runs(r, "set_max")
  /\ cmp_hi' = Word - 1
  /\ Goto(r, "set_low")
  /\ UNCHANGED <<mtime, cmp_lo, mtie, tick_rate, hi, lo, target, sleep, alarms, tick, taken>>

SetLow(r) ==
  /\ Runs(r, "set_low")
  /\ cmp_lo' = Low(target[r])
  /\ Goto(r, "set_high")
  /\ UNCHANGED <<mtime, cmp_hi, mtie, tick_rate, hi, lo, target, sleep, alarms, tick, taken>>

Timer(r) ==
  \/ MtimeHigh(r) \/ MtimeLow(r) \/ MtimeAgain(r)
  \/ Schedule(r) \/ SetMax(r) \/ SetLow(r)

\* What a finished reader or writer of the timer no longer needs.
Forget(r) ==
  /\ hi' = [hi EXCEPT ![r] = 0] /\ lo' = [lo EXCEPT ![r] = 0]
  /\ target' = [target EXCEPT ![r] = 0]

-----------------------------------------------------------------------------
(* The list of alarms, a ring through HEAD. *)

\* alt_llist_insert, at the head.
Inserted(L, a) ==
  [L EXCEPT !.next = [@ EXCEPT ![a] = L.next[HEAD], ![HEAD] = a],
            !.prev = [@ EXCEPT ![L.next[HEAD]] = a, ![a] = HEAD]]

\* Mutant: the entry keeps its links.
Removed_KeepsLinks(L, a) ==
  [L EXCEPT !.next = [@ EXCEPT ![L.prev[a]] = L.next[a]],
            !.prev = [@ EXCEPT ![L.next[a]] = L.prev[a]]]

\* alt_llist_remove.  The entry points to itself, so removing it again is harmless.
Removed(L, a) ==
  [L EXCEPT !.next = [@ EXCEPT ![L.prev[a]] = L.next[a], ![a] = a],
            !.prev = [@ EXCEPT ![L.next[a]] = L.prev[a], ![a] = a]]

\* The alarms once a is started: the tick that is running does not count.
Started(L, a, ticks) ==
  [Inserted(L, a) EXCEPT !.time[a] = nticks + ticks + 1, !.started = @ \cup {a}]

Stopped(L, a) == [Removed(L, a) EXCEPT !.started = @ \ {a}]

\* alt_alarm_start; without a clock it returns -ENOTSUP and changes nothing.
\* Starting an alarm that is in the list already would tear the list.
AlarmStart(a, ticks) ==
  /\ pc = [isr |-> "off", thread |-> "idle"] /\ tick_rate = 1
  /\ a \notin alarms.started
  /\ alarms' = Started(alarms, a, ticks)
  /\ UNCHANGED <<timer, tick_rate, pc, hi, lo, target, sleep, tick, taken>>

\* alt_alarm_stop, of any alarm that was started once.
AlarmStop(a) ==
  /\ pc = [isr |-> "off", thread |-> "idle"]
  /\ alarms.next[a] # NULL
  /\ alarms' = Stopped(alarms, a)
  /\ UNCHANGED <<timer, tick_rate, pc, hi, lo, target, sleep, tick, taken>>

-----------------------------------------------------------------------------
(* The interrupt handler, alt_niosv_timer_sc_isr. *)

IrqTaken ==
  /\ pc["isr"] = "off" /\ mtie = 1 /\ Pending
  /\ Goto("isr", "high")
  /\ taken' = mtime
  /\ UNCHANGED <<timer, tick_rate, hi, lo, target, sleep, alarms, tick>>

\* The last write to mtimecmp, and alt_tick begins.
IrqScheduled ==
  /\ Runs("isr", "set_high")
  /\ cmp_hi' = High(target["isr"])
  /\ Forget("isr")
  /\ nticks' = nticks + 1
  /\ cursor' = alarms.next[HEAD] /\ strayed' = 0
  /\ Goto("isr", "tick")
  /\ UNCHANGED <<mtime, cmp_lo, mtie, tick_rate, sleep, alarms, taken>>

\* alt_tick looks at an alarm that is not due yet.
TickSkips ==
  /\ Runs("isr", "tick") /\ cursor # HEAD
  /\ alarms.time[cursor] > nticks
  /\ cursor' = alarms.next[cursor]
  /\ UNCHANGED <<timer, tick_rate, pc, hi, lo, target, sleep, alarms, nticks,
                 strayed, taken>>

\* A callback may start an alarm or stop one, its own and the next too.
AfterCallback ==
  {alarms}
    \cup {Started(alarms, a, n) : a \in Alarms \ alarms.started, n \in Periods}
    \cup {Stopped(alarms, a) : a \in alarms.started}

\* The callback that left L has stopped the alarm that alt_tick goes on with.
Strays(L) == alarms.next[cursor] \in alarms.started \ L.started

\* Mutant: the next call is counted from nothing.
Recurring_Anew(L, a, ticks) ==
  IF ticks = 0 THEN Stopped(L, a) ELSE [L EXCEPT !.time[a] = ticks]

\* What the callback returns says when it wants to be called again, 0 for never.
Recurring(L, a, ticks) ==
  IF ticks = 0 THEN Stopped(L, a) ELSE [L EXCEPT !.time[a] = @ + ticks]

\* Mutant: the alarm that follows is read after the call.
TickCalls_NextAfter ==
  /\ Runs("isr", "tick") /\ cursor # HEAD
  /\ alarms.time[cursor] <= nticks
  /\ \E L \in AfterCallback, n \in Periods :
       /\ alarms' = Recurring(L, cursor, n)
       /\ strayed' = IF Strays(L) THEN 1 ELSE strayed
  /\ cursor' = alarms'.next[cursor]
  /\ UNCHANGED <<timer, tick_rate, pc, hi, lo, target, sleep, nticks, taken>>

\* An alarm that is due: its callback is called, and alt_tick goes on with the
\* alarm that followed it before the call.
TickCalls ==
  /\ Runs("isr", "tick") /\ cursor # HEAD
  /\ alarms.time[cursor] <= nticks
  /\ \E L \in AfterCallback, n \in Periods :
       /\ alarms' = Recurring(L, cursor, n)
       /\ strayed' = IF Strays(L) THEN 1 ELSE strayed
  /\ cursor' = alarms.next[cursor]
  /\ UNCHANGED <<timer, tick_rate, pc, hi, lo, target, sleep, nticks, taken>>

TickDone ==
  /\ Runs("isr", "tick") /\ cursor = HEAD
  /\ Goto("isr", "off")
  /\ UNCHANGED <<timer, tick_rate, hi, lo, target, sleep, alarms, tick, taken>>

Isr ==
  \/ IrqTaken \/ Timer("isr") \/ IrqScheduled
  \/ TickSkips \/ TickCalls \/ TickDone

-----------------------------------------------------------------------------
(* The thread. *)

\* INTEL_NIOSV_M_INIT: alt_sysclk_init, then alt_niosv_mtimecmp_interrupt_init.
SysclkInit ==
  /\ Runs("thread", "idle") /\ tick_rate = 0
  /\ tick_rate' = 1
  /\ Goto("thread", "high")
  /\ UNCHANGED <<timer, hi, lo, target, sleep, alarms, tick, taken>>

TimerStarted ==
  /\ Runs("thread", "set_high")
  /\ cmp_hi' = High(target["thread"])
  /\ mtie' = 1
  /\ Forget("thread")
  /\ Goto("thread", "idle")
  /\ UNCHANGED <<mtime, cmp_lo, tick_rate, sleep, alarms, tick, taken>>

\* alt_busy_sleep, over the timestamp: its end is a product of 32 bits.
BusySleep(us) ==
  /\ Runs("thread", "idle") /\ mtie = 1
  /\ begun' = mtime /\ asked' = us
  /\ Goto("thread", "high")
  /\ UNCHANGED <<timer, tick_rate, hi, lo, target, offset, end_time, alarms, tick, taken>>

\* Mutant: the timestamp is not started anew.
SleepFrom_GoesOn ==
  /\ Runs("thread", "got") /\ mtie = 1 /\ end_time = -1
  /\ offset' = 0
  /\ end_time' = (MHZ * asked) % Word
  /\ Goto("thread", "high") /\ Forget("thread")
  /\ UNCHANGED <<timer, tick_rate, begun, asked, alarms, tick, taken>>

\* The first reading becomes the offset of the timestamp.
SleepFrom ==
  /\ Runs("thread", "got") /\ mtie = 1 /\ end_time = -1
  /\ offset' = Got("thread")
  /\ end_time' = (MHZ * asked) % Word
  /\ Goto("thread", "high") /\ Forget("thread")
  /\ UNCHANGED <<timer, tick_rate, begun, asked, alarms, tick, taken>>

\* Later ones are compared with the end.
SleepOn ==
  /\ Runs("thread", "got") /\ mtie = 1 /\ end_time >= 0
  /\ IF Got("thread") - offset < end_time
     THEN Goto("thread", "high") /\ UNCHANGED sleep
     ELSE /\ Goto("thread", "idle")
          /\ offset' = 0 /\ end_time' = -1 /\ begun' = 0 /\ asked' = 0
  /\ Forget("thread")
  /\ UNCHANGED <<timer, tick_rate, alarms, tick, taken>>

Thread ==
  \/ SysclkInit \/ Timer("thread") \/ TimerStarted
  \/ \E us \in Sleeps : BusySleep(us)
  \/ SleepFrom \/ SleepOn
  \/ \E a \in Alarms, n \in Periods : AlarmStart(a, n)
  \/ \E a \in Alarms : AlarmStop(a)

\* The counter; MaxTime bounds it.
Count ==
  /\ mtime < MaxTime
  /\ mtime' = mtime + 1
  /\ UNCHANGED <<cmp_hi, cmp_lo, mtie, tick_rate, pc, hi, lo, target, sleep, alarms,
                 tick, taken>>

Init ==
  /\ mtime = 0 /\ cmp_hi = 0 /\ cmp_lo = 0 /\ mtie = 0 /\ tick_rate = 0
  /\ pc = [isr |-> "off", thread |-> "idle"]
  /\ hi = [isr |-> 0, thread |-> 0] /\ lo = hi /\ target = hi
  /\ offset = 0 /\ end_time = -1 /\ begun = 0 /\ asked = 0
  /\ nticks = 0
  /\ LET unlinked == [x \in Alarms \cup {HEAD} |-> IF x = HEAD THEN HEAD ELSE NULL]
     IN  alarms = [next |-> unlinked, prev |-> unlinked,
                   time |-> [a \in Alarms |-> 0], started |-> {}]
  /\ cursor = HEAD /\ strayed = 0
  /\ taken = -DELTA

Next == Count \/ Isr \/ Thread

Spec == Init /\ [][Next]_vars

\* The handler runs on, whatever the clock and the callbacks do.
FairSpec == Spec /\ WF_vars(Isr)

-----------------------------------------------------------------------------
(* Properties. *)

Places == {"off", "idle", "high", "low", "again", "got", "set_max", "set_low",
           "set_high", "tick"}

Lists ==
  LET links == [Alarms \cup {HEAD} -> Alarms \cup {HEAD, NULL}]
  IN  [next : links, prev : links, time : [Alarms -> Nat], started : SUBSET Alarms]

TypeOK ==
  /\ mtime \in 0 .. MaxTime /\ mtie \in {0, 1} /\ tick_rate \in {0, 1}
  /\ cmp_hi \in 0 .. Word - 1 /\ cmp_lo \in 0 .. Word - 1
  /\ pc \in [{"isr", "thread"} -> Places]
  /\ hi \in [{"isr", "thread"} -> 0 .. Word - 1]
  /\ lo \in [{"isr", "thread"} -> 0 .. Word - 1]
  /\ target \in [{"isr", "thread"} -> 0 .. MaxTime + DELTA]
  /\ offset \in 0 .. MaxTime /\ end_time \in -1 .. Word - 1
  /\ begun \in 0 .. MaxTime /\ asked \in Sleeps \cup {0}
  /\ nticks \in Nat /\ alarms \in Lists /\ cursor \in Alarms \cup {HEAD}
  /\ strayed \in {0, 1} /\ taken \in -DELTA .. MaxTime

\* The list is a ring of the head and the alarms that are started, the same in
\* both directions; what is not in it is linked to nothing but itself.
\* [alt_llist_insert and alt_llist_remove, from the thread and from callbacks]
ListIsARing ==
  LET ring == alarms.started \cup {HEAD}
  IN  /\ \A x \in ring : alarms.next[x] \in ring /\ alarms.prev[alarms.next[x]] = x
      /\ \A S \in SUBSET alarms.started :
           (\A x \in S \cup {HEAD} : alarms.next[x] \in S \cup {HEAD})
             => S = alarms.started
      /\ \A a \in Alarms \ ring : alarms.next[a] \in {NULL, a} /\ alarms.prev[a] = alarms.next[a]

\* Between ticks no alarm is overdue, so each is called at the very tick it asked
\* for, whoever starts and stops alarms meanwhile, as long as the ticks end.
\* [alt_tick, alt_alarm_start]
NoneOverdue ==
  pc["isr"] = "off" => \A a \in alarms.started : alarms.time[a] > nticks

\* Two timer interrupts are a tick's time apart at least, even when the low word
\* of mtime wraps as it is read. [alt_niosv_timer_sc_isr, alt_niosv_mtime_get]
TicksAreApart ==
  [][IrqTaken => mtime >= taken + DELTA]_vars

\* alt_busy_sleep takes as long as was asked, whatever interrupts it; as long as
\* the clocks to wait for fit in a word. [alt_busy_sleep, over the timestamp]
SleepsLongEnough ==
  [][SleepOn /\ pc'["thread"] = "idle" /\ MHZ * asked < Word
       => mtime >= begun + MHZ * asked]_vars

\* The handler comes to its end, whatever callbacks it meets on the way, but for
\* one that stops the alarm that follows its own.  alt_alarm_stop lets it do so
\* (alt_tick.c:66-73); alt_tick has that alarm fetched already and goes on with it
\* (lines 102, 120), calls it when it is due, though it is stopped, and does not
\* leave it again, for it is its own next. [alt_tick]
TickEnds == pc["isr"] # "off" ~> pc["isr"] = "off" \/ strayed = 1

\* Once the time of day is set it runs with the ticks: d ticks later it has gone
\* on by d periods, whenever it was set, to whatever it was set, and however the
\* seconds roll over meanwhile. [settimeofday, gettimeofday, over _alt_nticks]
WallClockRuns ==
  \A sec \in 0 .. 1, usec \in {0, US - 1}, d \in {1, RATE} :
    LET t == [sec |-> sec, usec |-> usec]
        later == Gettod(Settod(t, nticks), nticks + d)
    IN  /\ later.usec \in 0 .. US - 1
        /\ InMicroseconds(later) = InMicroseconds(t) + d * (US \div RATE)
=============================================================================
