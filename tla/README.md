# A verification of the Telecran

The repository holds an FPGA project: the *Télécran* (`src/telecran`), a sketching
screen for a DE10-Nano, and a Nios V processor system (`src/soft`, `src/sopc`) with the
board support package it runs on. Two rotary encoders move a cursor over a 720 x 480 HDMI
picture, the cursor leaves a trace in a one bit framebuffer, a button wipes it. This
directory models the design and the drivers in TLA+, model-checks them with TLC on small
instances and proves their main invariants with TLAPS for every instance.

## 1. Inventory

The screen:

| Part | Source | State | Operations | Clock, reset |
|---|---|---|---|---|
| HDMI timing controller | `telecran/hdmi_controller.vhd` | column and line counters | count; sync, data enable, coordinates and address are combinational | 27 MHz, `s_rst_n` |
| Rotary encoder decoder (two) | `telecran/encoder.vhd` | sampling divider, two states, a count with two extra bits | sample, decode | 50 MHz, `i_rst_n` |
| Button detector | `telecran/telecran.vhd:280` | previous level, request | see a press, drop the request | 27 MHz, `s_rst_n` |
| Clear FSM | `telecran.vhd:298` | state, address | start, sweep, finish | 27 MHz, `s_rst_n` |
| Write and colour registers | `telecran.vhd:326` | write enable, address, data, colour | clear, draw, show | 27 MHz, no reset |
| Framebuffer memory | `telecran/dpram.vhd` | the pixels, two output registers | write (port A), read (port B) | 27 MHz, no reset |
| LEDs | `telecran.vhd:144` | none | one lit LED per row | combinational |
| Transmitter configuration | `telecran/i2c/I2C_HDMI_Config.v` | divider, table index, FSM state, word, GO, READY | send an entry, retry it, go on, start again | 50 MHz, `i_rst_n` |
| I2C writer | `telecran/i2c/I2C_WRITE_WDATA.v`, `I2C_Controller.v` | state, bit and byte counters, shift register, both lines, END, ACK | one edge of a transfer | divided clock; the reset clears the state only |
| PLL | `telecran/pll` | vendor | clock, lock | 50 MHz |

The board support package (`soft/bsp`, paths below relative to it; `H` is `HAL/src`):

| Part | Source | State | Operations | Runs in |
|---|---|---|---|---|
| JTAG UART driver | `drivers/src/altera_avalon_jtag_uart_*.c` | two rings, interrupt enables, timeout, seconds without host | read, write, close, ioctl; interrupt handler; one second callback | thread, device interrupt, timer interrupt |
| Machine timer | `H/mtimer.c` | mtimecmp, timestamp offset | set up, tick, timestamp, read and write in halves | thread, timer interrupt |
| Alarms, sleep, wall clock | `H/alt_tick.c`, `alt_alarm_start.c`, `alt_busy_sleep.c`, `alt_settod.c`, `alt_gettod.c` | list of alarms, ticks, time at reset | start, stop, tick, sleep, set and get the time | thread, timer interrupt |
| File descriptors | `H/alt_open.c`, `alt_close.c`, `alt_get_fd.c`, `alt_fd_lock.c`, `alt_io_redirect.c`, ... | lists of devices and file systems, the pool, its high water mark | register, redirect, open, close, lock, unlock, fcntl, read and write | thread |
| I2C master driver | `drivers/src/altera_avalon_i2c.c`, on the core's `csr` and `mstfsm` | transaction of the handler; the core's FIFOs, flags, state machine | transmit, receive, both with a restart, status; polled or with interrupts | thread, device interrupt, core |
| Interrupts | `H/alt_irq_handler.c`, `alt_iic_isr_register.c`, `sys/alt_irq.h`, `alt_sys_init.c` | table of handlers, two levels of enables | register, open and close a section, dispatch a trap | thread, trap |
| Device feature list walker | `H/intel_fpga_api_cmn_dfl.c`, `intel_fpga_api_cmn_inf.c` | stack of parents, table of interfaces, heap | scan, rescan, clean up, open, close | thread |
| Rest of the HAL, application, generated system | `H`, `soft/app`, `sopc`, `rtl` | | see section 6 | |

**How they interact.** The encoders publish a position each; the top level scales it to
a column or a line and compares it with the raster's coordinates on every pixel clock
edge. The comparison feeds the write registers, which feed port A of the memory one edge
later; port B is addressed by the raster, and its output feeds the colour register.
The button detector and the clear FSM are two processes that read each other's registers.
The key resets the encoders at once, and the pixel domain by way of the PLL's lock. The
configuration FSM hands words to the writer with a GO / END handshake of levels.

In the board support package `alt_main` turns interrupts on and `alt_sys_init` initialises
the drivers, which register handlers in the table, devices in the lists and alarms with
the clock; descriptors lead from `read` and `write` to a driver; the timer's interrupt
runs `alt_tick`, which calls the drivers' callbacks. Thread and handlers share plain
variables, and protect them by sections with interrupts off, or by the order of writes.

**What is hard.** Two clock domains with no synchroniser between them. Registers in a
row: a clear begins while a drawing is on its way. Two processes that each see the other
one edge late. Two accesses to one shared variable on one edge. A reset that stops the
raster and the clear at any edge but neither the registers nor the memory. A handshake
of levels between two machines of which one never stops. Refused bytes, retries, and a
transmitter that asks for everything again in the middle of a transfer. Counters that
wrap, at several places at once. In the software: a handler and a thread that move the two
ends of one ring and switch the same interrupt; 64 bit times read and written in halves;
a list that changes while it is walked; a device that plays commands late, refuses them
late and is disabled early; calls that fail half way. The list, line by line, is under `hazards` in
`PROJECT.json`.

**What makes each part correct.** The timing controller drives a 480p raster without a
gap, after any reset. The decoder counts a slow knob exactly and loses only pairs of
quarter steps of a fast one. A clear erases all that was drawn before its press, whatever
the two processes do on the same edge. Ink appears under the cursor only, and a cursor at
rest leaves its whole cross. The configuration passes an entry only when the transmitter
has taken it whole, frames the bus, and ends.

The serial line loses, doubles and reorders nothing, and no interrupt stays off that
somebody waits for. No tick comes early and no alarm late. A failed open leaves nothing
behind, a lock holds until it is given up, and the standard streams are always usable in
their direction. A transfer that is called a success is one, and leaves the core to the
next. A handler is called as it was registered, never within a section, and every
interrupt is served. Every feature is described once, with the parent it has.

## 2. Modules

| Module | Models | Notes |
|---|---|---|
| `FrameScan` | abstract | the raster as one run of periods, sync pulses as slices of it, visible pixels numbered in order |
| `HdmiController` | `hdmi_controller.vhd` | implements `FrameScan` |
| `Knob` | abstract | a position that moves one at a time round a ring |
| `Encoder` | `encoder.vhd` | implements `Knob`; the shaft is the environment |
| `Dpram` | `dpram.vhd` | the outcomes of one edge |
| `Telecran` | `telecran.vhd` | composes `HdmiController`, two `Knob`s and `Dpram` |
| `I2cWriter` | `I2C_WRITE_WDATA.v` | one action per state |
| `HdmiConfig` | `I2C_HDMI_Config.v`, `I2C_Controller.v` | composes the FSM, the writer and an external transmitter |
| `JtagUart` | `altera_avalon_jtag_uart_*.c` | thread, handler and alarm callback; device and host are external |
| `TimeOfDay` | `alt_settod.c`, `alt_gettod.c` | pure functions |
| `SystemClock` | `mtimer.c`, `alt_tick.c`, `alt_alarm_start.c`, `alt_busy_sleep.c` | extends `TimeOfDay` |
| `FileDescriptors` | `alt_open.c`, `alt_get_fd.c`, `alt_fd_lock.c`, `alt_io_redirect.c`, ... | a call is a step |
| `AvalonI2c` | `altera_avalon_i2c.c`, `altera_avalon_i2c_mstfsm.v` | composes client, handler and core |
| `Interrupts` | `alt_irq_handler.c`, `alt_iic_isr_register.c`, `sys/alt_irq.h`, `alt_sys_init.c` | thread and traps |
| `FeatureList` | `intel_fpga_api_cmn_dfl.c`, `intel_fpga_api_cmn_inf.c` | the recursion as a stack of frames |
| `TelecranProofs` | theorems | about the screen and the timing controller inside it |
| `Clock50Proofs` | theorems | about the two designs on the 50 MHz clock, `Encoder` and `HdmiConfig` |
| `JtagUartProofs`, `SystemClockProofs`, `FileDescriptorsProofs`, `AvalonI2cProofs`, `InterruptsProofs`, `FeatureListProofs` | theorems | about the module they extend |
| `MC*` | | instances for TLC |

Conventions. A signal has the name it has in the source, a process or a generator gives
its name to the operator that describes one of its edges. A `std_logic` is 0 or 1. One
step is one rising edge, and the processes on that edge are conjuncts of it: each reads
unprimed values, as VHDL signals and Verilog's nonblocking assignments do. An asynchronous
reset is an action that may come between any two edges; edges that come while it is held
leave everything as it is. Definitions with `Mutant` in their comment are deliberate
mistakes, never used by the specification: putting one in place of the definition after
it must break a property.

### HdmiController

`Tick` is an edge: `p_counters`. `AssertReset` clears the counters at once. All outputs
are operators. The refinement maps the two counters to one position, and the number of
visible pixels before that position to what `FrameScan` counts; `FrameScan` has no lines,
no address arithmetic and computes its sync pulses from the position. (`o_pixel_visible`
and `o_pixel_en` are copies of `o_de`.)

### Encoder

`Tick` runs `p_sample` and `p_decode` on the same edge. `Turn` moves the shaft a quarter
step; bounces are turns that go back. (Its specification is `EncoderSpec`, and so on: one
module extends it and `HdmiConfig`.) `MaxTravel` bounds how far the shaft may be from
where it was last sampled, `Reach` is a bound for TLC on where it may go. History
variables, none of which the design reads, remember what the two state registers stand
for, where the count's zero is, and whether the knob was ever too fast since the last
reset (`hasty`): the reset assumes the channels at 00, and
`ZeroFor` is the shaft position which that amounts to, given where the first sample finds
the knob. Each sample reads both channels at once; since neighbouring codes differ in
one bit, a sample torn by skew is a neighbouring code, which `Turn` allows.

### Telecran

`Tick` is one edge of the 27 MHz clock with the PLL locked: counters, button detector,
clear FSM, write and colour registers and both ports of the memory move together.
`TickUnlocked` is an edge while there is no lock, on which only the processes without a
reset run. `Lock` and `LoseLock` are the PLL's, `PressReset` and `ReleaseReset` the key's.
`TurnLeft` and `TurnRight` are what the encoders may do between two edges, `Knob!Turn`,
which is what `Encoder` is proved to implement; the key resets both. The 50 MHz clock has
no other trace here, since nothing else of that domain reaches the pixels. The button is
any bit on any edge, so bounces are covered. Memory and unreset registers start with
anything.

`TornReads` says whether an edge may catch a position while its bits change: if so, each
bit read is the old one or the new one. The source does not exclude it. The other
properties are checked without it, to see whether there is anything else to say;
`telecran_torn` is the run with it.

`stale` is history: the ink there was at the last press and that is still there. `Ink`
is the memory with the pending write applied.

The colours are three values. The LEDs, which only decode the two positions, are left out.

### I2cWriter and HdmiConfig

A `Cycle` is an edge of the 50 MHz clock: the divider, and when it makes the control
clock rise, one step of the FSM and of the writer, together. A byte is a record of which
part of the word it is and which table entry it was loaded from; its eight bits are not
known, so `Shift` lets SDA take either value while they go out, and releases it for the
ninth. The actions of the writer are the states of its `case`. The line is low when the
writer or the transmitter pulls it (`SDAI`). The transmitter is external: it acknowledges
while it is there (`listening`), ignores everything after a byte it missed until the next
start, and takes a setting with the third acknowledge: `written` says, for the register of
each entry, whose data it was given last since the table was begun. The register is that
of the word's second byte and the data that of its third, and the two can be of different
entries. Apart from the first entry, which entry 16 repeats with the same value, no two
entries of the table have the same register. It asks for the table again with `HDMI_TX_INT` at any moment. Its address is
not compared, as every word has the same one. The table's values are its entries'
numbers: no property depends on the values, and SDA takes both levels anyway.

### JtagUart

The driver as it is built: no operating system, so semaphores are empty and waits spin,
and one thread. The thread's position in a call is `op`, one step per access to state
that it shares with the handler: a write copies (`write`), publishes the new index
(`write_publish`), turns the interrupt on (`write_enable`), waits. A step is taken while
the handler is off. The handler (`isr`) reads the device's control register,
receives byte by byte, transmits as many bytes as the space it has read, and looks again;
the host and the device may move before any of its steps. `TimeoutCallback` is the alarm's,
and runs in the timer interrupt in one piece. `TickRates` holds what
`alt_ticks_per_second` may say when the driver is set up: with 0, which this system's order
of initialisation gives, the alarm does not start and `timeout` is `INT_MAX` for good.

### SystemClock and TimeOfDay

Words have `Word` values and `mtime` two of them. High word, low word and high word again
are three steps of `MtimeHigh`, `MtimeLow`, `MtimeAgain`, of the thread or of the handler
that interrupts it; `mtimecmp` is written in three, `SetMax`, `SetLow` and a high word.
`mtime` counts before any of them. `alt_tick` takes a step per alarm with the next one
already in `cursor`, and between a callback's start and end the callback may start an
alarm or stop one (`AfterCallback`), its own and the one in `cursor` too: `strayed` is history, and
says that a callback of this tick did the latter. Sections with interrupts off are single steps.
`TimeOfDay` computes the wall clock from ticks, including the microseconds that
`settimeofday` leaves negative.

### FileDescriptors

From reset to the end of `main`: drivers register in any order (`phase` "sys_init"), the
streams are redirected, then calls. `Failures` and `GivenOut` hold what `open` may leave:
it allocates, sets flags, looks for a lock, calls the driver, and takes it all back when
one of them refuses. A name is a sequence of characters, since `alt_find_file` compares
them up to a slash; flags are a set of bits. `MayRead` and `MayWrite` are the tests of
`read` and `write`.

### AvalonI2c

The core takes commands out of a FIFO and plays them (`Core`): start, address, data, stop,
acknowledged or not, or arbitration lost (`mishap`). The thread runs the calls down to
single register accesses that matter: write a command if there is room, look for a
refusal, take a byte, wait until the core is idle, clear and disable. `Handler` is
`alt_avalon_i2c_irq`. Retry loops may go on after each attempt, and each bounded wait
may give up at any poll; `late` remembers it, because the core may then still be on the
bus. `took` is what the target acknowledged, to be compared with `Played(op)`.

### Interrupts

`MIE` and `mie` are the processor's global and single enables, `lines` the sources that
are asserted. A registration is five steps: the section is opened, handler, context and
enable are written, the section is closed. Sections nest up to `Nesting`, in the thread
and in what it calls. A trap scans what is pending and enabled, calls, and reads again;
a called handler lets its line fall and may register or remove one. The boot registers
the I2C core's handler for line -1, which the system description gives it, and `below`
is the word in front of the table.

### FeatureList

A ROM is a `next` per header and its blocks of parameters, some of which branch. The two
walks (`count`, `collect`) are the same recursion: `frames` are the calls to return to.
`head`, `top` and `size` are the stack of parents with its unused slot 0; `Overruns`
says that a push would write beyond it, after which the state is `corrupt` and nothing
more is said. `live` is the heap by name: the table, each header's parameters, each
block's data.

## 3. Runs

| Run | Instance | Checks |
|---|---|---|
| `hdmi` | 6 x 5 in 11 x 10 | `ImplementsFrameScan` |
| `encoder` | 4 positions (16 counts), period 2, travel 3, reach 9 | `PositionFollowsShaft`, `DriftIsEven`, `ImplementsKnob` |
| `telecran` | 2 x 2 in 3 x 3, knobs of 3 and 2, arm 1 | `ClearErasesAll`, `NoReadDuringDraw`, `RasterIsFrameScan`, `InkOnlyUnderPen`, `PenLeavesItsMark`, `PressBlanksScreen` |
| `telecran_torn` | 4 x 1, one knob of 4, torn reads | `InkOnlyUnderPen` is violated |
| `hdmi_config` | 3 entries, divider 1 | `PassedMeansTaken`, `BusFraming`, `GetsReady` |
| `jtag_uart` | rings of 3, FIFOs of 1, two alternating byte values, reads and writes of up to 2, timeout 2 of 4 | `ReceiverArmed`, `TransmitterArmed`, `ReceivesInOrder`, `TransmitsInOrder`, `GoneHostIsNoticed` |
| `system_clock` | two alarms, words of 4 values, a tick every 2, sleeps of 2 | `ListIsARing`, `NoneOverdue`, `TicksAreApart`, `SleepsLongEnough`, `WallClockRuns`, `TickEnds` |
| `file_descriptors` | 5 descriptors, two devices, two file systems, 8 names | `FailedOpenLeavesNothing`, `StreamsRedirected`, `LockIsKept`, `LockIsExclusive` |
| `avalon_i2c` | FIFOs of 2, sizes 1, 2 and 4 | `TypeOK`, `SuccessIsDone`, `LeavesNothing`, `HandedOverIsDone`, `TransactionEnds` |
| `interrupts` | 3 lines and the timer, 2 handlers, sections 2 deep, 4 rises | `CalledAsRegistered`, `SectionsAreClosed`, `EveryInterruptIsServed` |
| `irq_table` | 2 lines, one handler | `OnlyTheTable` is violated |
| `feature_list` | every tree shape of 5 headers, and lists that share a part or leave a header out; stack of 4 | `EveryFeatureOnce`, `ParentIsTheBrancher`, `OverrunOnlyWhenDeep`, `HeapIsTheTable` |

`TypeOK` is left to the prover where it is a theorem, and so are invariants that are
proved and only support another (`SweptIsDark`, `PoolBelowMark`, `EnabledHasHandler`, ...).

**Why the bounds are enough.** The raster has all four zones in each direction, with
lengths that differ; the theorems cover the real timings. The shaft ranges over
19 quarter steps, more than the 16 the count holds, so it wraps both ways; on a ring of four positions
a step on, a step back and a jump are three different things; travel 3 allows every jump
modulo 4, and `hasty` separates the runs in which the knob was slow. The screen has a
first and a last column, two lines, and blanking in both directions, so that the sweep
meets the raster at every phase; one knob has more positions than there are columns, as in
the source (1024 to 720), and an arm of 1 is cut at every edge. Three table entries are a
first, which is special in the code, a last, which is special too, and one that is
neither. A divider of 1 keeps edges on which nothing happens.

Rings of three are the smallest that can be full, empty and half full at every position,
and calls of two bytes need two pieces there. The bytes of each direction alternate between
two values (`BytesAlternate` in `MCJtagUart`), so that a byte differs from its neighbours and,
since three is odd, from what its slot held before: one that is overtaken, fetched from the
wrong slot or read before it is written shows. Arbitrary bytes are what the theorems
add. The alarm runs and the timeout stays at its default: one that is never started, or a timeout
for ever, adds no step that is not taken here while the alarm does not come, and
`GoneHostIsNoticed` promises nothing then. `mtime` reaches 5, beyond the carry at 4, with the handler interrupting the
thread between any two reads. Two alarms are a list with a neighbour on each side, in both
orders. Two descriptors besides the streams allow a hole below the mark; the two file
systems' names are a prefix of each other. FIFOs of 2 are
overrun by transfers of 4, and met exactly by 2 with the address byte; the source's 4 needs sizes
the graph would not hold. Three lines give a line with a fixed owner and two to exchange.
Five headers allow two branches in one header, branches of branches, and nesting up to
the overrun of a stack of 4 (8 in the source). `MaxRises` and `MaxTime` only end
executions.

**Deadlock** is checked, except in `file_descriptors`, where `main` may be over, and in
`feature_list`, where the heap may be corrupt.

**Fairness.** Hardware clocks are fair: `WF_vars(Tick)`, `WF_vars(Cycle)`. The board's
oscillator never stops, and the PLL's output runs while it is locked, which is the guard
of `Telecran!Tick`. The software's processor goes on: a handler that runs takes its next
step (`Irq`, `Isr`, `Handler`, `Dispatch`), a thread in the middle of a call too
(`Continue`; `Interrupts` while it registers), the I2C core plays what it has (`Core`). The
one second alarm keeps coming (`WF_vars(TimeoutCallback)`). Strong fairness is used
in `Interrupts` only: a trap that is again and again possible is taken, and sections that
are open are closed again, for a program that never leaves a section is served by nobody.
Nothing is assumed of keys, buttons, knobs, lock, transmitter, host, target or client; the
liveness properties say under which conditions on them they hold.

**What the passing runs show**

- `ImplementsFrameScan`: the picture is a correct raster after any reset.
- `PositionFollowsShaft`: with at most a quarter step per sample no step is lost or
  invented. At 1 kHz this means 250 detents a second. `DriftIsEven`: a faster knob loses
  quarter steps by pairs. `ImplementsKnob`: the cursor never jumps, even then.
- `ClearErasesAll`: a clear leaves nothing of before its press, whether the press came in
  the middle of another clear, on the edge that ends it, or with a drawing in the
  registers. `PressBlanksScreen`: it does so eventually.
- `InkOnlyUnderPen`, `PenLeavesItsMark`: the trace is the cursor's, all of it if it rests.
- `RasterIsFrameScan`: the raster inside the screen is that of the controller alone, through
  every loss of lock and press of the key, although its reset is now made of both.
- `NoReadDuringDraw`: an edge never draws the pixel it reads, so the order of the two
  ports is of no consequence for drawing, unless the raster was just reset.
- `PassedMeansTaken`, `BusFraming`, `GetsReady`: apart from the first entry, no entry is
  passed that the transmitter did not take, and the register of a passed entry keeps its
  data while the table goes on, although a transfer cut across by the restart does mix
  two entries; the bus carries well formed transfers except
  at a reset; the retries get through.
- `ReceivesInOrder`, `TransmitsInOrder`: the two paths of the serial line are FIFOs from
  host to caller and back. `ReceiverArmed`, `TransmitterArmed`: no interrupt is lost in the
  races for `irq_enable`. `GoneHostIsNoticed`: a call that waits for a host that has gone
  returns.
- `TicksAreApart`, `NoneOverdue`: torn reads and writes of the timer never make a tick too
  many, and an alarm is called at the very tick it asked for. `ListIsARing`:
  whatever callbacks start and stop. `TickEnds`: whatever they do but stop the alarm
  that follows their own (section 4). `SleepsLongEnough`, `WallClockRuns`: within a word.
- `FailedOpenLeavesNothing`, `StreamsRedirected`, `LockIsKept`: as their names say, over every
  history of the pool. `LockIsExclusive`: a lock is given only if nobody else has the device
  open, but for the highest descriptor, which the code overlooks (section 4).
- `SuccessIsDone`, `HandedOverIsDone`: what is reported as done was taken by the target
  whole, in this attempt. `LeavesNothing`: the next call finds the core off and empty.
  `TransactionEnds`: the interrupts that a transaction needs are all raised, if its receive
  fits in the FIFO and the bus refuses nothing (section 4).
- `CalledAsRegistered`, `SectionsAreClosed`, `EveryInterruptIsServed`.
- `EveryFeatureOnce`, `ParentIsTheBrancher`: both walks agree with each other and with the
  ROM. `HeapIsTheTable`: nothing leaks over rescans, and nothing
  that the table still refers to is freed; a block freed twice is not expressed by a heap
  that is a set.
  `OverrunOnlyWhenDeep` bounds the defect of section 4.

## 4. Where code and documents part

Two are runs; `findings` in `PROJECT.json` quotes the lines.

1. *Torn positions* (`telecran_torn`): the 27 MHz domain reads binary positions of the
   50 MHz domain as they change, so a pixel may be inked where no knob has been.
2. *A handler in front of the table* (`irq_table`): the I2C core has no interrupt here
   (`system.h:182`, `I2C_0_IRQ` is -1), its initialisation registers a handler all the
   same, and `alt_iic_isr_register.c:69-72` compares the number as a signed one: handler
   and context go to `alt_irq[-1]`. In the committed `app.elf.objdump` the table is at
   0xb4bc and the two words before it belong to `malloc`.

The others are excepted, by name, from the property they concern, or need no run.

3. *Direction of the encoder*: report and test bench (`rapport_telecran.tex:286-289`,
   `encoder_tb.vhd:73-78`) call A before B an increment, the decoder counts it down.
4. *Blanking*: the colour register is one period behind the data enable; the first blanked
   period carries the line's last pixel (`telecran.vhd:354`, comment at 363).
5. *First entry*: the idle writer's END makes the FSM pass entry 0 without sending it.
   Entry 16 repeats it. `PassedMeansTaken` starts with entry 1.
6. *Settings mixed*: the writer goes on sending the last entry; a request for the table
   changes the word in mid-transfer, and the last entry's register takes the first one's
   data. `PassedMeansTaken` shows that the entry is sent again before it is passed.
7. *Lock of a device* (`alt_fd_lock.c:61`): the search for other users stops before the
   highest descriptor, against the comment at 42-43; `LockIsExclusive` excepts it.
8. *Refusals in interrupt mode* (`altera_avalon_i2c.c:108`): the handler clears the flags
   before the status function can see them, so a refusal of the last byte counts as success;
   a refusal of the address before the flags were cleared leaves a receive that
   waits for ever (`HandedOverIsDone` asks for `mishap = "none"`, and `TransactionEnds` excepts
   refusals and a lost bus).
9. *Parents* (`intel_fpga_api_cmn_dfl.c:439`): the second branch of one header gets an interface
   of the first as its parent; `ParentIsTheBrancher` asks for one branch a header. The
   stack of parents is written one beyond its end at a nesting of seven (line 148). And the
   number of parameters counts the empty block that ends the list.
10. *Clock drift* (`mtimer.c:70`): the next tick is scheduled from the moment the handler
    reads the clock, so latencies add up, against the comment above it.
11. *The JTAG alarm never starts here*: `alt_sys_init.c:97` initialises the driver before the
    clock is set up, so a write without a host blocks for ever. And `write` gives up
    with one inactive second, whatever the timeout (`altera_avalon_jtag_uart_write.c:183`).
12. *Long receives in interrupt mode* (`altera_avalon_i2c.c:917-927,954-962`): all commands are
    written before the interrupt that drains the receive FIFO is enabled. A receive longer than
    the FIFO may lose bytes although the bus refused nothing, and then waits for them
    for ever; `TransactionEnds` is said of receives that fit.
13. *The next alarm stopped* (`alt_tick.c:66-73,102,120`): a callback may stop the alarm that
    follows its own. `alt_tick` goes on with it all the same, calls it when it is due, though it
    is not registered, and stays at it for ever, since it points to itself; only a callback
    that starts it again leads back to the list. `TickEnds` excepts such ticks (`strayed`).

Left out of the model, as a caller must not do it: starting an alarm that is started, any call on a
closed descriptor other than through its check (a null device is dereferenced), I2C sizes of 0
(a combined transfer then ends without a stop, and the core stays on). Also met: a locked
standard stream keeps its lock when closed (`alt_close.c:88`); a stream whose
device cannot be opened keeps `O_RDONLY`, so writes are refused with `EACCES`;
`alt_busy_sleep` sets the timestamp anew and computes its end in 32 bits; `_alt_nticks` has
64 bits and is read in two loads.

In the report: all LEDs out in reset (`rapport_telecran.tex:593`) where position 0 lights
LED 0 of each row (`telecran.vhd:149,167`); 10 bits for the right encoder, and 1024
(`:854,860`), where the code has 8 and 256; a synchronous reset of the counters (`:822`)
where it is asynchronous; `I2C_Freq` says 20 kHz but the control clock toggles every 2501
cycles, about 10 kHz, and a bit takes four of its edges; "anti-rebond" (`telecran.vhd:280`)
is an edge detector without debouncing.

## 5. Proofs

| Theorem | Shows | For |
|---|---|---|
| `Clock50Proofs!EncoderTypeCorrect`, `DriftAlwaysEven`, `SlowKnobIsCountedExactly`, `RefinesKnob` | `EncoderTypeOK`, `DriftIsEven`, `PositionFollowsShaft`, `ImplementsKnob` | all widths, periods, speeds |
| `Clock50Proofs!TypeCorrect`, `NoEntryIsLost`, `LinesAreFramed` | `TypeOK`, `PassedMeansTaken`, `BusFraming` | all tables of up to 63 entries, all dividers |
| `TelecranProofs!RasterTypeCorrect`, `RefinesFrameScan` | `TypeOK` and `ImplementsFrameScan` of `HdmiController` | all timings that satisfy `HTimings`, `VTimings` |
| `TelecranProofs!ScreenRunsTheController`, `ScreenShowsFrameScan` | `Spec` of `HdmiController`, `RasterIsFrameScan` | all timings, knobs, torn reads or not |
| `TelecranProofs!TypeCorrect`, `ClearIsComplete`, `SweepLeavesDark` | `TypeOK`, `ClearErasesAll`, `SweptIsDark` | all screens and knobs, torn reads or not |
| `TelecranProofs!PenIsTrue` | `InkOnlyUnderPen` | `TornReads = FALSE` |
| `TelecranProofs!PortsKeepApart` | `NoReadDuringDraw` | all screens with `HVisible >= 2` |
| `JtagUartProofs!TypeCorrect`, `ReceiverAlwaysArmed`, `TransmitterAlwaysArmed`, `ReceivePathIsFifo`, `TransmitPathIsFifo` | `TypeOK`, `ReceiverArmed`, `TransmitterArmed`, `ReceivesInOrder`, `TransmitsInOrder` | all rings, FIFOs, timeouts |
| `SystemClockProofs!TypeCorrect`, `ListStaysARing`, `NothingIsOverdue`, `TicksStayApart`, `SleepsAreLongEnough`, `WallClockAlwaysRuns` | `TypeOK`, `ListIsARing`, `NoneOverdue`, `TicksAreApart`, `SleepsLongEnough`, `WallClockRuns` | all sets of alarms, words, ticks, rates |
| `AvalonI2cProofs!TypeCorrect`, `SuccessIsWhole`, `NothingIsLeft`, `HandedOverIsWhole` | `TypeOK`, `SuccessIsDone`, `LeavesNothing`, `HandedOverIsDone` | all FIFO depths, transfers of any length |
| `InterruptsProofs!TypeCorrect`, `SectionsStayClosed`, `HandlersAreCalledAsRegistered`, `SearchEnds`, `EnabledLinesHaveHandlers` | `TypeOK`, `SectionsAreClosed`, `CalledAsRegistered`, `SomethingToCall`, `EnabledHasHandler` | all numbers of lines, handlers, nestings |
| `FeatureListProofs!TypeCorrect`, `OverrunsWhenDeep`, `HeapAlwaysTheTable` | `TypeOK`, `OverrunOnlyWhenDeep`, `HeapIsTheTable` | all ROMs and stacks |
| `FeatureListProofs!DescribedOnce`, `ParentsBranched` | `EveryFeatureOnce`, `ParentIsTheBrancher` | all ROMs whose lists are a tree, any number of headers |
| `FileDescriptorsProofs!TypeCorrect`, `OpenIsBelowMark`, `StreamsAlwaysOpen`, `PoolAlwaysClean`, `FailuresLeaveNothing`, `StreamsAreRedirected`, `LocksKeepOthersOut`, `LocksAreKept`, `LocksAreExclusive` | `TypeOK`, `PoolBelowMark`, `StreamsStayOpen`, `PoolIsClean`, `FailedOpenLeavesNothing`, `StreamsRedirected`, `LockKeepsOthersOut`, `LockIsKept`, `LockIsExclusive` | all pools, devices, names |

Assumptions are the named `ASSUME`s of the modules and those stated in the theorem.

**Raster.** The position of column `h`, line `v` is `v * HTotal + h`; `PositionColumnLine`
recovers both from it by division, `ZonesOfPosition` carries zones and pulses over, and
`TickAdvances` shows that an edge moves position and rank as the raster does, one case
for the end of the frame, one for the end of a line, one inside. These are theorems of the
instance of `HdmiController` that `Telecran` contains, so that the screen needs only one
more: every step of it, be it an edge, the key or the lock, is a step of the controller or
leaves it alone (`ScreenRunsTheController`).

**Encoder.** `PhaseInv` says which shaft positions the two state registers are the codes
of, and what `origin` is after the first sample. With it a decoded transition is a function
of two shaft positions: of neighbours their difference (`CountOfNeighbours`), of any two a
number of the same parity (`CountParity`). `TravelInv` keeps neighbours neighbours as
long as `hasty` is 0, whatever `MaxTravel` is. Wrapping is handled once, by `ModAdds` and `ModKeepsParity`.
`QuarterStep` bounds what an edge does to the slice.

**Clear.** `ClearErasesAll` is not inductive. `SweptIsDark` ties the ink to the sweep's address,
counting the write in the registers as done; `StaleInv` adds that
what is still stale is still ink, so that a dark screen owes nothing; `ResetInv` says that a
reset leaves the FSM idle with nothing owed. `InkStep`
is the lemma that everything rests on: an edge removes the swept pixel from the ink while
clearing, and otherwise adds the scanned one at most. That torn reads make no
difference here is part of the theorem.

**Pen.** `ScannedIsInCross`: the comparison in `OnCross`, which compares coordinates, puts
the scanned address into `Cross`, a set of addresses clipped to the screen.

**Ports.** The write register takes the address being scanned, and the same edge moves
the raster off it (`RasterMovesOn`: to the next pixel or into blanking; with one column it
would stay), so the next edge reads another pixel than it draws. The exception is the
raster's first pixel after a reset, and `ScanHeld` says that the raster is there for as
long as the reset lasts.

**Configuration.** The FSM and the writer see each other one edge late. `PassedMeansTaken`
says nothing of the transfer under way, so four predicates are added. `WriterInv` gives
the counters and lines in each state of the writer, `HeardInv` bounds what the transmitter
heard by what was sent. `Handshake` lists which states of the FSM go with which states of
the writer: in particular, END is never read on behalf of an earlier transfer except after
a refusal, which only repeats the entry. `InFlight` says that as long as no acknowledge is
missing the transmitter has heard what was sent, and that the bytes on their way or heard
are of the entry whose turn it is (`OnTheBus`: once the table is sent, the last one's). From
this follows `SettingTaken`: after the first entry, a register that is written is the one
of the entry whose turn it is, with its own data, so no passed entry is spoiled. All but
the first entry: there the idle writer's END counts, and a word may be mixed.
`NinthBit` is where the two ends meet: if ACK stays 0 at the end of a byte, the
transmitter pulled the line, since the writer had let go of it. For `BusFraming` it is
the levels in `WriterInv` that count: the clock is low in every state that may move SDA,
but for the start, before the first bit, and the stop, where the counters are those of three whole
bytes.

**Serial line.** Both FIFO properties rest on what a ring holds: the sequence between its
two indices, modulo its length (`Filled`). Lemmas say what a byte more or less and a piece
copied over the end of the buffer do to it; the invariant adds, for every position of the
thread, what it knows of an index it read earlier: the handler can only have made room, or
brought bytes. The armed interrupts need the positions of both sides at once.

**System clock.** Of the list, `Ring` says that both directions of links agree and that
whatever is closed under `next` and holds the head is all that is started: that there is
one ring, without counting along it. Insertion and removal keep it (a set closed after
the step gives one closed before). While `alt_tick` walks, there is a set of alarms already
passed, all due later than now, from which the links lead on to `cursor` only
(`CalledBefore`): whatever a callback starts goes to the head of that set, and what it stops leaves
it. When `cursor` is back at the head, the set is all that is started. After a callback
that stopped the next alarm `cursor` is `Astray`, at an alarm off the list that is its own next:
nothing is passed from there, and if it is started again, it is the first of the list, with the set empty
(`StartedAnew`). Of the reads,
`ReadIsTrue` says that as long as the high half read first is still that of the counter,
high and low half belong to one moment since the read began: the counter never goes back,
so a carry since then shows. Of the writes, `mtimecmp` is a tick after the last interrupt
whenever the handler is not writing it, and while it is, the order maximum, low, high
keeps it from being early. The wall clock is arithmetic: with a period that divides a
second, dividing ticks into seconds and rest loses nothing (`TimeOfDay`).

**I2C master.** A transaction is with the thread (`OwnedInv`), with the interrupt handler
(`HandedInv`) or with nobody (`FreeInv`), and the three parts of that case distinction are what
each action must keep. Whoever has it, it is `Sound` or `Broken`. A sound one is described
by a single list, `CommandAt(call, 1 ..)`, the commands of both halves of the call: what the target
has acknowledged, the command being played, those in the FIFO and those the driver has
still to write are consecutive pieces of it, and buffer and receive FIFO are consecutive
pieces of what the target sent. Each action moves the border between two of the pieces.
When the core is idle with nothing left to write, the first piece is the whole: that is
`SuccessIsDone`. A refusal or a lost bus empties both FIFOs and puts a flag up in one step,
and it stays up until the driver looks (`Broken`, `Flagged`); a handler may clear it, hence `mishap` in
`HandedOverIsDone`. If the receive FIFO runs over, bytes are missing, so the count of `Receiving`
cannot be reached and the call does not end in success. All of this holds while no wait has
given up (`late = 0`), as the properties say; that the core is off after any polled call
(`OffInv`) holds regardless.

**Interrupts.** `IndInv` is `TypeOK`, `Masked` (a section or a trap holds `MIE` at 0), `TableOK`
(an entry is half written only inside its registration, whose section keeps traps out) and
`TrapOK` (what a trap is about to call is an entry that was enabled with it).

**Feature list.** `StackOK` says where `top` is for each number of open frames; with it
`Overruns` is a comparison of the nesting with the size. The heap needs that both walks
visit the same number of headers: `WalkInv` says of the first that there is a run of `After`
from the first header to where it stands, and of the second that it stands on one that
ends with the number counted, so its next index is inside the table; `HeapInv` then names
what is allocated. For lists that are a tree, `TreeInv` describes the second walk by the
set of headers already described: what the blocks before a frame's position refer to is in it,
what the others refer to is not, and a header without a frame is done with. At the end the
set is closed under references and so is everything. A parent, which the property defines
by recursion over the ROM, is found the other way: the table's parents satisfy the
recursion's equation, each at a smaller index, so the two agree by the least index
at which they could differ.

**File descriptors.** `IndInv` is `Lists` (types of both lists), `PoolInv(pool)` and
`Started`, what the pool is before `main`. `PoolInv` is a predicate of a pool and not of
the state, so that it can be shown of the pools a failing `open` passes through: lemmas
give what `alt_get_fd`, `alt_release_fd` and setting flags do to it, and each call of the HAL is
a composition of them. The lock properties are then read off `GivenOut`, the one way in
which a descriptor comes to refer to a device. `StreamInv` gives, for each phase of
`alt_main`, which streams have been opened and which are still at the null device.

**Model-checked only.** Liveness, which is out of the prover's reach: `GetsReady`,
`PenLeavesItsMark`, `PressBlanksScreen`, `GoneHostIsNoticed`, `TickEnds`, `TransactionEnds`,
`EveryInterruptIsServed`.
Every other property of a passing run is a theorem. What the two violated properties say is
not: they are false.

## 6. Not modelled

- *PLL*: vendor code; lock and clock are modelled as the top level meets them.
- *Nios V system* (`rtl/tp_nios_v.vhd`, `sopc`): wires and generated code, except the I2C
  core's state machine, flags and FIFOs, which the driver is composed with.
- *Application* (`soft/app/main.c`): an endless blink.
- *I2C driver, the rest*: 10 bit addresses, the bus speed's arithmetic, getters and setters
  of one register; a call after a wait gave up, since what the bus then sees is the target's.
- *Rest of the HAL*: formatting (`alt_printf.c`, `alt_log_printf.c`), cache instructions,
  profiling (`alt_gmon.c`, not compiled for this system), one wrapper per vector of a mode
  the processor does not have (`alt_vic_isr_wrapper.c`), stubs that return an error,
  calls passed through to a driver (`alt_lseek.c`, `alt_fstat.c`, `alt_isatty.c`), DMA and flash
  lists that no driver of this system fills, startup assembly.
- *Headers*: most of the board support package by length is declarations, register masks
  and comments, which nothing can be modelled from; the definitions that
  carry state or control (`alt_irq.h`, `alt_llist.h`, `alt_alarm.h`, ...) are in the models.
- *Out of memory* in the feature list walker, which ends in an exception handler; on this
  board `system.h:170` leaves the walker compiled but unused.
- *Former encoder, test benches*: not part of the build; read for what they expect.
- Metastability and timing closure, which are below the level of a model in clock edges.

## 7. Plan

Done, in this order: raster, encoder, memory, top level, writer, configuration; JTAG UART,
clock, descriptors, I2C master, interrupts, feature list; proofs of every safety property
that a run checks.

Next:

1. The display path as a refinement: what a viewer sees of a frame, as a function of the
   memory and the cursor, with the one and two period delays made explicit.
2. `Encoder` and `Telecran` on two clocks, with a bound on their ratio.
3. `AvalonI2c` beyond a wait that gave up: what the next call may then assume; bus speed
   and 10 bit addresses.
4. The JTAG UART's two paths as a refinement of two bounded channels.
