# Verification of emb-rt-hw-accel

TLA+ models, TLC runs and TLAPS proofs about the firmware and the logic of this
repository: the Nios II board support packages under `soc-guitar-tuner/software`
and the Verilog cores and Matlab models under `spi_fsm` and `ip-cores`.  Paths
below are relative to the repository; `BSP` stands for
`soc-guitar-tuner/software/test0_bsp`.

## 1. The system and its parts

The repository is a collection of experiments around a small FPGA system.  Two
kinds of part carry logic of their own.

**Firmware.** `test0` and `test2` are small programs on a generated HAL, of which
two board support packages hold one and the same copy (`HAL/` and `drivers/src`
of the two are identical) in two configurations.  `test0_bsp` is built `-O0` with
a system clock of 10 ticks a second, 32 file descriptors and the interrupt-driven
JTAG UART driver.  `test2_bsp` is built `-Os` with no system clock, four
descriptors, direct calls of the drivers and `ALT_USE_SMALL_DRIVERS`, which
selects the polled JTAG UART driver.  Both are single threaded.  At start-up
`alt_main` clears and enables interrupts, initialises the timer and then the
UART, redirects the standard streams to the UART and calls `main`.

| part | state | operations | neighbours |
|---|---|---|---|
| JTAG UART driver, fast (`BSP/drivers/src/altera_avalon_jtag_uart_*.c`) | two ring buffers, `irq_enable`, `host_inactive`, `timeout` | `init`, `read`, `write`, `close`, `ioctl`, the interrupt routine, the one-second alarm callback | the device's FIFOs and control register; the host at the other end of the cable; the alarm list |
| JTAG UART driver, small (the same files, `ALTERA_AVALON_JTAG_UART_SMALL`) | none but the device's | `read`, `write` | the same device and host |
| interrupt dispatch (`alt_irq_handler.c`, `alt_iic*.c`, `alt_irq.h`, `alt_legacy_irq.h`, `alt_*_entry.S`) | a table of handlers and contexts, `alt_irq_active`, `alt_priority_mask`, the CPU's `ienable` and PIE | register, enable, disable, critical sections, exception, dispatch, nesting | every interrupt routine and every critical section |
| alarms and system clock (`alt_tick.c`, `alt_alarm_start.c`, `altera_avalon_timer_sc.c`) | `_alt_nticks`, a doubly linked list, a time and a roll-over flag per alarm | `alt_alarm_start`, `alt_alarm_stop`, `alt_tick`, callbacks | the interval timer; the UART's callback and the profiler's sampler are alarms |
| file descriptors (`alt_open.c` and others) | `alt_fd_list`, `alt_max_fd` | open, close, `TIOCEXCL`/`TIOCNXCL`, `F_SETFL`, redirection at start-up | every driver, through its `alt_dev` |
| time of day (`alt_gettod.c`, `alt_settod.c`) | `alt_resettime` | get, set | the tick count and rate |
| profiler (`alt_mcount.S`, `alt_gmon.c`) | lists of functions and arcs, a slab, `pcsample_need_init` | `mcount` at the entry of every function, at interrupt level too | `sbrk`, alarms |
| heap (`alt_sbrk.c`) | `heap_end` | grow | `malloc`, the profiler |
| timer application (`test2/hello_world_small.c`) | `led_dir` | the timer's interrupt routine toggles it | dispatch |

**Logic.**

| part | state | operations | neighbours |
|---|---|---|---|
| SPI ADC master (`spi_fsm/base_fsm.v`) | a four-state machine, a clock divider, a bit counter, a shift register, an interrupt pipeline | one clock edge | an ADC on `sclk_n`, `cs_n`, `from_device`; a host giving `start`, `clk_scaler` and taking `data`, `irq` |
| FEC packet client (`ip-cores/client_my_fec.v`) | write address, byte counter, two banks of column sums, a hand-over flag | an edge of the stream's clock, an edge of the transmitter's, reset | a transport stream, an Ethernet transmitter |
| pipeline controllers (`ip-cores/rtl_vlog/sm_rtl.v`, `controlers_ifaces_lib.v`, `counters_lib.v`) | a counter and a window flip-flop per stage | one clock edge | the stages before and after, by a baton: `first` in, `last` out |
| serial multiplier and filter (`spi_fsm/adv_book.v`) | shift registers, a counter; a four-state control | one clock edge | each other |
| request and grant machine (`ip-cores/spi_host_ram_host/deserializer.v`) | four states | one clock edge | `req`, `done`, `dly` |
| Reed-Solomon models (`ip-cores/rs_models/__depr/mm_ml`: `ml_rs_model_xxbm`, `gmult`), Matlab | tables of the field, the received word, the registers of the key equation | encode, syndromes, a round of the key equation, search for roots and correction | `main.m`, which overwrites symbols between the two; the vectors they write are the hardware's reference |
| stream RAM, Avalon RAM and register, small library parts | a memory or a register each | one clock edge | a bus |

### What is hard in it

*Concurrency.*  The UART's foreground routines share rings and enable bits with
an interrupt routine that may run between any two of their accesses, even inside
a `memcpy`; a device and a host move on their own.  Callbacks change the alarm
list while `alt_tick` walks it.  Interrupt lines go up and down between the
exception and the read of the pending word; handlers nest; critical sections lie
inside one another.  `mcount` runs at both levels over the same lists.  The FEC
client's two clocks have no relation.

*Timeouts and partners that leave.*  A host may leave; a call of the fast driver
that needs it has the inactivity timeout for its only way out, and the timeout
races with late data.  The small driver has no timeout at all.

*Boundaries.*  Full rings, a full FIFO, a full descriptor table, an exhausted
heap; a tick count, alarm times and microseconds that wrap; an SPI divider that
compares for equality; rounding in the serial product; words at, and beyond, the
number of errors a Reed-Solomon code corrects, errors in its parity, and rounds
of the key equation whose discrepancy is zero by accident.

*Long sequences of legal calls.*  Opening, locking, closing and reopening
descriptors; starting and stopping alarms; registering and enabling lines from
handlers.

`PROJECT.json` lists the hazards line by line with the properties that watch them.

## 2. The modules

| module | models | against |
|---|---|---|
| `ByteStream` | a bounded first-in first-out channel: what one direction of a character device promises | abstract |
| `JtagUart` | the fast UART driver, its device and the host | refines `ByteStream`, once per direction |
| `JtagUartSmall` | the small one | refines `ByteStream`, once per direction |
| `IrqDispatch` | table, masks, sections, exceptions, dispatch, nesting | |
| `AlarmTick` | the alarm list, the tick and its callbacks, the timer | |
| `FdTable` | the file descriptors | |
| `Errno` | the error numbers the drivers and the HAL return | |
| `TimeOfDay` | the wall clock | |
| `Profile` | the profiler and `sbrk` | |
| `SpiFsm` | the SPI master and the ADC's side of the wires | |
| `FecClient` | the column sums, the banks and the hand-over | |
| `SmControl` | one stage of a pipeline | |
| `SerialMult` | the serial multiplier | against multiplication |
| `ReqGrant` | the request and grant machine | |
| `GaloisField` | the tables and the arithmetic of the Reed-Solomon models | |
| `ReedSolomon` | their coder and both decoders | against the word that was sent, and the definition of the discrepancies |
| `MCHal`, `MCRtl` | benches: the HAL's services, and the cores, side by side | |
| other `MC*` | instances of one module for TLC | |
| `JtagUartProofs` | theorems about `JtagUart` | |
| `IrqDispatchProofs` | theorems about `IrqDispatch` | |
| `DeviceProofs` | theorems about `FdTable` and `JtagUartSmall` | |
| `HalProofs` | theorems about `AlarmTick`, `Profile`, `TimeOfDay` and the bench of services | |
| `GaloisFieldProofs` | lemmas about `GaloisField`: a field, polynomials over it | |
| `ReedSolomonProofs` | theorems about `ReedSolomon` | |
| `RtlProofs` | theorems about `SpiFsm`, `FecClient`, `SmControl`, `SerialMult` and the bench of cores | |
| `Induction` | induction over the natural numbers, sums over finite sets by it, and division | |

`MCHal` and `MCRtl` put several modules into one run of TLC.  The services of the
first share no state in the model, nor do the cores of the second: a behaviour
picks one of them (`part`) and runs it alone.  `MCHal` extends the five modules it
runs and `MCRtl` five of its six, so that the properties and the assumptions on
constants are the modules' own; `ReqGrant` has one constant-free instance.
`BenchRunsEach` and `BenchRunsCores` prove that every behaviour of a bench is one
of each of its modules, so what is proved of a module holds in the bench.

### JtagUart

Variables have the source's names where they are the driver's (`rx_in`, `tx_out`,
`irq_enable`, `host_inactive`...).  `enabled` and `ac` are bits of the device's
control register; `rx_fifo` and `tx_fifo` are its FIFOs.  `pc`, `loc` and `ret`
are the position, the locals and the last result of the routine the foreground is
in; `isr`, `wi`, `space` and `avail` those of the interrupt routine.  The rest is
history: what was sent, received, accepted and transmitted, and whether the
timeout was reached since the current call began.

A step of the foreground is a maximal piece of code with one access to state the
interrupt routine shares: reading the two indices and choosing the chunk
(`ReadChunk`, `WriteChunk`), each byte of the `memcpy` (`ReadCopy`, `WriteCopy`),
storing the index (`ReadAdvance`, `WriteAdvance`), leaving the spin loop and
looking again (`ReadSpin`, `ReadRecheck`, `WriteSpin`, `WriteCheck`), and the
section with interrupts disabled (`ReadEnable`, `WriteEnable`).  `ReadChunk`
reads both indices in one step: `rx_out` has no other writer.  A step of the
interrupt routine is one pass of one of its loops.  Interrupt routines do not
preempt one another (`IrqDispatch`: neither calls `alt_irq_interruptible`), so
`isr` is one variable.

A character is its position in its stream: the driver never looks at the value.
`Copied` and `Advanced` are the routine's locals after a byte and after a chunk;
`ReadLoopEnds` is the three ways out of the inner loop of read.  The model keeps
only those locals that are live.  `Traffic` bounds how many characters are sent
and accepted, as pairs.

When `alt_alarm_start` fails, `timeout` is `INT_MAX` and no callback runs; `Init`
has both cases, although `test0_bsp`, which alone builds this driver, starts its
clock before the UART.

### JtagUartSmall

One step per access to the device: a read of the data register (`ReadData`, or
`ReadEnd` when there is nothing and the routine gives up), a read of the control
register (`WritePoll`) and a write of the data register (`WritePut`), which the
device drops when its FIFO is full.  A poll that finds nothing changes nothing.
The host sends, takes, leaves and comes back at any time.

### IrqDispatch

Level 0 is the program; each exception puts a level on top.  `frame` has the
position and the locals of every level: the pending word it has read (`active`),
the line it serves, the entry it called, the contexts of its critical sections
(`saved`), and for a handler that called `alt_irq_interruptible` the mask to put
back (`old`).  Registration is five steps (disable, handler, context, mask,
restore) so that an interrupt may come wherever the code would let it; that none
comes is a property and not an assumption.  `Raise` and `Quiet` move the lines
at any time, whatever the CPU does: a driver masks its device, or a device
withdraws its request by itself.  So a request may go away between the exception
it caused and the test for an interrupt, which then takes the exception for an
instruction's (`unknown`), or between that test and the read of the pending word,
which the scan then searches for ever: `alt_irq_handler` does not test the first
word it reads, only those of later passes (the variant with the custom instruction,
`alt_irq_handler.c:105`, tests all).  `Spurious` is either, and the CPU does not leave
it.  Both happen within a dozen steps in the instance of `irq_dispatch`; the code's
authors put them down to broken hardware (`alt_exception_entry.S:298`), so that none
comes is no property but a premise of the one about liveness.  Handlers of the lines in
`Nesting` may let others in; `EnableNested` says whether anybody enables or
disables lines while one does.  Callers enable only lines that have a handler,
and `alt_irq_handler` returns with PIE on, as the exception found it.

### AlarmTick

`next` and `previous` are the links of the list, `Head` its head.  `Start` and
`Stop` are one step each because they disable interrupts; a callback is the time
between `Scan` and `CallbackReturn`, in which `StartInCallback` and
`StopInCallback` may happen any number of times.  `alarm` and `saved` are the two
locals of `alt_tick`.  `registered` and `wait` are history: which alarms are due,
and in how many ticks.  The tick count, the times and the intervals are words of
`W` bits and wrap.  `Stoppable` says which alarms a callback may stop.

### FdTable

One step per call: the HAL is single threaded and no interrupt routine opens
anything.  `redirect` counts the start-up redirections; calls begin when they are
done (`Main`).  `fd_flags` is a set: `EXCL` and `DEV` are the two bits the HAL
keeps there, `NONBLOCK` stands for those callers may set.  Callers pass open
descriptors or a negative one.

### TimeOfDay

Words have `W` bits and a second `US` units, so that a product overflows after a
few ticks and the arithmetic, casts included, is the code's.  `gettimeofday`
changes nothing: `Gettimeofday` is what it would return in a state.

### Profile

Level 0 is the program and level 1 an interrupt routine compiled with `-pg`.  A
step is one access to what the levels share: the search for a function and for
an arc (entries are only added at the heads, so a search sees the list its head
had), the load and the store of a count, the test and the clearing of
`pcsample_need_init`, and the section of `__mcount_record` as a whole.  `sbrk`
stays two steps, so that its own section (`Masked`) matters.  `calls` is history.

### The cores

A step is an edge of the clock, with every register computed from the old values,
as nonblocking assignments do, and new inputs.

`SpiFsm`: a bit of the ADC is its position in the frame; a bit left over from an
earlier frame is `Stale`.

`FecClient`: a byte is its position in the stream and a sum, which the code
builds with exclusive or, is a set to which bytes are added modulo two.  An edge
of the stream's clock and one of the transmitter's are separate actions; at most
`MaxSkew` of the first pass without one of the second.  The gap between strobes
and the place of the first sync byte are free.  `whole` and `owed` are history: a
frame is judged whole only from the second on after the start or a reset, because
the first has a row that was begun before.  `synced` tells whether a row has begun.

`SmControl`: `age` is the history variable, the number of enabled clocks since a
packet began.  `SerialMult` keeps the operands of the last start.  Neither
`SerialMult` nor `ReqGrant` has a reset: their registers power up with any value
`Init` allows.

`ReedSolomon`: a behaviour encodes `main.m`'s message, sets some of the symbols to
zero, as `main.m` does, and decodes.  `errors` is history: the places whose
symbol changed by it.  The syndromes are one step, so is each round of the key
equation, because its registers are what can be lost, and so is the rest.  `reg`
holds the columns of `delta` and `ttt` that the next round reads.  `xxbm` and
`gmult` differ in the first root of the code (`j0`), in the key equation (`gribm`
multiplies where the older loop divides) and in the values; what they share is
written once.  Loops are written with `For`, which runs them half by half for TLC's
sake and changes neither their order nor their result (`LoopIs`, `LoopNext`).
`myxor` is the scripts' own exclusive or, bit by bit; `alpha_to` and `index_of` are
computed as the source does it, and `PrimitiveAssumption` says that the polynomial
makes the second table whole.  `RsAssumption` ties the error count of `xxbm` to the
number of coefficients of omega its decoder takes by a literal, `OmegaTaps`: `t` is 8
for the code `main.m` selects, and with another the decoder takes too few or reads
past their end.

## 3. The runs

| run | checks | bounds |
|---|---|---|
| `uart_streams` | `TypeOK`, `ReceiveArmed`, `TransmitArmed`, `WaiterArmed`, `ReadFailsOnTimeout`, `ReceiveIsStream`, `TransmitIsStream` | ring of 3 slots, FIFOs of 2; 5 characters one way, or 3 each way |
| `uart_liveness` | `CallsReturn`, `AcceptedIsTransmitted`, `SentIsReceived` | ring of 3, FIFOs of 1, 3 characters one way |
| `uart_write_error` | `WriteFailsOnTimeout`, violated | 5 characters written, timeout 3 |
| `hal_services`: alarms | `ListIsRegistered`, `NoneMissed`, `NeverEarly`, `StoppedIsSilent`, `AlarmsGoOff` | 3 alarms, words of 2 bits, callbacks stop only their own alarm |
| `hal_services`: descriptors | `LockHolderUnique`, `OpenKeepsPromise` (`OpenRespectsLock`, `LockNotForged`, `FailedOpenLeavesList`) | 6 descriptors, 2 devices |
| `hal_services`: small UART | `CallsKeepPromise` (`ReadKeepsPromise`, `SmallWriteReturns`), `SmallIsStream` | FIFOs of 2, 4 characters each way |
| `hal_services`: clock | `WallClock` | words of 5 bits, 6 units a second, rates of 2 and 3, times set until tick 10 of 20 |
| `hal_services`: profiler | `BlocksDisjoint`, `CallsRecorded` | 2 functions, 2 callers, 3 calls, slabs of 2 entries, a heap of 12 units, one request of 1 unit or of 40 |
| `hal_services` | `HalTypeOK`, the five type invariants | |
| `alarm_early` | `NeverEarly`, violated | an interval of 2^W - 1 |
| `alarm_stop_next` | `StoppedIsSilent`, violated | callbacks stop any alarm |
| `fd_lock` | `LockNeedsSoleDescriptor`, violated | 7 descriptors |
| `settod` | `SetTimeIsRead`, violated | times set until tick 20 |
| `sampler` | `SamplerStartedOnce`, violated | one arc |
| `irq_dispatch` | `IrqTypeOK`, `CalledAsRegistered`, `SectionsExclude`, `OnlyHigherPreempts`, `MaskInStep`, `RequestServed` | 3 lines that go up and down in any state, 3 levels above the program, lines enabled only while no handler lets others in |
| `irq_nesting` | `OnlyHigherPreempts`, violated | the same, with `EnableNested` |
| `rtl_cores`: SPI | `DataIsOneFrame`, `FramesComplete` | divider of 3 bits, the real frame of 16 clocks and 12 bits |
| `rtl_cores`: FEC | `ColumnsSummed`, `HandedOverOnce` | packets of 2 bytes, rows of 2 packets, frames of 3 rows, skew 3, one reset |
| `rtl_cores`: stage | `BatonPassed` | counter of 3 bits, packets of 7 |
| `rtl_cores`: multiplier | `SerialProduct` | the real 8 bits, 7 values for each operand |
| `rtl_cores`: grant | `GrantReleased` | none |
| `rtl_cores`: Reed-Solomon | `RibmDiscrepancy`, `RibmCorrects`, `BmLocates` | the real code of 255 symbols, 239 of them data, over GF(256); every subset of ten places |
| `rtl_cores` | `RtlTypeOK`, the six type invariants | |

*Why these bounds are enough.*  A ring of three slots holds two characters: it can
be empty, half full and full, wrap within one call and split a chunk at the end of
the buffer; five characters take the indices round it more than once.  A FIFO of
two tells "one left" from "empty" and a threshold of one from an empty FIFO.
Requests of 0, 1 and 3 are nothing, less than the ring and more than the ring.
`IntMax` is 5: the timeout can lie below, at and above the largest count of
`host_inactive`.  Both directions together share the enable bits, the control
register and the inactivity count, which three characters each way bring into
every combination; the liveness run takes each direction alone.  The proofs have
no such bound.  Two-bit words roll over every four ticks, with every interval and
period the code handles; three alarms make a first, a middle and a last one.  Six
descriptors leave three beyond the standard ones: the highest, the one the lock's
search leaves out, and one below a gap.  With words of five bits and six units a
second the 32-bit product of `settimeofday` overflows at the eleventh tick or
later, for either rate; the pass run stops setting the time before that and the
violated run does not, which is the only difference between them.  A heap of
12 units runs out in the middle of the profiler's requests, and a request of 40 can
never be met; after the profiler was refused memory `BlocksDisjoint` claims nothing,
because `alt_gmon.c` ignores the error and goes on with a block at -1.  Three calls of
`mcount` are two interrupted by one that takes the same arc, the same function
or another.  Three lines and levels make a middle handler that is interrupted
from above and interrupts below.  A frame of three rows has a first row that is
stored, and a middle and a last one that are added; a skew of three lets
either clock be the faster one.  `FecAssumption` allows a skew of half a frame,
`2 * MaxSkew <= Frame * MinGap`, and the proof covers all of these; for the frame
of this run that is 12, and with 13 TLC finds a flag that comes too late, so the
assumption cannot be weakened.  The real frame of 5264 bytes is far from it.
The ten places of the Reed-Solomon run are the eight that `main.m` overwrites, three
of them in the parity, and two more: all 1024 words from none to two errors too
many are decoded by both models.  The two more were chosen so that some of these
words have a round whose discrepancy is zero before all errors are found and a
later one where it is not; without such a word a decoder that lengthens the
locator whenever the discrepancy is not zero would pass.
Beyond eight errors a decoder may fail, and nothing is claimed of the word.

*Deadlock* is not an error for the UART drivers, nor for the bench that holds the
small one: a blocking read with no characters and no caller left really stops,
and so do bounded counts of ticks and calls.  In `irq_dispatch`, `irq_nesting`,
`rtl_cores`, `fd_lock` and the alarms' runs it is checked.

*Fairness.*  Strong fairness of the UART's foreground, interrupt routine and
alarm: there is one CPU, so each is interrupted again and again, and each gets the
CPU back because interrupt routines end.  Weak fairness of `HostTake`: a host that
stays connected empties the FIFO; a host that does not is `HostLeave`.  Nothing is
assumed of callers; `SentIsReceived` is about callers that go on reading, which
it says itself.  In `AlarmTick`: the timer runs, its interrupt is taken,
`alt_tick` goes on, and callbacks return.  In `JtagUartSmall`: the program goes
on, and a host that is there again and again takes what is in the FIFO; whether
it comes back is a premise of `SmallWriteReturns`.  In `IrqDispatch`: the CPU
runs; it takes a pending interrupt if they are on again and again; critical
sections end; handlers serve their device, keep others out again and return.
`RequestServed` asks that the lines above stop asking, since the dispatch is by
priority and may starve the others, and that no interrupt is spurious, since the
CPU hangs after one.  Nothing else is assumed of the lines, and the safety
properties are checked and proved with spurious interrupts.  In `SpiFsm` and
`ReqGrant`: the clock runs.

### What the violated runs show

`uart_write_error`: a blocking write that copied nothing gives up after the spin if
`host_inactive` is not zero, even when room appeared and the timeout is far off
(`altera_avalon_jtag_uart_write.c:187`); its error is commented "Host not
connected".

`fd_lock`: `alt_fd_lock` searches below `alt_max_fd`, which is the highest
descriptor and not their number, and grants the lock while that descriptor refers
to the device.  That no two descriptors can nevertheless *hold* a lock is
`LockHolderUnique`, and is proved.

`alarm_early`: the largest interval makes the time of an alarm equal to the current
count, which is not seen as a roll-over.

`alarm_stop_next`: `alt_tick` saves the next alarm before a callback; stopping that
alarm in the callback does not keep the walk from it.

`settod`: `settimeofday` multiplies ticks by microseconds in 32 bits and
`gettimeofday` in 64.  With 10 ticks a second the product passes 2^32 after 71
minutes; a time set later is read back with another fraction.

`sampler`: the flag that keeps the profiler from starting its sampler twice is
tested and cleared with interrupts on.

`irq_nesting`: `alt_irq_enable` and `alt_irq_disable` write the enabled lines to
`ienable` and forget the mask of the handlers in progress; a handler that lets
higher priorities in is then interrupted by lower ones, its own line included.

## 4. The proofs

All theorems hold for every value of the constants that satisfies the assumptions
of the module, and without the bounds of the runs.  A few assumptions say of a
power of two what TLC computes and the provers cannot, because it needs the
definition of exponentiation: `AlarmAssumption` that `2^W` is a number above 1,
`SmConstantsOK` that `2^Width` is a number, `TimeAssumption` that `2^WordBits` is
twice the power before it, `MultAssumption` that each power up to the word's width
is twice the one before.

**JtagUartProofs.**  The invariant `IInv` adds to the properties what the locals of
a routine in progress say of the shared state: the foreground's copies of `rx_out`
and `tx_in` are exact, and its copies of the other two indices are old but safe,
because the interrupt routine only makes more characters or more room available
(`Reading`, `Writing`, and the lemmas `ReadChunkLenGrows`, `WriteChunkLenGrows`);
the interrupt routine disables reception on a full ring only (`Receiving`).
Without `Reading`, a read that found the ring empty could be thought to wait on an
old `rx_in`; with it `ReceiveArmed` is inductive.  Theorems: `TypeCorrect`,
`ReceiveStaysArmed`, `TransmitStaysArmed`, `NoLostWakeUp`.  For
`ReadsFailOnTimeout` the history `quiet` is tied to the count it remembers
(`TimeoutSeen`), and a read that has left its loop and finds `rx_in` where it was
can only have left because of the timeout (`GivesUp`): a character that came in
between would have moved `rx_in`, and a ring that was empty cannot fill so far
that it is back where it was.

*Streams.*  That nothing is lost, doubled or reordered is a statement
about whole sequences, and is proved place by place.  `SInv` adds three parts to
`IInv`.  `RxPlaces`: the slot `d` after the oldest unread one holds the character
that is `d` later in the host's stream, and the receive FIFO goes on where the ring
ends; a read in the middle of its `memcpy` has taken the characters up to
`RxCopied`, wherever `rx_out` still points.  `TxPlaces` is the same for the other
direction, with the slots a write has filled and not yet published counted in.
`RoomKnown`: the host only takes characters out of the transmit FIFO, so the room
the interrupt routine has read from the device is still there when it writes and
the device never drops a character.  `ReceiveKeepsOrder` and `TransmitKeepsOrder`
follow, and with the lemmas on consecutive numbers (`RunConcat`, `RunGet`,
`RunPut`) so does the refinement: `ReceiveImplementsStream` and
`TransmitImplementsStream` go through the actions and show each to be a `Put`, a
`Get` or a stutter of `ByteStream`.

**IrqDispatchProofs.**  `IInv` says what each level's place implies for the one
state all share.  `Below`: a level that is not on top was interrupted in code
that may be, outside every section.  `PieMeans`: PIE of the running level is what
its place and its sections say, and `SavedMeans`: of the contexts its sections
saved, only the outermost may say "on", so that only the outermost end opens the
CPU.  `EntryMeans` follows an exception from its entry to the scan: with interrupts
off no other code runs, so whatever the lines do meanwhile, those it reads as pending
are still enabled when one is picked; here the minimum of a set of lines is needed
(`LowestIs`).
`TableMeans` and `CalledMeans`: an enabled line has a whole entry, except in the
middle of a registration, in a section, and what was called was whole.  From it
follow `IrqTypeCorrect`, `SectionsAreExclusive` and
`HandlersAreWhole`.  None of them assumes anything of the lines.  `NestInv` adds, with `EnableNested = FALSE`, that the masks
which the levels below have saved grow from the top down and that `ienable`
follows them; `PrioritiesHold` and `MasksFollow` need that assumption, and
`irq_nesting` shows that the first does.  For `MasksFollow`, `MaskIsLetIn` shows that
of all handlers that let others in the last has the highest priority, so that its
mask says what all of them say.

**DeviceProofs.**  Of the descriptors, `FdIInv` says that the holder of a lock is
the lowest open descriptor of its device but for the highest one, that `DEV` marks
only descriptors above the standard ones, and that nothing is held before `main`:
`FdTypeCorrect`, `StdStaysReserved`, `HighWaterCorrect`, `LockHolderIsUnique`,
`OpenFindsLock`.  For what `open` promises that is not enough: an open that fails
takes a descriptor and gives it back, and leaves the table as it was only if every
free descriptor is as the table has it at start-up.  `TableInv` adds that
(`FreeIsUnused`), `ListStep` says what one step can do to the table, and
`OpenPromiseKept` has the three promises together.  Of the polled driver,
`SpaceSeen` is the invariant: the room a write saw in the control register is
still there when it writes the data register, because the host only takes
characters out.  From it no character is dropped, and each step is a `Put`, a `Get`
or a stutter of `ByteStream` (`SmallImplementsStream`); `ReadPromiseKept` is about
what a read returns.

**HalProofs.**  *Alarms.*  Two conditions are assumed, and the violated runs show that
both are needed: `IntervalsFit` (no caller asks for the largest interval) and
`StopsOwnOnly` (a callback stops no alarm but its own).  Its invariant states
the shape of the list without following it: there is a `rank`
that grows along `next` and misses nobody (`Orders`), and every link has its
inverse (`Linked`).  Putting an alarm in gives it a rank below all others
(`InsertOrders`); taking one out changes no rank (`RemoveOrders`).  With the rank,
the alarms the walk has still to come to are those not below the cursor (`Unseen`),
also while a callback starts new ones at the front.  `Timed` then ties each
alarm's time and roll-over flag to the ticks it has still to wait: the flag is right
as it stands for an alarm the walk has passed and right once `RolledOver` has
cleared it for one it has not, and an alarm with nothing left to wait is ahead of
the walk or in its callback.  `NoAlarmIsMissed`, `CallbacksNeverEarly` and
`StoppedStaysSilent` follow, `ListStaysWhole` is the shape of the list itself.
`ListIsRegistered`, which a run checks, does follow the list, entry by entry from
the head: `WalkVisits` shows by induction that the first m entries are the m
registered alarms of the lowest ranks (`Visited`), and a set of that many is all
of them (`ListIsAsRegistered`).
*Memory.*  `BlocksStayDisjoint` is proved from `HeapKept`: as long
as nothing was refused, the blocks handed out and what is left of the slab lie
below `heap_end`, inside the heap, and apart.  `Taking` is why calls at two levels
do not break it: between the two halves of `sbrk` interrupts are off
(`FramesOK`), so `heap_end` is still where the first half found room.
`CalledArcsAreListed` says that an arc whose call has ended is on the lists;
`FrameOK` keeps, of what a search has remembered, that lists only grow and that an
entry never changes its function.
*Counts.*  `CallsAreRecorded` needs in addition that a level that has loaded a
count stores at most one more than what is there now (`Loaded`): the interrupt may
have counted in between, and a count may so be lost but not doubled.  Copies of an
arc that both levels added are summed, and the sum never exceeds the calls
(`CountsFit`).  *Time.*  `WallClockIsTrue` follows from `TimeKept`, which says what
`alt_resettime` is in terms of the time that was set and the tick count then.  It
assumes that times and seconds fit in a `long` (`SecondsFit`) and that a time is
set before the microseconds since reset overflow 32 bits (`SetEarly`); the run
`settod` shows that the second is needed.  *The bench*: `BenchRunsEach` and
`HalTypesCorrect`.

**RtlProofs.**  *SPI.*  `CountsAgree` ties the bit counter to the falls of the clock
the ADC has seen in each state, and says that a frame is only entered at its
beginning, whatever `start` does; `SamplesHeld` follows the sampled bits through
the shift register and the interrupt pipeline to `data`.  `DataIsWhole` then holds
for every width of the divider and of the data that fit a frame
(`DataBits <= PkgSize - 4`).  *Stage.*  The counter is one less than the age of the
packet under way, and rests at zero without one: `BatonIsPassed`.  *Hand-over.*
The flag of a frame goes through `Nothing`, `Raised`, `Seen` and `Cleared`, and in
each the frame begun since has an `Age` of so many clocks at most; a frame outlasts
them all, so the next one cannot end on the way: `FramesHandedOver`.  *Column sums.*
`SumsGrow` says that every column of the writer's bank that has had a byte of the
frame holds exactly the bytes it has had; the byte counted last is still on its way
(`InFlight`) and is stored as the first of the next frame.  `Aligned` is why a
column is always the same place of a row: from the first row on the address is in
step with the packets, and a row ends in the last column and nowhere else
(`RowEnds`).  When the bank changes, `SumsGrow` of the one is `SumsDone` of the
other.  That a column then has exactly one byte of each row is counted by a
bijection (`ColumnIsSum`): `ColumnsAreSummed`, for every size of a packet, a row
and a frame.  *Multiplier.*  After k bits of B the product is what those bits make
of A, short of it by what the shifts of A have lost, and modulo the word
(`Rounded`).  Each bit loses less than one unit, so the error bound of
`SerialProduct` is the number of bits: `ProductIsRounded`.

*The bench*: `BenchRunsCores` and `RtlTypesCorrect`.

**GaloisFieldProofs.**  What an algebra book takes for granted about the field has to
be proved of the tables the scripts build.  `LoopIs` shows, by induction on the
stretch, that `Loop` gives the end of the one walk through its rounds, and
`LoopNext` that one more round adds one more step: every later fact about a loop
rests on these.  `myxor` of n bits is a group operation (`MyxorAssociates`,
`MyxorZero`, by induction on n from `Halving`).  That the powers of the generator
reach every element (`PrimitiveAssumption`) makes them all different
(`PowersDiffer`) and makes them come round after `GF - 1` (`PowersWrap`; the
doubling is one-to-one because the polynomial is odd, `PolynomialOdd`), so products are
sums of exponents modulo `GF - 1` and obey the laws of a group.  `DoubledSum` is
where the two meet: doubling, with its reduction, is linear, and by induction on
the exponent so is every product (`MultDistributes`).  Over this field come the
facts about polynomials the decoders need: no more roots than the degree
(`RootsFew`), division by a root (`RisingQuotient`), that a polynomial with
as many roots as its degree has no double one (`RootsSimple`, `DerivativeIs`), and
that a few places with locators of their own cannot have as many consecutive power sums
all zero (`Vandermonde`).

**ReedSolomonProofs.**  *Encoder.*  The loop that multiplies the generator
polynomial keeps its roots and the shift register divides by it, so the word has
all of them: `CodewordChecks`, for every message.  *Key equation.*  `gribm` keeps
the discrepancies of the locator and the locator itself in one register that
moves down.  The invariant `KeyEquation` names what the register stands for: two
polynomials `lam` and `b` and a length `L` such that every cell of `delta` is a
coefficient of the product of `lam` with the syndromes, extended by a one where the
register holds its seed, and every cell of `ttt` one of `b`.  The two never overlap
because `lam` has no more than `L + 1` coefficients and `b` no more than
`r - L + 1`.  Two more conjuncts carry it through the rounds: the coefficients
from `L` to `r - 1` are zero, and the last one of `b` is `gamma`.  That `L` stays at
or below the number of errors, which the register does not say, is the classical
argument: a round lengthens the locator to `r + 1 - L`, and were that more than the
errors, `r - L` power sums in a row would vanish over no more places than that, and
the discrepancy with them (`Vandermonde`).  `DiscrepanciesHold` and the types of the register follow.
*Correction.*  After `T` rounds the polynomial has the errors' locators for roots
and no other (`RootsAreErrors`), the low end of the register is the omega
of the code (`OmegaValue`), and the quotient of omega and the derivative at a root,
with the power the script multiplies by, is the wrong part of the symbol
(`ErrorValueIs`, `RootsSimple`): `ErrorsAreCorrected`.  *Types.*  `RsTypeCorrect`
asks nothing of the number of errors: whatever word comes, the sums and
quotients stored are elements, and a decoder that goes on to correct never divides by
zero, because it has found as many roots as the degree.  *Older loop.*  `gmult` keeps
its locator from before it last grew, divided by that round's discrepancy, and its
lengths instead of `k`.  It is proved by simulation: `BmFollows` says that there are
registers of `gribm`, run on the same syndromes, whose `lam` is the locator of
`gmult` up to a factor and whose `b`, one place up and divided by `gamma`, is what
it has kept.  Because its code starts at the power zero its syndromes are those of
other error values at the same places (`Lowered`), so the places it finds are right,
which is `OlderLoopLocates`, and the values are another matter (section 6).

**Induction.**  The library's induction theorems take an operator as a parameter,
which no installed prover instantiates.  `SetInduction` takes a set instead: a set
that has 0 and with n also n + 1 has every natural number, proved from the
library's well-founded minimum.  From it come the walk along a list
(`ChainExists`) and what is needed of the community modules' `SumFunction`, whose
`CHOOSE` takes the summands in some order: that the order does not matter
(`TotalsInAnyOrder`), bounds (`SumBounds`), and what one changed or new summand
does (`SumsDiffer`).  It also holds what the proofs need of division and remainder.

## 5. Only model-checked

Liveness under fairness, which the prover cannot reach: `CallsReturn`,
`AcceptedIsTransmitted`, `SentIsReceived`, `AlarmsGoOff`, `RequestServed`,
`FramesComplete`, `GrantReleased`, and of `CallsKeepPromise` the half that is
`SmallWriteReturns` (the other half, `ReadKeepsPromise`, is proved).  Every
invariant and every action property that a passing run checks is a theorem.  That
the constants of a run satisfy the assumptions, `PrimitiveAssumption` of the real
polynomial among them, is what TLC evaluates.

## 6. Not modelled

*Parts.*  The stream RAM is AHDL around vendor megafunctions whose timing the
repository does not fix.  The Avalon RAM and register and the small library parts
are a single assignment each.  `lowpassfir` waits for a `mult8x8`, and the
transmitter of the FEC client is built from `reGenerator` and reads a
`fec2_dpram`; none of the three is in the repository, and a model would be a
model of guesses.  Of the Reed-Solomon scripts, `ibm`, `ribm`, `pribm` and
`bm` are called by none, `__depr/mlab` holds other copies, and the files and the
hexadecimal text they read and write carry no logic.  The timer application is
one registration, after which only its interrupt routine does anything; it writes the timer's
registers at `SYS_TIMER_IRQ` where the base address is meant (`hello_world_small.c:123`), so
the period it sets does not reach the timer, which no property of a protocol
would say.  Learning notes, tools and the vendored `deModel-0.2` have no core
logic.

*How much of the repository that is.*  Most lines counted as implementation are
the two copies of the HAL, of which the models map one, and in them licence
comments, register definitions, system calls that only return an error, debug
output that is compiled out and assembly that saves registers.  Beyond these are
learning exercises, scripts and the packet headers of the FEC client.  The parts
with state and order are the ones above; mapping more lines would mean mapping
lines that no definition stands for.

*Within the modelled parts.*  Character values, formatting and logging; the
multi-threaded variants (`__ucosii__`), the external interrupt controller, the
exception stack and stack checking, which the BSPs do not configure;
`ALTERA_AVALON_JTAG_UART_IGNORE_FIFO_FULL_ERROR`, which neither defines.
`host_inactive` and `timeout` are not volatile: the spin loops read them afresh
because `test0_bsp` is built `-O0`, and the model does the same.  Time zones;
the profiler's histogram once it is started; the codes of the other cases of
the Reed-Solomon `main.m`; the port of the FEC client's RAM
that the transmitter reads.

*Two weaknesses of the Reed-Solomon models that no property states.*  `gmult`'s
values (`gmult/src/rs_decoder.m:198`) are those of a code whose first root is the
first power of the generator, and its coder and its syndromes start at the power
zero: every place it finds is right, which `BmLocates` says, and every symbol there
but the last one of the word gets a wrong value.  `xxbm` takes eight
coefficients of omega by a literal (`OmegaTaps`, `rs_decoder.m:144`), which is
right for the code `main.m` selects and not for its other two, `t = 3` and
`t = 24`.

## 7. Plan

1. Done: the fast UART driver with its abstract stream, the alarms, the descriptor
   table, the SPI master; their safety proved.
2. Done: the interrupt dispatch with its proofs, the small UART driver, the time
   of day, the profiler and the heap, the FEC client up to the transmitter, one
   stage of a pipeline with its proofs, the serial multiplier, the request and
   grant machine, the Reed-Solomon models.
3. Done: proofs of every safety property the passing runs check, for all values of
   the constants.
4. Proofs that remain worth having: the steps of the liveness arguments that are
   action properties, such as what brings a pass of the UART's loops nearer to its
   end.
5. If the sources of `reGenerator`, `fec2_dpram` and `mult8x8` appear: the
   transmitter's side of the FEC client and the filter.
