# pico-thing in TLA+

pico-thing runs on an RP2350 and surrounds a real MC6809 processor, "the guest":
its memory, its two serial ports, its timer, its interrupts and its memory-mapping
register are all emulated by the two cores of the Pico, through PIO programs, DMA
and interrupt handlers, within the 1 microsecond of an E cycle. This directory
holds TLA+ modules of the concurrent core of that firmware, TLC instances that
check them, and TLAPS proofs of every invariant that the instances check.

Paths below are relative to the repository.

## 1. Who runs when

Everything that makes this code hard is in the table of its contexts.

| Context | Code | Preempted by |
|---|---|---|
| The guest | 6809 code, e.g. `chunk/io.asm`; its accesses are served by PIO and DMA without any code of the Pico | nothing |
| DMA handlers, Core 1, priority 0 | `dma_bus_read_irq_handler`, `dma_bus_write_irq_handler` (`src/pico_thing.cpp`) | nothing on Core 1 |
| GPIO and PIO handlers, Core 1, priority 1 | `gpio_clock_eq_irq_handler`, `pio_rti_irq_handler` | the DMA handlers |
| Timer callback | `tick_timer::callback`, on the default alarm pool of the SDK, whose interrupt is Core 0's (the documents have Core 1) | nothing; runs beside Core 1 |
| The `for(;;)` loop of Core 1 | `main_core1` | every handler of Core 1 |
| Core 0 | console, USB, `mc6809::uart_task` | runs beside all of them |

The handler of an access runs after the guest's access is over and before its next
one to an emulated register; in between, the guest has already seen, or stored,
the register's byte. Slow work is put in a ring (writes) or a counter (reads) by
the handler and done later by the loop: a control word of the serial port, for
example, acts in the handler (RTS) and acts again in the loop (the rest).

## 2. Inventory

For each part: its state, its operations, what it meets, and what makes it correct.

**SpscQueue** (`include/mc6850.h`). A lock-free ring with two atomic indices; `put`,
`get`, `has_space`, `has_bytes`, `get_level`, `reset`. One producer and one consumer,
on different cores; the operations test nothing, their callers do. Correct when no
slot is used by both sides at once, a credit read once stays good for a batch, and
bytes come out once, in order.

**ACIA, `mc6850`** (`include/mc6850.h`, `src/mc6850.cpp`). Two queues, the status
flags, the mode bits, `irq_dirty` and two caches, the status and data registers.
Shared, without a lock, by the loop (`has_interrupt`, `guest_control`,
`guest_transmit`, `guest_receive`), by the DMA handlers (`rx_read_fast_path`,
`write_received`, `control_written_isr`) and by Core 0 (`host_transmit`,
`host_receive`, `set_host_cts`). Correct when a polling guest and the USB host
exchange every byte once, flow control holds, no change is missed because of a
cached answer, and what must eventually happen does.

**USB-UART pump** (`mc6809::uart_task`, `uart_port_pump` in `src/mc6809.cpp`).
Batches between the USB buffers and the queues of both ports.

**Write ring** (`write_ring` in `src/pico_thing.cpp`). The handler pushes, the loop
drains, and when the ring is full the handler moves the tail, which is otherwise
the loop's. The MODIFY command is a second producer, on Core 0, without a lock.
Correct when a write is dispatched once, whole and in order, and when dropping takes
the oldest.

**Tick timer** (`src/tick_timer.cpp`). `enabled`, `irq_pending`, `nmi_countdown`, a
status register. Callback, `control`, `acknowledge`, `reset`, `has_interrupt`.

**Interrupt pipeline** (`main_core1`, `gpio_clock_eq_irq_handler`). Four sources,
`pending_interrupts`, the three pins. Correct when an interrupt reaches its pin,
leaves it when served, and never flickers for one device because another was served.

**Task stacking and RTI** (`src/mc6809.cpp`, `gpio_clock_eq_irq_handler`,
`pio_rti_irq_handler`). The Pico follows the guest's interrupts by its BA and BS pins
and its RTI by the opcode on the bus: a stack of tasks, a depth, a countdown.
Correct when every context of the guest runs in its own task.

**Bus trace** (`include/mc6809.h`, `gpio_clock_eq_irq_handler`). A one-shot buffer,
armed by the console, the guest or an interrupt vector. Correct when it holds
consecutive cycles and stops at its end.

**Run control** (`start`, `stop`, `halt`, `setup`, `start_with_timeout`, the RESET and
HALT pins in `src/mc6809.cpp`; `snippet_copy`, `copy` in `src/pico_thing.cpp`). Core 0 writes a
snippet into guest memory, points the RESET vector at it, releases RESET, polls
`run_state` for SYNC and asserts RESET again; `run_state` and `bus_state` are the GPIO
handler's view of the pins, one cycle late, and Core 0 decides by them. Images are
copied 16 bytes at a run. Correct when no run inside a command is refused because of a
stale `run_state`, a run reported finished was, and an image is started only when whole.

**Console and S-record loader** (`process_command`, `poll_console`). Commands as sequences
of the above; the state `break_active` and `srecord_ignore`.

**Watchpoint** (`MONITOR`; `pico_thing.cpp:418`, `:2036`, `:2266`). The guest asks for it through
the write ring; the loop of Core 1 rewrites snippet block, NMI vector and
`watchpoint_armed` in order; the handler blocks writes and raises NMI; the snippet BREAK
fills the shared buffer; the console polls that buffer. Correct when the request is of
this run, an armed NMI leads to BREAK, and a hit is reported.

**Power and Core 1 bring-up** (`main`, `set_power`, `reset_power`, the stages of `main_core1`).
DMA channels, state machines, program memory and the alarm, claimed on both cores and
given back on Core 0; `core1_initialised`, `core1_loop_count`. Correct when nothing
claimed is leaked and the guest is out of RESET only where its bus is answered.

**Watchdog** (`pico_thing.cpp:1938`). Core 0 samples `core1_loop_count`, when the console is
idle. Correct when a stalled loop is reported.

**System requests** (a BUSY handshake between the guest, the loop and the console), **register
file, USB device, PIO programs, status protocol, guest programs, host tools, hardware
equations**: arithmetic, generated, read-only or below the level of the model;
`PROJECT.json` gives a reason for each.

How they meet: the handlers, the loop and Core 0 share the ACIA (Acia); Acia's queues
are SpscQueues (their refinement of a FIFO is what lets Acia treat them as
sequences, and from end to end it is a FIFO again); the write ring carries the guest's writes to Acia and to the watchpoint,
the requests and the trace; Acia's and the timer's answers feed the pipeline
(Interrupts); the pipeline's pins make the guest take the interrupts Tasks follows. Run
control releases and resets the guest under all of them (Tasks and BusTrace have its
`start` and `stop`), Console composes it with the commands and the watchpoint, and Power
brings up and kills the Core 1 that all of them run on.

## 3. The modules

`Slip: ...` above an operator marks a deliberately wrong variant of the operator that
follows it. No specification uses one; each is there so that replacing the real
operator by it shows that a property can fail.

### Fifo, SpscQueue

`Fifo` is the promise: a bounded sequence. `SpscQueue` is the code, one step per access
to `head`, `tail` or `buf`: `CheckSpace`, `LoadHead`, `StoreByte`, `PublishHead` are
`put()` after its caller's test, `CheckBytes`, `LoadTail`, `ReadByte`, `PublishTail` are
`get()`. The indices are released and acquired, so the interleaving of these steps is
all there is. `IsFifo` instantiates `Fifo` with the bytes from `tail` to `head`. `reset()` is not
in it: what the proofs and Acia say of a queue holds between two resets that do not meet an
operation of the other core (section 6).

### Acia, MCAcia

One object and everybody who calls it. `pc` names the loop's next statement: each of
its accesses to a field that another context can see is an action (`HiTest` ...
`HiReturn` are `has_interrupt()`, `Sync...` are `sync_status()`, `gc`, `rs`, `gt`, `gr`
label the four deferred calls). `RxReadIsr`, `TxWriteIsr` and `ControlIsr` are the
handlers, whole, since nothing preempts them on Core 1. `PumpReads` ... `SetHostCtsDirty`
are Core 0, whose `irq_dirty = true` is a step after the change it announces.
`ReadStatus`, `ReadData`, `WriteData`, `WriteControl` are the guest; like `OUTCH` and `INCH`
of `chunk/io.asm` it reads data only after RDRF and writes only after TDRE.

`TxIsFifo` and `RxIsFifo` put the port between its two ends: each direction, with handler, write
ring, queue, data register and flow control, is one `Fifo`, whose queue is what the far end is
owed. Its capacity is the promise of flow control: two bytes above CTS_THRESHOLD out,
one above the queue in.

Abstractions. The k-th byte each side sends is k. The write ring is a sequence that
never overflows here. `SyncBuild` reads the fields in one step, and so does `HiReceiveIrq`,
whose only other reader and writer is a handler that clears both. `HostTransmit` tests for
space at each put, where `uart_port_pump()` reads the free space once for a batch:
`CreditIsSound` of SpscQueue is why that is the same. `ResetQueues` is one step and is the
loop's; the `reset()` that Core 0 runs on GO (`src/pico_thing.cpp:1222`) and at power-up is not in
Acia. `Quiet` is a set of statements of the loop at which no DMA handler lands: it is an
assumption, empty unless a run says otherwise; section 6 says what happens without it.

### WriteRing

`WriteIsr` is the push; `TestEmpty`, `LoadTail`, `ReadLocation`, `ReadValue`, `StoreTail` are
the drain, and `PushLoad`, `PushTest`, `PushDrop`, `PushEntry`, `PushPublish` the MODIFY command's push on
Core 0; the handler may run between any two of all these. `overtaken` and `raced` are
history variables: the tail was moved twice while the loop was taking one entry; the
handler ran in the middle of a push of MODIFY, or the loop took an entry between its
test for a full ring and its drop.

### TickTimer, Interrupts

`TickTimer` has every store of `callback()`, `control()`, `acknowledge()` and `reset()` as a step. The
callback is an interrupt of Core 0, so it runs beside the handlers of Core 1, between any
two of their stores, and preempts `reset()`, which the console runs on Core 0. `Interrupts`
extends it with the console, two ports (only the answer of their `has_interrupt()`: `Acia` has
the rest), the loop that asks the four in turn, one at a step, and stores
`pending_interrupts`, and `QRise`, the handler that sets the pins. `pins` and `pend` are sets of
lines, all of which `QRise` asserts and deasserts at once.

### Tasks

Time is the E cycle. `QRise` is the GPIO handler: BA and BS into `busState` and `runState`,
the vector fetch pushing a task, the countdown. `ApplyRti` is the RTI handler. The
guest executes, writes the task register, takes an interrupt, returns: the lengths of
its cycles come from the data sheet of the 6809 and are external to the code. `mine` and
`interrupted` are what the guest is really doing, kept by the guest; `deep` is history:
the guest has nested deeper than the stack since its reset. `late` is history too: after the
RTI of a short frame the restore is due, and lost if the guest writes the register or is
interrupted before it. `Stop` and `Start` are Core 0's.

Abstractions. SYNC, HALT and the nonmaskable details of the 6809 are left out, so BA
and BS show an interrupt or nothing. `tick_rti_countdown()` is one step. The console's
task command and the RTI of a snippet are left out.

### BusTrace

`QRise` brings `running` (`run_state >= RS_RUNNING`) after RESET, counts the countdown of an RTI
down, arms for a vector and switches the E interrupt; `EFall` and the five `Capture...` steps
are `trace_capture()`, which the DMA handler (`GuestArms`, `GuestStops`) preempts and beside which
Core 0 (`ConsoleArms`, `ConsoleClears`, `ConsoleStores`, one store at a step) runs. Anybody arms at
any time, an active trace too. The word of a cycle is its number. `strays` is history: the
cycles that were RS_RUNNING with RESET asserted, because a countdown ended in them. `torn` is
history: the last arm or clear met a capture, or another arm or clear.

Abstractions. A handler's `trace_arm()` is one step. Whether `nesting_depth` is 0 when the
countdown ends is left open (Tasks has it), and so is which vector is fetched.

### RunControl, Console

Core 0 is a *script*: the sequence of statements it has still to execute. A command of
the console is a script of `Console`, made of the statements of `RunControl` (`start()` is
`assert_stopped`, `setup`, RESET_DEASSERT; `start_with_timeout()` adds the poll, the verdict
and RESET_ASSERT). A failing statement drops the rest, as `break` and `return` do in the
code. Beside each statement run the GPIO handler (`Observe`), the loop's dispatch of a
watchpoint request, store by store (`Take`, `Arm`, `Disarm`), the console's interrupt line
(`Interrupt`), and the guest (`Fetch` ... `TakeInterrupt`), whose program is any program: it may
SYNC, store anywhere, ask for a watchpoint or write to block and vectors. `Held` is what
the hold times of RESET stand for: hundreds of cycles, in which the handler has seen the
pins and the loop has emptied the write ring. `Command` may be typed when the handler has
seen the last command's effect, since a line takes longer to type than a cycle.

Abstractions. Memory is counted in blocks of 16 bytes, what one run of a copy moves, and
a block has a content of a small set, "torn" while it is being copied and after a program
of the guest's own has run. One chunk stands for the chunks, one snippet for the snippets.
RS_RUNNING and RS_IN_IRQ are one state. The write ring holds watchpoint requests alone
(at most `MaxRing`). `Waits` is an assumption: a guest that asks for a watchpoint lets the
request be served before it writes to block or vectors, as `chunk/irq_test.asm` does.
`LoadSnippet` writes the block in one step, where Core 1 arming the watchpoint may copy into
the same block; FILL and ZERO leave the contents as they were (`Finish`), since nothing asks
for them; and GO begins with `start()`: the resets of the ports and the timer before it
(`src/pico_thing.cpp:1222-1224`, `:1231-1233`) change nothing of these modules (section 6 says
what they do to the queues and the timer). `reached`, `asked` and `meddled` are history: the snippet that came to its SYNC, a request since
the last `setup()`, a write of Core 0 to block or vectors under an armed watchpoint.

### Power

`main()`, `set_power()` and `reset_power()` as scripts again; `ClaimMachine`, `ClaimChannels` panic as the
SDK does when there is none; `Stage` is one stage of Core 1's bring-up, `Pass` its loop,
`Starve` a loop that stops and perhaps comes back, `Sample` the watchdog. `Settled` is the 100
passes that `main()` waits for, `Threshold` the 10 misses of the watchdog. `Patient` is an
assumption: the user types nothing between POWER and the message that Core 1 runs.

## 4. The runs

| Run | Instance | Shows |
|---|---|---|
| `spsc_queue` | 4 slots, 2 bytes | `NoSlotRace`, `CreditIsSound`, `IsFifo` |
| `acia` | queues of 2, threshold 0, 4 writes, 3 sends, 2 reads, host stalling at will; no handler between a status byte's building and its publishing, nor between RDRF and data | `TxIsFifo`, `RxIsFifo` |
| `acia_modes` | both interrupts, RTS off, master reset, two control words; handlers anywhere, the host always ready | `NoLostWakeup`, `RtsIsNotStale` |
| `acia_live` | the two loopbacks, two writes, threshold 0, fairness | `RxReachesGuest`, `TdreOrCts`, `ReceiveInterrupts` |
| `write_ring` | ring of 4, 5 writes, of the handler and of Core 0, anywhere | `ExactlyOnce`, `NewestKeptAtPace` |
| `interrupts` | timer, the console asking for IRQ, one port, fairness | `IrqHeld`, `TickIsShown`, `TickReaches`, `IrqReleased` |
| `tasks` | 2 tasks, full frames and short ones, stack of 3, nesting to 4 | `TaskIsRestored`, `StackIsGuests`, `HandlerIsInIrq`, `NestingUnwinds` |
| `bus_trace` | buffer of 3, countdown of 2, 10 cycles | `OneShot`, `TraceIsContiguous`, `FullIsComplete` |
| `console_loads` | images of 2 blocks, the 20 commands that load, run, stop and restart | `NeverRefused`, `RunIsHonest`, `BootsWhatItLoaded` |
| `console_traps` | one request in the ring, the 11 commands that trap or test, fairness | `ArmBelongsToRun`, `TrapIsSafe`, `TrapIsReported` |
| `power` | 2 passes to wait for, 3 misses, fairness | `OffIsOff`, `GuestIsServed`, `StallIsReported` |
| `acia_stall` | two writes, threshold 1, fairness | expected violation of `TdreRecovers`: section 5 |

Why the bounds are enough. *SpscQueue*: four slots let head and tail meet, wrap and
chase each other, and a batch of two or three run into a full ring; two bytes tell
an old byte in a slot from a new one. *Acia*: a queue of 2
above a threshold of 0 is filled, goes above the threshold and drains, and is the least
that holds the two bytes of overshoot; each direction reaches the capacity of its `Fifo`;
two control words are the least with which an earlier word can follow a
later one; in `acia_live` the first byte in tx already turns CTS off, so that the second
write waits for it or goes by a loopback. That `NoLostWakeup` holds with the host stalling as
well is left to the proof. *Interrupts*: one port and the console on /IRQ with the timer are three
sources of one line, any of which may be served while the others wait; the other lines, the
second port and the values of the countdown are left to the proof of `IrqHeld`. *WriteRing*: five writes overflow a ring of four (which holds three) from
every position of the loop and wrap it, with both producers; what is exact for every
size and number is proved. *Tasks*: one level below, at and above the stack's
size, and times counted in the real cycles. *BusTrace*: ten cycles hold two complete
fills of three with arming, reset and clear between any two, and a countdown of two
begins before a RESET and ends under it; every size and number is proved. *Console*: commands come in
any order, for ever, and none looks further back than the memory, the block, the
vectors and the flags it finds; two blocks are a first and a last one, so that every
failure falls into the middle of an image. *Power*: neither the number of power cycles nor
that of commands is bounded; two and three are the least numbers of passes and misses
that are not one. Deadlock is checked except in BusTrace and WriteRing, where the bound
on cycles, or on writes, ends the run.

### Fairness

Acia: the loop is an infinite loop (`WF(Thread)`), the clock ticks (`WF(QEdge)`), a
handler whose access happened runs (`WF(Isr)`), Core 0 finishes what it began, and
takes bytes from tx whenever it comes by again and again (`SF(HostReceive)`: the
console loop calls `uart_task()` on every turn and drains tx at each call, but between
turns tx may have been emptied by a reset). Nothing is asked of the guest or the host.
Interrupts: the loop, the clock, the handlers, a `reset()` once begun, and the callback, which
the alarm pool calls every 20 ms for as long as the timer exists. Priorities
are what the handlers' atomicity stands for; none of the fairness needs more.
Console: Core 0 goes through its script and its turns, Core 1 through its handler and
loop, and a clocked guest takes an interrupt it is given; nobody has to type, and the
guest's program has to do nothing. Power: Core 0, the stages of the bring-up and the
handler go on; the watchdog samples if the console is idle for its interval again and
again (`SF(Sample)`: a command only postpones it). Of the loop nothing is asked, since
its stopping is the question.

## 5. What a run refutes

It states what a document says, and TLC finds the code doing otherwise. `PROJECT.json`
quotes the line.

* `acia_stall`, `TdreRecovers`: `host_receive()` does not set `irq_dirty` (`include/mc6850.h:118`),
  against `docs/virtual-peripherals.md:171`. When the guest waits for TDRE and the host
  empties tx, `has_interrupt()` keeps answering from its cache, and CTS stays on until
  something else happens on the port. The counterexample is a run under the fairness of
  section 4, and everything but the queue and the flag is kept small.

## 6. What the models show besides

Behaviours of the code that the modules above contain, or that follow from the source
directly, and that no run states as a property.

Serial port.

* `sync_status()` in the loop builds a status byte, is preempted by a data read, and publishes:
  RDRF is set for a byte already read, and a guest that polls reads it again
  (`src/mc6850.cpp:70`; `docs/virtual-peripherals.md:118` says that building the byte from scratch
  prevents this). With `Quiet` without `sync.publish` `RxIsFifo` fails.
* `has_interrupt()` sets `receive_buffer_full` before it loads the data register
  (`src/mc6850.cpp:222-224`; `docs/virtual-peripherals.md:151-152` has the other order), and a
  write handler in between publishes RDRF early. With `Quiet` without `hi.data` `RxIsFifo`
  fails. In both of these the guest has to be as quick as the loop is slow, for one access in
  the first and for three in the second: the model has no time and shows the order, not how
  often it happens.
* A GO on a running guest resets rx on Core 0, where the loop on Core 1 may be between
  `has_bytes()` and `get()` (`src/pico_thing.cpp:1222`; `docs/virtual-peripherals.md:101` calls rx
  "Cross-core safe", and `src/pico_thing.cpp:558` says "ACIA resets are owned by Core 1"). The
  get takes an old byte and moves tail past head: the queue comes back full of old bytes.
* A master reset on Core 1 beside `put()` on Core 0: the put publishes the head it loaded
  before (`include/mc6850.h:47`, `:51`), and what was drained is queued again.
  `tests/test_mc6850.cpp:679`, "reset drains all queued bytes", has one thread.
* A queued master reset runs after the handler of a later word that turned RTS off, and
  turns it on again (`src/mc6850.cpp:46`). `RtsIsNotStale` is one-sided for this.
* `guest_receive()` with RTS off clears `receive_buffer_full` even if `has_interrupt()` has
  staged the next byte since the read; that byte is lost (`src/mc6850.cpp:186-190`).
* A master reset empties both queues (`src/mc6850.cpp:52-53`); `docs/virtual-peripherals.md:200`
  says it does not.

Write ring and interrupts.

* The handler drops the oldest entry by moving the tail, the loop then stores its own.
  One drop does no harm (`NewestKeptAtPace`); two move the head onto the stored tail, and
  the whole ring is taken for empty (`src/pico_thing.cpp:427`, `:2188`).
* A handler in the middle of MODIFY's push loses or tears one of the two writes. And
  MODIFY tests for a full ring before it drops: if the loop drains in between, the drop
  throws away an entry that need not go, or its own (`src/pico_thing.cpp:1111-1117`).
* `pending_interrupts` gets PEND_NMI again on every pass while the console asks for it
  (`src/pico_thing.cpp:2174`): several falling edges for one request, against the
  "one-shot" of `src/pico_thing.cpp:226`.
* `acknowledge()` leaves `pending_interrupts` alone (`src/tick_timer.cpp:69-76`), which is
  what makes `IrqHeld` true; `src/pico_thing.cpp:228-230` and `docs/virtual-peripherals.md:265`
  say it clears PEND_IRQ, and with that (`TimerStep_ClearsPend`) `IrqHeld` fails.
* The NMI countdown is armed and never counted (`src/pico_thing.cpp:220-223` is compiled
  out); `docs/virtual-peripherals.md:228` describes it as working.
* The timer's callback tests `enabled` and then stores: disabled in between, it
  interrupts once more; acknowledged between its stores, bit 7 is set with nothing
  pending (`src/tick_timer.cpp:23-26`).
* A whole callback between the two stores of `acknowledge()` (`src/tick_timer.cpp:69-70`) leaves a
  tick pending with bit 7 clear. A handler that asks the register
  (`docs/virtual-peripherals.md:214`, `:287`) finds nobody to serve while /IRQ stays asserted,
  until the next tick, 20 ms later: `TickIsShown` says that much and no more.
* The loop's counter of reads is 8 bits wide (`src/pico_thing.cpp:2379`): 256 reads before
  one pass would count as none.
* An RTI in the last byte of the snippet is reported twice, by the PIO detector and, some
  time later, by the loop (`src/pico_thing.cpp:2409`), and each report unstacks: a breakpoint
  inside a handler would lose the handler's context. Tasks has the detector alone.
* The countdown of the task is 15 for every RTI, which `src/mc6809.cpp:295-296` calls "safe for
  both" frames. It is not: after the short frame of FIRQ the guest executes up to nine cycles in
  the task of its handler, on every return. That is why `TaskIsRestored` has its second
  disjunct (without it TLC finds a counterexample of one FIRQ).
* A guest that, in the nine cycles after a short frame's RTI, writes the task register or
  takes an interrupt has its task overwritten, or the wrong one stacked, for good: `late`.
* Armed again in the middle of a capture that fills the buffer, by SYSTEM_TRACE or the console,
  neither of which asks whether a trace is on, the trace is enabled with `trace_pos` at its end
  and stores past it (`include/mc6809.h:166-170`), against the "One-shot" of `:159`. `OneShot`
  says that nothing but such a meeting does this: `torn`.
* A countdown that ends while the guest is held in reset sets RS_RUNNING over RS_RESET for one
  cycle (`src/mc6809.cpp:325`), and an armed trace takes its word, against
  `include/mc6809.h:162-163`. `TraceIsContiguous` says that there is at most that one, the last.
* A clear that meets the last capture leaves `trace_full` set with no words: `torn`; and a
  vector that falls between the stores of a clear arms the trace again
  (`include/mc6809.h:152`).

Runs, loads and the console.

* The test for `srecord_ignore` in S9 cannot fail, since S9 has reset it some lines before
  (`src/pico_thing.cpp:1824`, `:1863`): the RESET vector is set even if the load was ignored. A
  line with a wrong checksum does not set `srecord_ignore`, and the rest of the load goes on.
  An S1 record for 0xFE00-0xFFEF is dropped without a word.
* GO resets both ports and the timer, from Core 0, before `start()` finds that the guest
  is running and refuses (`src/pico_thing.cpp:1222`), with the effect above on
  the queues; the timer of a running guest is switched off.
* `start()` tells nobody that it refused: an interrupt test would go on and report on
  another program. `NeverRefused` says that this does not happen.
* `copy()` of an unaligned range wraps within its buffer; `break_active` survives stop, start
  and power; `preserve_state()` and `restore_state()` are empty; `sysreq_process()` (line 568), the
  only code that ends BUSY for a TIME, SET_TIME, MOUNT or UNMOUNT request, has no caller, so that
  such a request leaves every later one ignored.

Watchpoint.

* Arming is deferred to the loop, so a write between the request and its dispatch is
  stored: with `Waits` FALSE `TrapIsSafe` fails.
* A hit is what two bytes of the shared buffer say that are not zero, whoever wrote them:
  what a copy left there, or BREAK while armed, is reported as a hit.
* Neither a hit nor a `setup()` restores the NMI vector; a watchpoint armed after that saves the
  snippet's address as the original (`src/pico_thing.cpp:2052`).
* BREAK and arming overwrite the RESET vector: the next GO runs BREAK.
* SNIPPET, VECTOR, RESET and the operands of a copy rewrite the block or the vectors under an
  armed watchpoint (`meddled`).
* The chunk test's waits may see READY and DONE of an earlier run.

Power and watchdog.

* `reset_power()` kills Core 1 and the PIO before it asserts RESET (`src/pico_thing.cpp:2737`): for a
  moment the guest runs unserved, hence the exception in `GuestIsServed`. Its comment
  says "RESET + HALT asserted"; `stop()` asserts RESET alone.
* POWER typed during the bring-up kills Core 1 half-way: with `Patient` FALSE both `OffIsOff` and
  `GuestIsServed` fail.
* `main()` waits for Core 1's 100 passes without a watchdog, so a loop that stalls before is
  never reported; the watchdog says "resumed" when the power is cut during a stall; and
  each command restarts its interval, so that pasted input delays the alarm.
* The indices of the write ring, the read counters and `pending_interrupts` survive a power
  cycle.

## 7. The proofs

`SpscQueue_proofs`, for every capacity above 1 and every set of bytes. `TypeOK` is not
inductive (nothing in it keeps the producer's credit from going negative), and
neither is `CreditIsSound`. `IInv` joins them with what each side knows half-way: a put in
progress has a credit, its loaded index is still the head, and its byte is in the
slot once stored; a get in progress has a byte to take, its loaded index is still the
tail, and the byte it read is still in the slot. `Safety` gives `TypeOK`, `CreditIsSound` and
`NoSlotRace`; `Refinement` gives `IsFifo`, each step mapped to a step of `Fifo` or a stutter,
on lemmas about indices modulo Capacity. Assumed: `CapacityAssumption`, `NoByteAssumption`.

`Acia_proofs`, for every bound, threshold, set of control words and set of `Quiet`
statements. Assumed: `AciaAssumption`.

* `TypeCorrect` gives `TypeOK`; its invariant `TypeInv` adds to the types that rx is not empty
  from the loop's test of it to its `get()` (a fact of the model, in which Core 0 does not
  reset a queue: section 5 has the case where it does), that a read is counted off only if one was counted, and where `sync_status()`
  was called from.
* `NoWakeupIsLost` gives `NoLostWakeup`. Its invariant `WakeInv` says, for each statement of
  `has_interrupt()`, what holds *unless* `irq_dirty` is set: each conjunct of `NoLostWakeup`
  becomes true at one statement of the pass and is carried to its end, and every change
  another context makes sets the flag, at once (a handler) or in its next step (Core 0,
  which is then at "put" or "cts").
* `RtsIsCurrent` gives `RtsIsNotStale`, which is inductive: a loop that is late applies old words,
  but RTS is set by the handler, and what the loop does to it (a reset) turns it on.
* `TxIsExactlyOnce` gives a guest that polls TDRE (hypothesis `OneWriter`) `TxExactlyOnce`: what the
  host had, then tx, is 1, 2, 3 ..., and the rest of what was written is on its way.
  The writes are all in one line, oldest first: sent to the host, in tx, in the loop's
  hand, in the write ring, in the handler (`Order`). `Pace` says that whoever shows TDRE, to
  the guest or in a byte still to be published, has seen no write under way, so that
  there is at most one; `Room`, that tx then has a slot for it, since TDRE was measured
  against the threshold. `OneWriter` says that no control word resets or loops back the
  port, that no handler lands between the building of a status byte and its publishing
  (section 6), and `QueueMax >= CtsThreshold + 2`: the write under way when the threshold was
  crossed and the one after it. That is exact: with one slot less TLC finds a byte
  dropped. The code has 1023 and 800.
* `RxIsExactlyOnce` gives the like to a guest that polls RDRF (`OneReader`: as above
  without the slots; no word turns RTS off, which throws a staged byte away; and no
  handler between the setting of `receive_buffer_full` and the load of the data
  register). `Offered` says that whoever shows RDRF has a byte behind it in the data
  register, that has not been read; `InTurn`, that the bytes read, that one and those in rx
  are again one line.
* `TxRefinesFifo` and `RxRefinesFifo` give `TxIsFifo` and `RxIsFifo` from the same invariants: a write of
  the guest is a put, `host_receive()` a get; `host_transmit()` is a put, the guest's read a get;
  every other step is a stutter.

`WriteRing_proofs`, for every size of the ring and every number of writes, of the handler
and of Core 0. `WritesAreExactlyOnce` gives `ExactlyOnce`. `ExactlyOnce` speaks of two sequences;
its invariant `IInv` speaks of slots, and only for as long as nothing was dropped or raced: the
loop's copy of the tail is the tail and what it has read is still in that slot (`Taken`), a
push of MODIFY has the head, a free slot and its bytes in it (`Pushing`), and the slot at
distance i above the tail holds the write that is i after the last one dispatched (`Kept`).
It rests on lemmas about the distance of two indices modulo RingSize. `TypeCorrect` gives
`TypeOK`, overflow and races included. `NewestSurvives` gives `NewestKeptAtPace`, through any number
of overflows. A drop moves the tail under the loop, so that nothing can be said of the
loop's copy of it but that it is the tail or, after one move, the slot before. `PaceInv` says
that, and that the ring is not empty while the loop takes an entry (`Apart`); that a push of
MODIFY finds head and tail where its test left them (`Alone`); and that the last write is in
the slot below the head, or with an empty ring the last one dispatched (`Newest`). The hypothesis `RingSize > 2` is exact: a ring of two slots holds one
entry, which MODIFY drops before it has published its own, and TLC finds that state. The
code's has 32. Assumed: `WriteRingAssumption`.

`Interrupts_proofs`, for every set of countdowns, ports and console lines. `TypeCorrect` gives
`TypeOK`; `IrqIsHeld` gives `IrqHeld`: its invariant `HeldInv` adds, for each question of
the pass, that a source which has been pending since the pass began and has been asked is
counted. Assumed: `SourcesAssumption`, `CountdownAssumption`.

`Tasks_proofs`, for every set of tasks, every size of `task_stack` and every depth of the guest's
nesting, in three layers. Assumed: `TasksAssumption`.

* `StackIsSafe`, for full and short frames, gives `TypeOK` (the stack does not overrun, nor its
  unsigned indices underrun) and `NestingUnwinds`. Its invariant `Follows` says that the depth is
  the height of the stack and never more than the contexts the guest has interrupted;
  strictly less while it stacks a frame, while it unstacks one, and in the vector fetch
  until `bus_state` has counted it.
* `HandlersAreInIrq`, for both frames again, gives `HandlerIsInIrq`, until the guest nests deeper than
  the stack. `Mirrors` makes the inequality of `Follows` an equation, cycle by cycle, and says
  which of its values go with which `run_state`.
* `StackMirrorsGuest` and `TasksAreRestored` give `StackIsGuests` and `TaskIsRestored`, for both frames.
  `Tracks` compares tasks instead of heights, and says where the countdown stands in each
  cycle of an RTI, and in each of the cycles after that of a short frame, and which task
  is due when it ends. Nothing is said once `late` is "lost" (section 6).

`BusTrace_proofs`, for every size of the buffer, every countdown and every number of cycles,
whoever arms, whenever. `TraceIsSound` gives `TypeOK`, `OneShot`, `TraceIsContiguous` and
`FullIsComplete`. Its invariant says that a fill which goes on has in its last word the cycle
before and its interrupt on, at each statement of `trace_capture()`, or, with RESET asserted,
that its last word may be a stray and there is no other after it; and what a full buffer is.
All of it holds until an arm or a clear meets a capture, and again from the next arm that
meets none. Assumed: `TraceAssumption`.

`Console_proofs`, for every set of commands, typed in any order and for ever, every program
of the guest and every `MaxRing`. A command is a script, so its correctness is argued as a
program's is, by a proof outline. A `Phase` stands before each statement: what Core 0 then
knows of the guest (kept in reset and seen so; set up; running; over), of the snippet in
the block, and of the blocks of memory it has filled. `Rule` relates the phases around a
statement, `Holds` is what a phase claims of the state. The invariant `IInv` says that what
is left of the script has an outline (`Outlined`) and that the claim of its first phase holds;
beside it, that a request in the ring is of this run (`Requested`) and what an armed watchpoint
needs (`Baited`). Three things are proved: the script of each of the 28 commands has an
outline; a statement executed by its rule makes the next phase's claim true; the steps of
Core 1 and of the guest leave the claim of any phase true. The theorems then read the
phase before a statement: `NoRunRefused` (`NeverRefused`) before `assert_stopped()`, `AnswersAreHonest`
(`RunIsHonest`) before the verdict of `start_with_timeout()`, `BootsAreWhole` (`BootsWhatItLoaded`) before
RESET_DEASSERT; `NoStaleArm` (`ArmBelongsToRun`), `TrapsHold` (`TrapIsSafe`, with `Waits`, whose need section 6
shows) and `TypeCorrect` (`RunTypeOK`) follow from the invariant itself. Assumed:
`RunControlAssumption`, `ConsoleAssumption`.

`Power_proofs`, for every number of passes and misses waited for. Core 0 is always at a place in
one of seven scripts (`Placed`); `Claim` says, for each place, which channels and machines are
claimed, what Core 1 is at, and whether RESET may be off. `NothingIsTaken` holds for any user:
no claim ever panics, and powering down gives every channel and machine back, whatever
Core 1 was at when it was killed. `PowersDownWhole` (`OffIsOff`) and `RunningIsServed` (`GuestIsServed`)
need `Patient`, as section 6 shows: a Core 1 killed in its bring-up leaves its alarm or its flag.
`TypeCorrect` gives `PowerTypeOK`. Assumed: `PowerAssumption`.

Only model-checked: liveness, which needs fairness and ENABLED, out of the prover's reach
(`RxReachesGuest`, `TdreOrCts`, `ReceiveInterrupts`, `TickIsShown`, `TickReaches`, `IrqReleased`,
`TrapIsReported`, `StallIsReported`). The hypotheses `OneWriter` and `OneReader`, `Waits` and `Patient`
are met by the instances of section 4.

## 8. What is not modelled

The PIO programs and bus timing (hardware below the model); system requests (arithmetic,
and a handshake whose second half is not called); parsing, printing, the decoding of
S-records and USB descriptors (sequential, no shared state); the console's FREQ, TIME, TASK and
USB; the `reset()` of a whole port from Core 0 beside a running guest (section 6); Core 0 as a second producer of rx beside a
loopback (in Acia a `put` is one step); the snippet's own RTI and SYSTEM_RTI_SIGNAL as
further sources of `apply_rti()`; SYNC and HALT beside the task stack (RunControl has them,
without the tasks). `PROJECT.json` lists every component, and every hazard with the
properties that watch it or the reason that none does.

## 9. Plan

Order: what every byte and every interrupt of the system goes through first, then what
runs the guest.

1. Done: Fifo, SpscQueue, Acia, WriteRing with both producers, TickTimer,
   Interrupts, Tasks, BusTrace, RunControl and Console (with watchpoint and loads), Power (with watchdog);
   proofs of all of these, one for each invariant the runs check.
2. RtiDetect: the PIO detector's view of the bus, with the snippet's last byte and
   SYSTEM_RTI_SIGNAL beside it, refined to the `ApplyRti` of Tasks.
3. GuestSerial: the interrupt-driven driver of `chunk/io.asm` over Acia's registers.
4. A refinement of Tasks: a stack of the guest's contexts, pushed and popped in one step.
5. SysReq, once `sysreq_process` has a caller.
6. Proofs: that refinement, for which `Tracks` is what the mapping needs; and the invariants of
   RtiDetect and GuestSerial.
