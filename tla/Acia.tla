-------------------------------- MODULE Acia --------------------------------
(***************************************************************************)
(* class mc6850 (include/mc6850.h, src/mc6850.cpp), the emulated serial    *)
(* port, with everybody who calls it.  Four actors share one object:       *)
(*                                                                         *)
(*  - the for(;;) thread of Core 1 (main_core1) runs has_interrupt() after *)
(*    a rising edge of Q, guest_control() and guest_transmit() for what    *)
(*    the guest wrote, and guest_receive() for each byte it read.  It can  *)
(*    be preempted anywhere: each access it makes to a field that another  *)
(*    actor can see is a step, and pc names the statement to come;         *)
(*  - the DMA interrupt handlers of Core 1 preempt the thread, and nothing *)
(*    on Core 1 preempts them: each call they make here is one step.  What *)
(*    they share with Core 0 is irq_dirty, which both only set;            *)
(*  - Core 0 (uart_port_pump) feeds rx, drains tx and sets host_cts;       *)
(*  - the guest 6809 reads the status and data registers by DMA, with no   *)
(*    code of the Pico in between, and the handler runs after the access.  *)
(*    Like chunk/io.asm, it reads data only after a status with RDRF and   *)
(*    writes data only after a status with TDRE.                           *)
(*                                                                         *)
(* The two SpscQueues are sequences (SpscQueue.tla shows why they may be)  *)
(* and write_ring is one too: it cannot overflow here, WriteRing.tla is    *)
(* where it does.  The k-th byte the guest writes, and the k-th the host   *)
(* sends, is k.                                                            *)
(***************************************************************************)
EXTENDS Integers, Sequences, FiniteSets

CONSTANTS
    QueueMax,       \* bytes a queue can hold, CONSOLE_QUEUE_LEN - 1
    CtsThreshold,   \* CTS_THRESHOLD
    Controls,       \* control words the guest writes
    UseHostCts,     \* does Core 0 ever find the USB host unable to take data?
    Quiet,          \* statements of the thread at which no DMA interrupt lands
    MaxWrites, MaxSends, MaxControls, MaxReads  \* bounds on the environment

(* mc6850_control: divide_select is 0b11 ("reset"), 0b10 ("div64") or any   *)
(* other ("run"); tx_irq is 0b01 ("irq"), 0b10 ("rts_off"), 0b11 ("break")  *)
(* or 0b00 ("off"); rx_irq is its top bit.                                 *)
ControlWord == [divide : {"run", "div64", "reset"},
                tx : {"off", "irq", "rts_off", "break"}, rx : BOOLEAN]

ASSUME AciaAssumption ==
    /\ QueueMax \in Nat \ {0} /\ CtsThreshold \in Nat
    /\ Controls \subseteq ControlWord
    /\ UseHostCts \in BOOLEAN
    /\ {MaxWrites, MaxSends, MaxControls, MaxReads} \subseteq Nat

VARIABLES
    \* the object
    tx, rx, tbe, rbf, txIrq, rxIrq, atx, arx, cts, rts, loopClose, loopQueue,
    txPending, dirty, hostCts, cachedStatus, cachedIrq,
    \* its two read registers
    status, data,
    \* the thread: next statement, where sync_status() returns to, its local
    \* sr, the write_ring entry in hand, the Q-edge flag
    pc, ret, sr, entry, qRising,
    \* what the interrupt handlers leave for the thread
    ring, rxReads,
    \* Core 0: "idle", "batch" (feeding rx), "put" or "cts" (irq_dirty to come)
    core0,
    \* the guest: the last status it read and may still act on, the access
    \* whose interrupt is to come; how much the environment has done
    seen, access, written, sent, controls, hostLog, guestLog,
    lastWord    \* the control word whose interrupt ran last (history)

flags == <<tbe, rbf, atx, arx, cts>>
modes == <<txIrq, rxIrq, loopClose, loopQueue>>
published == <<status, cachedStatus>>
thread == <<pc, ret, sr, entry>>
mail == <<ring, rxReads>>
guest == <<seen, access, written, controls, guestLog, lastWord>>
core0Vars == <<core0, sent, hostLog>>
vars == <<tx, rx, flags, modes, rts, txPending, dirty, hostCts, published, cachedIrq,
          data, thread, qRising, mail, core0Vars, guest>>

-----------------------------------------------------------------------------
StatusByte == [rdrf : BOOLEAN, tdre : BOOLEAN, cts : BOOLEAN, irq : BOOLEAN]
ConsoleNone == [rdrf |-> FALSE, tdre |-> FALSE, cts |-> FALSE, irq |-> FALSE]
ResetStatus == [rdrf |-> FALSE, tdre |-> TRUE, cts |-> FALSE, irq |-> FALSE]
NoStatus == ConsoleNone     \* a status that lets the guest do nothing

NoAccess == [kind |-> "none"]
DataRead == [kind |-> "read"]
DataWrite(b) == [kind |-> "data", byte |-> b]
ControlWrite(c) == [kind |-> "control", word |-> c]

(* What sync_status() makes of the fields it reads.                        *)
Derive(full, empty, clear, pend, at, ar) ==
    [rdrf |-> full, tdre |-> empty /\ ~clear /\ ~pend, cts |-> clear, irq |-> ar \/ at]

Init ==
    /\ tx = <<>> /\ rx = <<>>
    /\ tbe = TRUE /\ rbf = FALSE /\ txIrq = FALSE /\ rxIrq = FALSE
    /\ atx = FALSE /\ arx = FALSE /\ cts = FALSE /\ rts = FALSE
    /\ loopClose = FALSE /\ loopQueue = FALSE
    /\ txPending = FALSE /\ dirty = TRUE /\ hostCts = FALSE
    /\ status = ResetStatus /\ cachedStatus = ResetStatus /\ cachedIrq = FALSE
    /\ data = 0
    /\ pc = "top" /\ ret = "top" /\ sr = ConsoleNone /\ entry = NoAccess
    /\ qRising = FALSE /\ ring = <<>> /\ rxReads = 0
    /\ core0 = "idle" /\ sent = 0 /\ hostLog = <<>>
    /\ seen = NoStatus /\ access = NoAccess
    /\ written = 0 /\ controls = 0 /\ guestLog = <<>>
    /\ lastWord = [divide |-> "reset", tx |-> "off", rx |-> FALSE]

-----------------------------------------------------------------------------
(* The thread.  Goto says where it goes; the fields only it reads move with *)
(* the statement they stand next to.                                       *)

At(p) == pc = p
Goto(p) == pc' = p /\ UNCHANGED <<ret, sr, entry>>
CallSync(p, r) == pc' = p /\ ret' = r /\ UNCHANGED <<sr, entry>>
RestOfThread == <<qRising, mail, core0Vars, guest>>

Edge ==     \* if (q_rising_edge)
    /\ At("top")
    /\ qRising' = FALSE
    /\ Goto(IF qRising THEN "hi.test" ELSE "ring")
    /\ UNCHANGED <<tx, rx, flags, modes, rts, txPending, dirty, hostCts, published,
                   cachedIrq, data, mail, core0Vars, guest>>

HiTest ==   \* if (!irq_dirty) return cached_irq_result; irq_dirty = false
    /\ At("hi.test")
    /\ dirty' = FALSE
    /\ Goto(IF dirty THEN "hi.tbe" ELSE "ring")
    /\ UNCHANGED <<tx, rx, flags, modes, rts, txPending, hostCts, published,
                   cachedIrq, data, RestOfThread>>

(* transmit_buffer_empty, then cts_deasserted, from the queue as it is now; *)
(* first in has_interrupt(), and in sync_transmit() for the two others.    *)
RefreshTbe ==
    /\ pc \in {"hi.tbe", "sync.tbe"}
    /\ tbe' = (Len(tx) < QueueMax)
    /\ Goto(IF At("hi.tbe") THEN "hi.cts" ELSE "sync.cts")
    /\ UNCHANGED <<tx, rx, rbf, atx, arx, cts, modes, rts, txPending, dirty, hostCts,
                   published, cachedIrq, data, RestOfThread>>

\* Slip: the threshold is crossed one byte late.
RefreshCts_Late ==
    /\ pc \in {"hi.cts", "sync.cts"}
    /\ cts' = (Len(tx) > CtsThreshold + 1 \/ hostCts)
    /\ Goto(IF At("hi.cts") THEN "hi.stage" ELSE "sync")
    /\ UNCHANGED <<tx, rx, tbe, rbf, atx, arx, modes, rts, txPending, dirty, hostCts,
                   published, cachedIrq, data, RestOfThread>>

RefreshCts ==
    /\ pc \in {"hi.cts", "sync.cts"}
    /\ cts' = (Len(tx) > CtsThreshold \/ hostCts)
    /\ Goto(IF At("hi.cts") THEN "hi.stage" ELSE "sync")
    /\ UNCHANGED <<tx, rx, tbe, rbf, atx, arx, modes, rts, txPending, dirty, hostCts,
                   published, cachedIrq, data, RestOfThread>>

HiStage ==  \* if (!receive_buffer_full && rx.has_bytes() && !rts_deasserted)
    /\ At("hi.stage")
    /\ Goto(IF ~rbf /\ rx # <<>> /\ ~rts THEN "hi.full" ELSE "hi.arx")
    /\ UNCHANGED <<tx, rx, flags, modes, rts, txPending, dirty, hostCts, published,
                   cachedIrq, data, RestOfThread>>

HiFull ==
    /\ At("hi.full")
    /\ rbf' = TRUE
    /\ Goto("hi.data")
    /\ UNCHANGED <<tx, rx, tbe, atx, arx, cts, modes, rts, txPending, dirty, hostCts,
                   published, cachedIrq, data, RestOfThread>>

StageByte ==    \* reg[data_offset] = rx.get(), in has_interrupt() and guest_receive()
    /\ pc \in {"hi.data", "gr.data"}
    /\ data' = Head(rx) /\ rx' = Tail(rx)
    /\ Goto(IF At("hi.data") THEN "hi.arx" ELSE "gr.end")
    /\ UNCHANGED <<tx, flags, modes, rts, txPending, dirty, hostCts, published,
                   cachedIrq, RestOfThread>>

HiReceiveIrq ==
    /\ At("hi.arx")
    /\ arx' = (rxIrq /\ rbf)
    /\ Goto("hi.atx")
    /\ UNCHANGED <<tx, rx, tbe, rbf, atx, cts, modes, rts, txPending, dirty, hostCts,
                   published, cachedIrq, data, RestOfThread>>

HiTransmitIrq ==
    /\ At("hi.atx")
    /\ atx' = (txIrq /\ tbe /\ ~txPending /\ ~cts)
    /\ CallSync("sync", "hi.ret")
    /\ UNCHANGED <<tx, rx, tbe, rbf, arx, cts, modes, rts, txPending, dirty, hostCts,
                   published, cachedIrq, data, RestOfThread>>

HiReturn ==
    /\ At("hi.ret")
    /\ cachedIrq' = (atx \/ arx)
    /\ Goto("ring")
    /\ UNCHANGED <<tx, rx, flags, modes, rts, txPending, dirty, hostCts, published,
                   data, RestOfThread>>

-----------------------------------------------------------------------------
(* sync_status() in the thread: build sr, compare it with the cached byte,  *)
(* publish it.  An interrupt may come between any two.                     *)

SyncBuild ==
    /\ At("sync")
    /\ sr' = Derive(rbf, tbe, cts, txPending, atx, arx)
    /\ pc' = "sync.compare"
    /\ UNCHANGED <<tx, rx, flags, modes, rts, txPending, dirty, hostCts, published,
                   cachedIrq, data, ret, entry, RestOfThread>>

SyncCompare ==
    /\ At("sync.compare")
    /\ cachedStatus' = sr
    /\ Goto(IF sr # cachedStatus THEN "sync.publish" ELSE ret)
    /\ UNCHANGED <<tx, rx, flags, modes, rts, txPending, dirty, hostCts, status,
                   cachedIrq, data, RestOfThread>>

SyncPublish ==
    /\ At("sync.publish")
    /\ status' = sr
    /\ Goto(ret)
    /\ UNCHANGED <<tx, rx, flags, modes, rts, txPending, dirty, hostCts, cachedStatus,
                   cachedIrq, data, RestOfThread>>

-----------------------------------------------------------------------------
(* The write_ring drain: guest_control() and guest_transmit().             *)

Drain ==
    /\ At("ring")
    /\ IF ring = <<>>
       THEN Goto("reads") /\ UNCHANGED ring
       ELSE /\ ring' = Tail(ring) /\ entry' = Head(ring)
            /\ pc' = (IF Head(ring).kind = "data" THEN "gt.ack" ELSE "gc")
            /\ UNCHANGED <<ret, sr>>
    /\ UNCHANGED <<tx, rx, flags, modes, rts, txPending, dirty, hostCts, published,
                   cachedIrq, data, qRising, rxReads, core0Vars, guest>>

\* Slip: RTS is set here too.
GuestControl_SetsRts ==
    /\ At("gc") /\ entry.word.divide # "reset"
    /\ loopClose' = (entry.word.tx = "break")
    /\ loopQueue' = (entry.word.tx # "break" /\ entry.word.divide = "div64")
    /\ txIrq' = (entry.word.tx = "irq")
    /\ rxIrq' = entry.word.rx
    /\ rts' = (entry.word.tx = "rts_off")
    /\ dirty' = TRUE
    /\ CallSync("sync.tbe", "ring")
    /\ UNCHANGED <<tx, rx, flags, txPending, hostCts, published,
                   cachedIrq, data, RestOfThread>>

\* Slip: irq_dirty was set in the interrupt, so it is not set again.
GuestControl_NotDirty ==
    /\ At("gc") /\ entry.word.divide # "reset"
    /\ loopClose' = (entry.word.tx = "break")
    /\ loopQueue' = (entry.word.tx # "break" /\ entry.word.divide = "div64")
    /\ txIrq' = (entry.word.tx = "irq")
    /\ rxIrq' = entry.word.rx
    /\ CallSync("sync.tbe", "ring")
    /\ UNCHANGED <<tx, rx, flags, rts, txPending, dirty, hostCts, published,
                   cachedIrq, data, RestOfThread>>

GuestControl ==
    /\ At("gc") /\ entry.word.divide # "reset"
    /\ loopClose' = (entry.word.tx = "break")
    /\ loopQueue' = (entry.word.tx # "break" /\ entry.word.divide = "div64")
    /\ txIrq' = (entry.word.tx = "irq")
    /\ rxIrq' = entry.word.rx
    /\ dirty' = TRUE
    /\ CallSync("sync.tbe", "ring")
    /\ UNCHANGED <<tx, rx, flags, rts, txPending, hostCts, published,
                   cachedIrq, data, RestOfThread>>

(* reset() writes constants only: an interrupt among those stores leaves    *)
(* what it would have left before or after them, until the last two.       *)
ResetFields ==
    /\ At("gc") /\ entry.word.divide = "reset"
    /\ status' = ConsoleNone /\ data' = 0
    /\ tbe' = TRUE /\ rbf' = FALSE /\ txIrq' = FALSE /\ rxIrq' = FALSE
    /\ atx' = FALSE /\ arx' = FALSE /\ cts' = FALSE /\ rts' = FALSE
    /\ loopClose' = FALSE /\ loopQueue' = FALSE
    /\ hostCts' = FALSE /\ txPending' = FALSE /\ dirty' = TRUE
    /\ Goto("rs.queues")
    /\ UNCHANGED <<tx, rx, cachedStatus, cachedIrq, RestOfThread>>

ResetQueues ==
    /\ At("rs.queues")
    /\ tx' = <<>> /\ rx' = <<>>
    /\ Goto("rs.status")
    /\ UNCHANGED <<flags, modes, rts, txPending, dirty, hostCts, published,
                   cachedIrq, data, RestOfThread>>

ResetStatusReg ==
    /\ At("rs.status")
    /\ status' = ResetStatus
    /\ Goto("rs.cached")
    /\ UNCHANGED <<tx, rx, flags, modes, rts, txPending, dirty, hostCts, cachedStatus,
                   cachedIrq, data, RestOfThread>>

ResetCached ==
    /\ At("rs.cached")
    /\ cachedStatus' = ResetStatus
    /\ Goto("ring")
    /\ UNCHANGED <<tx, rx, flags, modes, rts, txPending, dirty, hostCts, status,
                   cachedIrq, data, RestOfThread>>

\* Slip: tx_write_pending is acknowledged nowhere.
TransmitAck_Forgotten ==
    /\ At("gt.ack")
    /\ Goto(IF loopClose THEN "gt.close" ELSE "gt.put")
    /\ UNCHANGED <<tx, rx, flags, modes, rts, txPending, dirty, hostCts, published,
                   cachedIrq, data, RestOfThread>>

TransmitAck ==      \* tx_write_pending = false
    /\ At("gt.ack")
    /\ txPending' = FALSE
    /\ Goto(IF loopClose THEN "gt.close" ELSE "gt.put")
    /\ UNCHANGED <<tx, rx, flags, modes, rts, dirty, hostCts, published,
                   cachedIrq, data, RestOfThread>>

(* The three routes of guest_transmit(), each down to irq_dirty = true.     *)
TransmitPut ==
    /\ At("gt.put")
    /\ IF loopQueue
       THEN /\ rx' = IF Len(rx) < QueueMax THEN Append(rx, entry.byte) ELSE rx
            /\ UNCHANGED tx
       ELSE /\ tx' = IF Len(tx) < QueueMax THEN Append(tx, entry.byte) ELSE tx
            /\ UNCHANGED rx
    /\ dirty' = TRUE
    /\ CallSync("sync.tbe", "ring")
    /\ UNCHANGED <<flags, modes, rts, txPending, hostCts, published,
                   cachedIrq, data, RestOfThread>>

TransmitClose ==
    /\ At("gt.close")
    /\ data' = entry.byte /\ rbf' = TRUE
    /\ Goto("gt.irq")
    /\ UNCHANGED <<tx, rx, tbe, atx, arx, cts, modes, rts, txPending, dirty, hostCts,
                   published, cachedIrq, RestOfThread>>

TransmitCloseIrq ==
    /\ At("gt.irq")
    /\ arx' = rxIrq /\ dirty' = TRUE
    /\ CallSync("sync.tbe", "ring")
    /\ UNCHANGED <<tx, rx, tbe, rbf, atx, cts, modes, rts, txPending, hostCts,
                   published, cachedIrq, data, RestOfThread>>

-----------------------------------------------------------------------------
(* One guest_receive() for each data read the handler counted.             *)

\* Slip: do ... while for while.
Reads_AtLeastOne ==
    /\ At("reads")
    /\ Goto(IF rts THEN "gr.drop" ELSE "gr.stage")
    /\ UNCHANGED <<tx, rx, flags, modes, rts, txPending, dirty, hostCts, published,
                   cachedIrq, data, RestOfThread>>

Reads ==
    /\ At("reads")
    /\ Goto(IF rxReads = 0 THEN "top" ELSE IF rts THEN "gr.drop" ELSE "gr.stage")
    /\ UNCHANGED <<tx, rx, flags, modes, rts, txPending, dirty, hostCts, published,
                   cachedIrq, data, RestOfThread>>

ReceiveDrop ==      \* rts_deasserted: receive_buffer_full = false
    /\ At("gr.drop")
    /\ rbf' = FALSE
    /\ Goto("gr.end")
    /\ UNCHANGED <<tx, rx, tbe, atx, arx, cts, modes, rts, txPending, dirty, hostCts,
                   published, cachedIrq, data, RestOfThread>>

\* Slip: a byte that has_interrupt() staged is staged over.
ReceiveStage_Again ==
    /\ At("gr.stage")
    /\ rbf' = (rx # <<>>)
    /\ Goto(IF rx # <<>> THEN "gr.data" ELSE "gr.end")
    /\ UNCHANGED <<tx, rx, tbe, atx, arx, cts, modes, rts, txPending, dirty, hostCts,
                   published, cachedIrq, data, RestOfThread>>

ReceiveStage ==     \* if (!receive_buffer_full) receive_buffer_full = rx.has_bytes()
    /\ At("gr.stage")
    /\ rbf' = (rbf \/ rx # <<>>)
    /\ Goto(IF ~rbf /\ rx # <<>> THEN "gr.data" ELSE "gr.end")
    /\ UNCHANGED <<tx, rx, tbe, atx, arx, cts, modes, rts, txPending, dirty, hostCts,
                   published, cachedIrq, data, RestOfThread>>

ReceiveEnd ==
    /\ At("gr.end")
    /\ dirty' = TRUE
    /\ CallSync("sync", "gr.ret")
    /\ UNCHANGED <<tx, rx, flags, modes, rts, txPending, hostCts, published,
                   cachedIrq, data, RestOfThread>>

ReceiveReturn ==    \* rx_processed_count++
    /\ At("gr.ret")
    /\ rxReads' = rxReads - 1
    /\ Goto("reads")
    /\ UNCHANGED <<tx, rx, flags, modes, rts, txPending, dirty, hostCts, published,
                   cachedIrq, data, qRising, ring, core0Vars, guest>>

Thread ==
    \/ Edge \/ HiTest \/ RefreshTbe \/ RefreshCts \/ HiStage \/ HiFull \/ StageByte
    \/ HiReceiveIrq \/ HiTransmitIrq \/ HiReturn
    \/ SyncBuild \/ SyncCompare \/ SyncPublish
    \/ Drain \/ GuestControl \/ ResetFields \/ ResetQueues \/ ResetStatusReg \/ ResetCached
    \/ TransmitAck \/ TransmitPut \/ TransmitClose \/ TransmitCloseIrq
    \/ Reads \/ ReceiveDrop \/ ReceiveStage \/ ReceiveEnd \/ ReceiveReturn

-----------------------------------------------------------------------------
(* The interrupt handlers: each runs whole, once the guest's access is over *)
(* and before its next one.                                                *)

IsrMayRun == pc \notin Quiet

IsrSync(full, pend, ar) ==
    LET new == Derive(full, tbe, cts, pend, atx, ar)
    IN  /\ cachedStatus' = new
        /\ status' = IF new # cachedStatus THEN new ELSE status

IsrLeaves == <<tx, rx, tbe, atx, cts, modes, hostCts, cachedIrq, data, thread, qRising,
               core0Vars, seen, written, controls, guestLog>>

RxReadIsr ==        \* dma_bus_read_irq_handler: rx_read_fast_path()
    /\ access = DataRead /\ IsrMayRun
    /\ access' = NoAccess
    /\ rxReads' = rxReads + 1
    /\ rbf' = FALSE /\ arx' = FALSE /\ dirty' = TRUE
    /\ IsrSync(FALSE, txPending, FALSE)
    /\ UNCHANGED <<IsrLeaves, rts, txPending, ring, lastWord>>

TxWriteIsr ==       \* dma_bus_write_irq_handler: write_received()
    /\ access.kind = "data" /\ IsrMayRun
    /\ access' = NoAccess
    /\ ring' = Append(ring, access)
    /\ txPending' = TRUE /\ dirty' = TRUE
    /\ IsrSync(rbf, TRUE, arx)
    /\ UNCHANGED <<IsrLeaves, rbf, arx, rts, rxReads, lastWord>>

ControlIsr ==       \* dma_bus_write_irq_handler: control_written_isr()
    /\ access.kind = "control" /\ IsrMayRun
    /\ access' = NoAccess
    /\ ring' = Append(ring, access)
    /\ rts' = IF access.word.divide = "reset" THEN rts ELSE access.word.tx = "rts_off"
    /\ dirty' = TRUE
    /\ lastWord' = access.word
    /\ UNCHANGED <<IsrLeaves, rbf, arx, txPending, published, rxReads>>

QEdge ==            \* gpio_clock_eq_irq_handler: q_rising_edge = true
    /\ qRising' = TRUE
    /\ UNCHANGED <<tx, rx, flags, modes, rts, txPending, dirty, hostCts, published,
                   cachedIrq, data, thread, mail, core0Vars, guest>>

Isr == RxReadIsr \/ TxWriteIsr \/ ControlIsr

-----------------------------------------------------------------------------
(* Core 0: uart_port_pump().  It looks at rts_deasserted once per batch; the *)
(* put() and the irq_dirty = true of host_transmit() are two steps, as are  *)
(* the two stores of set_host_cts().                                       *)

Core0Leaves == <<flags, modes, rts, txPending, published, cachedIrq, data, thread,
                 qRising, mail, guest>>

PumpReads ==
    /\ core0 = "idle" /\ ~rts /\ Len(rx) < QueueMax
    /\ core0' = "batch"
    /\ UNCHANGED <<Core0Leaves, tx, rx, dirty, hostCts, sent, hostLog>>

HostTransmit ==
    /\ core0 = "batch" /\ sent < MaxSends /\ Len(rx) < QueueMax
    /\ rx' = Append(rx, sent + 1) /\ sent' = sent + 1
    /\ core0' = "put"
    /\ UNCHANGED <<Core0Leaves, tx, dirty, hostCts, hostLog>>

\* Slip: put() alone.
HostTransmitDirty_NotDirty ==
    /\ core0 = "put"
    /\ core0' = "batch"
    /\ UNCHANGED <<Core0Leaves, tx, rx, dirty, hostCts, sent, hostLog>>

HostTransmitDirty ==
    /\ core0 = "put"
    /\ dirty' = TRUE
    /\ core0' = "batch"
    /\ UNCHANGED <<Core0Leaves, tx, rx, hostCts, sent, hostLog>>

BatchEnds ==
    /\ core0 = "batch"
    /\ core0' = "idle"
    /\ UNCHANGED <<Core0Leaves, tx, rx, dirty, hostCts, sent, hostLog>>

HostReceive ==
    /\ core0 = "idle" /\ tx # <<>>
    /\ hostLog' = Append(hostLog, Head(tx)) /\ tx' = Tail(tx)
    /\ UNCHANGED <<Core0Leaves, rx, dirty, hostCts, core0, sent>>

SetHostCts ==
    /\ UseHostCts /\ core0 = "idle"
    /\ hostCts' = ~hostCts
    /\ core0' = "cts"
    /\ UNCHANGED <<Core0Leaves, tx, rx, dirty, sent, hostLog>>

SetHostCtsDirty ==
    /\ core0 = "cts"
    /\ dirty' = TRUE
    /\ core0' = "idle"
    /\ UNCHANGED <<Core0Leaves, tx, rx, hostCts, sent, hostLog>>

Core0 ==
    \/ PumpReads \/ HostTransmit \/ HostTransmitDirty \/ BatchEnds
    \/ HostReceive \/ SetHostCts \/ SetHostCtsDirty

-----------------------------------------------------------------------------
(* The guest, between two of its own interrupts of the Pico.               *)

GuestLeaves == <<tx, rx, flags, modes, rts, txPending, dirty, hostCts, published,
                 cachedIrq, data, thread, qRising, mail, core0Vars, lastWord>>

ReadStatus ==
    /\ access = NoAccess
    /\ seen' = status
    /\ UNCHANGED <<GuestLeaves, access, written, controls, guestLog>>

ReadData ==
    /\ access = NoAccess /\ seen.rdrf /\ Len(guestLog) < MaxReads
    /\ guestLog' = Append(guestLog, data)
    /\ access' = DataRead /\ seen' = NoStatus
    /\ UNCHANGED <<GuestLeaves, written, controls>>

WriteData ==
    /\ access = NoAccess /\ seen.tdre /\ written < MaxWrites
    /\ written' = written + 1
    /\ access' = DataWrite(written + 1) /\ seen' = NoStatus
    /\ UNCHANGED <<GuestLeaves, controls, guestLog>>

WriteControl(c) ==
    /\ access = NoAccess /\ controls < MaxControls
    /\ controls' = controls + 1
    /\ access' = ControlWrite(c)
    /\ UNCHANGED <<GuestLeaves, seen, written, guestLog>>

Guest == ReadStatus \/ ReadData \/ WriteData \/ \E c \in Controls : WriteControl(c)

-----------------------------------------------------------------------------
Next == Thread \/ Isr \/ QEdge \/ Core0 \/ Guest

Spec == Init /\ [][Next]_vars

(* The thread loops for ever and Q ticks for ever; an interrupt that is due *)
(* runs; uart_port_pump() is called from the console loop of Core 0, which  *)
(* never waits, and drains tx on each call.  Nothing is assumed of the      *)
(* guest, nor that the host ever sends.                                     *)
Fairness ==
    /\ WF_vars(Thread) /\ WF_vars(QEdge) /\ WF_vars(Isr)
    /\ WF_vars(HostTransmitDirty) /\ WF_vars(SetHostCtsDirty) /\ WF_vars(BatchEnds)
    /\ SF_vars(HostReceive)

FairSpec == Spec /\ Fairness

-----------------------------------------------------------------------------
Threads ==
    {"top", "hi.test", "hi.tbe", "hi.cts", "hi.stage", "hi.full", "hi.data", "hi.arx",
     "hi.atx", "hi.ret", "sync.tbe", "sync.cts", "sync", "sync.compare", "sync.publish",
     "ring", "gc", "rs.queues", "rs.status", "rs.cached", "gt.ack", "gt.put", "gt.close",
     "gt.irq", "reads", "gr.drop", "gr.stage", "gr.data", "gr.end", "gr.ret"}

Writes == [kind : {"data"}, byte : Nat] \cup [kind : {"control"}, word : ControlWord]

(* Every field keeps its range, the queues their capacity, and sync_status() *)
(* returns to its caller.                                                  *)
TypeOK ==
    /\ tx \in Seq(Nat) /\ Len(tx) <= QueueMax
    /\ rx \in Seq(Nat) /\ Len(rx) <= QueueMax
    /\ {tbe, rbf, txIrq, rxIrq, atx, arx, cts, rts, loopClose, loopQueue, txPending,
        dirty, hostCts, cachedIrq, qRising} \subseteq BOOLEAN
    /\ {status, cachedStatus, sr, seen} \subseteq StatusByte
    /\ data \in Nat
    /\ pc \in Threads /\ ret \in {"top", "ring", "hi.ret", "gr.ret"}
    /\ entry \in Writes \cup {NoAccess} /\ access \in Writes \cup {NoAccess, DataRead}
    /\ ring \in Seq(Writes)
    /\ rxReads \in Nat
    /\ core0 \in {"idle", "batch", "put", "cts"}
    /\ {sent, written, controls} \subseteq Nat
    /\ hostLog \in Seq(Nat) /\ guestLog \in Seq(Nat)
    /\ lastWord \in ControlWord

(* Between two calls of has_interrupt(), with the flag clear: what the next *)
(* call answers without looking.                                           *)
Clean == ~dirty /\ pc \in {"top", "hi.test", "ring", "reads"}

(* No lost wakeup.  has_interrupt() may answer from its cache only when      *)
(* there is nothing to do: no byte waits in rx that it could stage, the     *)
(* receive interrupt is as rx_irq and RDRF say, the cached answer is the    *)
(* or of the two conditions, and the guest is held off (CTS) whenever tx is *)
(* above the threshold or the USB host cannot take data -- whichever core   *)
(* or handler changed any of it, and whenever it did.                       *)
NoLostWakeup ==
    Clean =>
        /\ core0 # "put" => rx = <<>> \/ rbf \/ rts
        /\ arx = (rxIrq /\ rbf)
        /\ cachedIrq = (atx \/ arx)
        /\ Len(tx) > CtsThreshold => cts
        /\ core0 # "cts" => (hostCts => cts)
        /\ atx => txIrq /\ ~txPending /\ ~cts

IsData(e) == e.kind = "data"
InFlight ==
    Cardinality({i \in 1 .. Len(ring) : IsData(ring[i])})
        + (IF pc \in {"gt.ack", "gt.put"} THEN 1 ELSE 0) + (IF IsData(access) THEN 1 ELSE 0)

(* A guest that polls TDRE never loses, repeats or reorders a byte: what the *)
(* host has had and what tx holds is 1, 2, 3 ..., and all the rest of what  *)
(* the guest wrote is on its way.  guest_transmit() drops a byte when tx is *)
(* full: the slack above CTS_THRESHOLD has to make that impossible.         *)
TxExactlyOnce ==
    LET out == hostLog \o tx
    IN  /\ \A i \in 1 .. Len(out) : out[i] = i
        /\ Len(out) + InFlight = written

(* A guest that polls RDRF reads every byte the host sent once, in order.   *)
RxExactlyOnce == \A i \in 1 .. Len(guestLog) : guestLog[i] = i

(* The two directions of the port, seen from their ends.  The host is owed   *)
(* what tx holds and what the guest has written since; the guest the byte   *)
(* in the data register, from the time it is there whole until it is read,  *)
(* and what rx holds.                                                      *)
HostOwed == tx \o [i \in 1 .. InFlight |-> Len(hostLog) + Len(tx) + i]

Loading == pc \in {"hi.data", "gr.data"}
Reading == access.kind = "read"
Unread == rbf /\ ~Loading /\ ~Reading
GuestOwed == (IF Unread THEN <<data>> ELSE <<>>) \o rx

Newest(log) == IF log = <<>> THEN 0 ELSE log[Len(log)]

TxLine == INSTANCE Fifo WITH
    queue <- HostOwed, taken <- Newest(hostLog),
    Byte <- 1 .. MaxWrites, NoByte <- 0, Capacity <- CtsThreshold + 3

RxLine == INSTANCE Fifo WITH
    queue <- GuestOwed, taken <- Newest(guestLog),
    Byte <- 1 .. MaxSends, NoByte <- 0, Capacity <- QueueMax + 2

(* From a guest that polls TDRE to the USB host the port, with its handler,  *)
(* write ring, queue and flow control, is one bounded FIFO.  No step inside *)
(* it loses, repeats or reorders a byte (guest_transmit() drops one when tx *)
(* is full), each get of the host takes the oldest, and TDRE lets the guest *)
(* be no more than two bytes ahead of CTS_THRESHOLD.                       *)
TxIsFifo == TxLine!Spec

(* From the host to a guest that polls RDRF it is one too, one byte longer   *)
(* than its queue: wherever a byte is staged and whenever the read before   *)
(* it is counted off, none is lost in the data register or read twice.     *)
RxIsFifo == RxLine!Spec

(* RTS is never off against the last control word: the deferred            *)
(* guest_control() does not bring an older word's RTS back ("would clobber  *)
(* the current state with a stale value").                                  *)
RtsIsNotStale == rts /\ lastWord.divide # "reset" => lastWord.tx = "rts_off"

(* A byte the host sent becomes readable: RDRF comes on while it waits.     *)
RxReachesGuest == (rx # <<>>) ~> status.rdrf

(* A write is acknowledged: the TDRE that write_received() takes away comes  *)
(* back, by whichever route the byte leaves and with a second write as with *)
(* the first, or CTS is off and keeps it away (for how long is a question  *)
(* of its own, TdreRecovers).                                              *)
TdreOrCts == txPending ~> (status.tdre \/ status.cts)

(* The receive interrupt is raised for a staged byte, unless the guest reads *)
(* it or turns the interrupt off first.                                     *)
ReceiveInterrupts == (rxIrq /\ rbf) ~> (cachedIrq \/ ~rxIrq \/ ~rbf)

(* Flow control is released: with the host draining tx and taking USB data, *)
(* an empty tx gives the guest TDRE again (or the guest writes more).       *)
TdreRecovers == (tx = <<>>) ~> (status.tdre \/ tx # <<>>)
=============================================================================
