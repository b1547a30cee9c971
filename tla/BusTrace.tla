------------------------------- MODULE BusTrace -------------------------------
(***************************************************************************)
(* The one-shot bus trace of class mc6809 (include/mc6809.h): one word for *)
(* each E cycle, until the buffer is full.  The GPIO handler of Core 1     *)
(* captures at the falling edge of E; at the rising edge of Q it switches  *)
(* that interrupt on and off to follow trace_enabled, and may arm the      *)
(* trace for an interrupt vector.  The DMA write handler, which preempts   *)
(* it, arms and stops for the guest.  The console arms and clears from     *)
(* Core 0, one store at a time, whether a trace is active or not.  The     *)
(* word captured in a cycle is the number of the cycle.                    *)
(*                                                                         *)
(* Core 0 drives RESET, and run_state follows at the next rising edge of   *)
(* Q.  There the task restore an RTI deferred makes it RS_RUNNING again    *)
(* when its countdown ends, with RESET asserted too, until the next edge.  *)
(* Whether nesting_depth is 0 then is left open: Tasks.tla has it.         *)
(***************************************************************************)
EXTENDS Integers

CONSTANTS
    TraceSize,      \* trace_size, 4096
    RtiCycles,      \* what apply_rti() counts down from, 15
    MaxCycles       \* bound on the number of E cycles

ASSUME TraceAssumption ==
    TraceSize \in Nat \ {0} /\ RtiCycles \in Nat \ {0} /\ MaxCycles \in Nat \ {0}

VARIABLES
    trace, tracePos, traceEnabled, traceFull,
    trigger,        \* trace_irq_trigger names an interrupt the guest takes
    eIrqOn,         \* trace_e_irq_on
    reset,          \* the RESET pin is asserted
    running,        \* run_state >= RS_RUNNING
    countdown,      \* rti_task_countdown
    number,         \* the E cycle under way
    half,           \* "Q": Q is about to rise in it; "E": E is about to fall
    capture,        \* trace_capture(): its next statement, or "idle"
    pos,            \* the trace_pos it loaded
    console,        \* what Core 0 stores next, or "idle"
    torn,           \* history: the last arm or clear met a capture, or another one
    strays          \* history: the cycles that were RS_RUNNING under RESET

state == <<trace, tracePos, traceEnabled, traceFull>>
guest == <<reset, running, countdown, strays>>
clock == <<number, half>>
vars == <<state, trigger, eIrqOn, guest, clock, capture, pos, console, torn>>

Init ==
    /\ trace = [i \in 0 .. TraceSize - 1 |-> 0]
    /\ tracePos = 0 /\ traceEnabled = FALSE /\ traceFull = FALSE
    /\ trigger = FALSE /\ eIrqOn = FALSE
    /\ reset = TRUE /\ running = FALSE /\ countdown = 0 /\ strays = {}
    /\ number = 1 /\ half = "Q"
    /\ capture = "idle" /\ pos = 0 /\ console = "idle" /\ torn = FALSE

-----------------------------------------------------------------------------
TraceArm ==         \* trace_arm(), in a handler
    tracePos' = 0 /\ traceFull' = FALSE /\ traceEnabled' = TRUE /\ UNCHANGED trace

\* Slip: the countdown is not tested before it is counted down.
RtiTicked_NoTest == countdown - 1

RtiTicked == IF countdown > 0 THEN countdown - 1 ELSE 0

(* The rising edge of Q: run_state follows RESET, trace_irq_event() if the   *)
(* guest takes the interrupt, tick_rti_countdown(), and trace_e_irq_on      *)
(* follows trace_is_active().  The first edge after RESET is no vector.     *)
QRise(vector, outermost) ==
    /\ half = "Q" /\ half' = "E" /\ capture = "idle"
    /\ vector => running /\ ~reset
    /\ countdown' = RtiTicked
    /\ running' = (~reset \/ (countdown = 1 /\ outermost))
    /\ strays' = strays \cup (IF reset /\ running' THEN {number} ELSE {})
    /\ IF vector /\ trigger /\ ~traceEnabled /\ ~traceFull
       THEN TraceArm /\ torn' = (console # "idle")
       ELSE UNCHANGED <<state, torn>>
    /\ eIrqOn' = traceEnabled'
    /\ UNCHANGED <<trigger, reset, number, capture, pos, console>>

EFall ==            \* if (!trace_enabled || run_state < RS_RUNNING) return
    /\ half = "E" /\ half' = "Q" /\ number < MaxCycles
    /\ number' = number + 1
    /\ IF eIrqOn /\ traceEnabled /\ running
       THEN capture' = "load" /\ torn' = (torn \/ console # "idle")
       ELSE UNCHANGED <<capture, torn>>
    /\ UNCHANGED <<state, trigger, eIrqOn, guest, pos, console>>

CaptureLoad ==      \* trace[trace_pos++] = gpio_word
    /\ capture = "load"
    /\ pos' = tracePos
    /\ capture' = "store"
    /\ UNCHANGED <<state, trigger, eIrqOn, guest, clock, console, torn>>

CaptureStore ==     \* beyond the buffer it hits other members of the object
    /\ capture = "store"
    /\ trace' = [i \in DOMAIN trace |-> IF i = pos THEN number - 1 ELSE trace[i]]
    /\ tracePos' = pos + 1
    /\ capture' = "test"
    /\ UNCHANGED <<traceEnabled, traceFull, trigger, eIrqOn, guest, clock, pos, console, torn>>

\* Slip: one word short.
CaptureTest_Short ==
    /\ capture = "test"
    /\ capture' = IF tracePos >= TraceSize - 1 THEN "disable" ELSE "idle"
    /\ UNCHANGED <<state, trigger, eIrqOn, guest, clock, pos, console, torn>>

\* Slip: "trace_pos > trace_size".
CaptureTest_OneMore ==
    /\ capture = "test"
    /\ capture' = IF tracePos > TraceSize THEN "disable" ELSE "idle"
    /\ UNCHANGED <<state, trigger, eIrqOn, guest, clock, pos, console, torn>>

CaptureTest ==      \* if (trace_pos >= trace_size)
    /\ capture = "test"
    /\ capture' = IF tracePos >= TraceSize THEN "disable" ELSE "idle"
    /\ UNCHANGED <<state, trigger, eIrqOn, guest, clock, pos, console, torn>>

CaptureDisable ==
    /\ capture = "disable"
    /\ traceEnabled' = FALSE
    /\ capture' = "full"
    /\ UNCHANGED <<trace, tracePos, traceFull, trigger, eIrqOn, guest, clock, pos, console, torn>>

CaptureFull ==
    /\ capture = "full"
    /\ traceFull' = TRUE
    /\ capture' = "idle"
    /\ UNCHANGED <<trace, tracePos, traceEnabled, trigger, eIrqOn, guest, clock, pos, console, torn>>

Capture == CaptureLoad \/ CaptureStore \/ CaptureTest \/ CaptureDisable \/ CaptureFull

-----------------------------------------------------------------------------
(* The guest: its writes to SYSTEM_TRACE, in dma_bus_write_irq_handler, and  *)
(* its RTI.                                                                 *)
GuestArms ==
    /\ running /\ ~reset
    /\ TraceArm
    /\ torn' = (capture # "idle" \/ console # "idle")
    /\ UNCHANGED <<trigger, eIrqOn, guest, clock, capture, pos, console>>

GuestStops ==
    /\ running /\ ~reset
    /\ traceEnabled' = FALSE
    /\ UNCHANGED <<trace, tracePos, traceFull, trigger, eIrqOn, guest, clock, capture, pos,
                   console, torn>>

GuestReturns ==     \* apply_rti()
    /\ running /\ ~reset
    /\ countdown' = RtiCycles
    /\ UNCHANGED <<state, trigger, eIrqOn, reset, running, strays, clock, capture, pos,
                   console, torn>>

(* The console on Core 0: "trace on", "trace off" and "trace <irq>".         *)
ConsoleArms ==
    /\ console = "idle"
    /\ tracePos' = 0
    /\ console' = "arm.full"
    /\ torn' = (capture # "idle")
    /\ UNCHANGED <<trace, traceEnabled, traceFull, trigger, eIrqOn, guest, clock, capture, pos>>

ConsoleStores ==
    /\ \/ /\ console = "arm.full" /\ traceFull' = FALSE /\ console' = "arm.enabled"
          /\ UNCHANGED <<traceEnabled, tracePos, trigger>>
       \/ /\ console = "arm.enabled" /\ traceEnabled' = TRUE /\ console' = "idle"
          /\ UNCHANGED <<tracePos, traceFull, trigger>>
       \/ /\ console = "clear.full" /\ traceFull' = FALSE /\ console' = "clear.pos"
          /\ UNCHANGED <<traceEnabled, tracePos, trigger>>
       \/ /\ console = "clear.pos" /\ tracePos' = 0 /\ console' = "clear.trigger"
          /\ UNCHANGED <<traceEnabled, traceFull, trigger>>
       \/ /\ console = "clear.trigger" /\ trigger' = FALSE /\ console' = "idle"
          /\ UNCHANGED <<traceEnabled, tracePos, traceFull>>
    /\ UNCHANGED <<trace, eIrqOn, guest, clock, capture, pos, torn>>

ConsoleClears ==
    /\ console = "idle"
    /\ traceEnabled' = FALSE
    /\ console' = "clear.full"
    /\ torn' = (torn \/ capture # "idle")
    /\ UNCHANGED <<trace, tracePos, traceFull, trigger, eIrqOn, guest, clock, capture, pos>>

ConsoleTriggers ==
    /\ console = "idle"
    /\ trigger' = TRUE
    /\ UNCHANGED <<state, eIrqOn, guest, clock, capture, pos, console, torn>>

(* stop() asserts RESET and holds it for 500 us.  start() finds run_state    *)
(* RS_RESET, setup() ends a countdown and restarts the fill of an armed     *)
(* trace, and RESET is released.  A countdown is over long before that.     *)
StopGuest ==
    /\ ~reset /\ console = "idle"
    /\ reset' = TRUE
    /\ UNCHANGED <<state, trigger, eIrqOn, running, countdown, strays, clock, capture, pos,
                   console, torn>>

\* Slip: setup() does not know of the trace.
StartGuest_NoRestart ==
    /\ reset /\ ~running /\ countdown = 0 /\ console = "idle" /\ capture = "idle"
    /\ reset' = FALSE
    /\ UNCHANGED <<state, trigger, eIrqOn, running, countdown, strays, clock, capture, pos,
                   console, torn>>

StartGuest ==
    /\ reset /\ ~running /\ countdown = 0 /\ console = "idle" /\ capture = "idle"
    /\ reset' = FALSE
    /\ IF traceEnabled THEN tracePos' = 0 /\ traceFull' = FALSE
                       ELSE UNCHANGED <<tracePos, traceFull>>
    /\ UNCHANGED <<trace, traceEnabled, trigger, eIrqOn, running, countdown, strays, clock,
                   capture, pos, console, torn>>

Core0 == ConsoleArms \/ ConsoleStores \/ ConsoleClears \/ ConsoleTriggers
             \/ StopGuest \/ StartGuest

Next ==
    \/ EFall \/ Capture \/ GuestArms \/ GuestStops \/ GuestReturns \/ Core0
    \/ \E vector, outermost \in BOOLEAN : QRise(vector, outermost)

Spec == Init /\ [][Next]_vars

-----------------------------------------------------------------------------
TypeOK ==
    /\ trace \in [0 .. TraceSize - 1 -> 0 .. MaxCycles]
    /\ tracePos \in 0 .. MaxCycles /\ pos \in 0 .. MaxCycles
    /\ traceEnabled \in BOOLEAN /\ traceFull \in BOOLEAN /\ trigger \in BOOLEAN
    /\ eIrqOn \in BOOLEAN /\ torn \in BOOLEAN
    /\ reset \in BOOLEAN /\ running \in BOOLEAN /\ countdown \in 0 .. RtiCycles
    /\ strays \subseteq 1 .. MaxCycles
    /\ number \in 1 .. MaxCycles /\ half \in {"Q", "E"}
    /\ capture \in {"idle", "load", "store", "test", "disable", "full"}
    /\ console \in {"idle", "arm.full", "arm.enabled", "clear.full", "clear.pos",
                    "clear.trigger"}

(* A capture never stores beyond the buffer, whoever armed an active trace   *)
(* again, as long as no arm and no clear met a capture or one another.      *)
OneShot == ~torn => tracePos <= TraceSize

(* What the console prints is a trace of the bus: the words before trace_pos *)
(* are of consecutive cycles, with none missing and none of an older trace, *)
(* whoever armed, stopped or cleared it, and whether or not the guest was   *)
(* reset with the trace armed.  Only the last may be a stray, of the one    *)
(* cycle that was RS_RUNNING under RESET.                                   *)
TraceIsContiguous ==
    ~torn => \A i \in 1 .. tracePos - 1 : \/ trace[i] = trace[i - 1] + 1
                                          \/ i = tracePos - 1 /\ trace[i] \in strays

(* A buffer said to be full is, and no capture is on: the console, which     *)
(* reads three stores of the other core, prints trace_size words or none.   *)
FullIsComplete ==
    traceFull /\ console = "idle" /\ ~torn => tracePos = TraceSize /\ ~traceEnabled
=============================================================================
