------------------------------ MODULE Interrupts ------------------------------
(***************************************************************************)
(* How an interrupt gets from a device to a pin of the 6809                *)
(* (src/pico_thing.cpp).  After a rising edge of Q the for(;;) loop asks   *)
(* the four sources in turn and stores pending_interrupts; at each rising  *)
(* edge the GPIO handler, which preempts the loop, sets the pins from it.  *)
(* The sources are the console (Core 0), the tick timer (TickTimer.tla)    *)
(* and two serial ports, of which only the answer of has_interrupt() is    *)
(* kept: the port raises it, a read of the guest takes it away (Acia.tla). *)
(***************************************************************************)
EXTENDS TickTimer

CONSTANTS
    ConsoleLines,   \* the lines the console ever asks for
    BusyPorts       \* the ports that ever raise an interrupt

Lines == {"NMI", "FIRQ", "IRQ"}
Ports == {"fast", "aux"}     \* fast_serial and aux_serial

ASSUME SourcesAssumption == ConsoleLines \subseteq Lines /\ BusyPorts \subseteq Ports

VARIABLES
    console,    \* console_interrupt
    port,       \* what has_interrupt() of each port would answer: IRQ or not
    pc,         \* the loop: "top", the source it asks next, or "store"
    counted,    \* interrupt_refcount: the interrupts answered in this pass
    qRising,    \* q_rising_edge
    pend,       \* pending_interrupts
    pins,       \* the interrupt pins that are asserted
    steady      \* history: the IRQ sources pending ever since the pass began

loopVars == <<pc, counted, qRising>>
vars == <<timerVars, console, port, loopVars, pend, pins, steady>>

Sources == {"console", "tick"} \cup Ports

PendingIrq(tick, lines, con) ==
    {s \in Sources : \/ s = "console" /\ con = "IRQ"
                     \/ s = "tick" /\ tick
                     \/ s \in Ports /\ lines[s]}
IrqSources == PendingIrq(irqPending, port, console)
StillSteady == steady' = steady \cap IrqSources'

Init ==
    /\ TimerInit
    /\ console = "NONE" /\ port = [p \in Ports |-> FALSE]
    /\ pc = "top" /\ counted = {} /\ qRising = FALSE
    /\ pend = {} /\ pins = {}
    /\ steady = {}

-----------------------------------------------------------------------------
(* The loop. *)
Edge ==
    /\ pc = "top" /\ qRising
    /\ qRising' = FALSE /\ counted' = {}
    /\ pc' = "console"
    /\ steady' = IrqSources
    /\ UNCHANGED <<timerVars, console, port, pend, pins>>

\* Slip: the tick timer is passed over.
AskConsole_Skips ==
    /\ pc = "console"
    /\ counted' = counted \cup ({console} \cap Lines)
    /\ pc' = "fast"
    /\ UNCHANGED <<timerVars, console, port, qRising, pend, pins, steady>>

\* Slip: the answer INTERRUPT_NONE is taken for a line.
AskConsole_None ==
    /\ pc = "console"
    /\ counted' = counted \cup {console}
    /\ pc' = "tick"
    /\ UNCHANGED <<timerVars, console, port, qRising, pend, pins, steady>>

AskConsole ==
    /\ pc = "console"
    /\ counted' = counted \cup ({console} \cap Lines)
    /\ pc' = "tick"
    /\ UNCHANGED <<timerVars, console, port, qRising, pend, pins, steady>>

AskTick ==
    /\ pc = "tick"
    /\ counted' = counted \cup (IF irqPending THEN {"IRQ"} ELSE {})
    /\ pc' = "fast"
    /\ UNCHANGED <<timerVars, console, port, qRising, pend, pins, steady>>

AskPort(p) ==
    /\ pc = p
    /\ counted' = counted \cup (IF port[p] THEN {"IRQ"} ELSE {})
    /\ pc' = IF p = "fast" THEN "aux" ELSE "store"
    /\ UNCHANGED <<timerVars, console, port, qRising, pend, pins, steady>>

StorePending ==
    /\ pc = "store"
    /\ pend' = counted
    /\ pc' = "top"
    /\ UNCHANGED <<timerVars, console, port, counted, qRising, pins, steady>>

Loop == Edge \/ AskConsole \/ AskTick \/ StorePending \/ \E p \in Ports : AskPort(p)

-----------------------------------------------------------------------------
\* Slip: the pins are only ever asserted here.
QRise_NoDeassert ==
    /\ qRising' = TRUE
    /\ pins' = pins \cup pend
    /\ pend' = pend \ {"NMI"}
    /\ UNCHANGED <<timerVars, console, port, pc, counted, steady>>

\* gpio_clock_eq_irq_handler.
QRise ==
    /\ qRising' = TRUE
    /\ pins' = pend
    /\ pend' = pend \ {"NMI"}
    /\ UNCHANGED <<timerVars, console, port, pc, counted, steady>>

(* The sources. *)
ConsoleSets(i) ==
    /\ console = "NONE"
    /\ console' = i
    /\ UNCHANGED <<timerVars, port, loopVars, pend, pins, steady>>

ConsoleClears ==
    /\ console # "NONE"
    /\ console' = "NONE"
    /\ UNCHANGED <<timerVars, port, loopVars, pend, pins>>
    /\ StillSteady

PortRaises(p) ==
    /\ ~port[p]
    /\ port' = [port EXCEPT ![p] = TRUE]
    /\ UNCHANGED <<timerVars, console, loopVars, pend, pins, steady>>

PortServed(p) ==
    /\ port[p]
    /\ port' = [port EXCEPT ![p] = FALSE]
    /\ UNCHANGED <<timerVars, console, loopVars, pend, pins>>
    /\ StillSteady

\* Slip: what docs/virtual-peripherals.md says acknowledge() does.
TimerStep_ClearsPend ==
    /\ Alarm \/ TimerIsr \/ Guest \/ TimerReset
    /\ pend' = IF ClearPending /\ access = StatusRead THEN pend \ {"IRQ"} ELSE pend
    /\ UNCHANGED <<console, port, loopVars, pins>>
    /\ StillSteady

TimerStep ==
    /\ Alarm \/ TimerIsr \/ Guest \/ TimerReset
    /\ UNCHANGED <<console, port, loopVars, pend, pins>>
    /\ StillSteady

Next ==
    \/ Loop \/ QRise \/ TimerStep \/ ConsoleClears
    \/ \E i \in ConsoleLines : ConsoleSets(i)
    \/ \E p \in BusyPorts : PortRaises(p) \/ PortServed(p)

Spec == Init /\ [][Next]_vars

(* The loop runs whenever no handler does, Q ticks, the alarm fires every    *)
(* 20 ms while the timer is on, and the callback, the handlers and reset()  *)
(* end.  A port, the guest and the console owe nothing.                    *)
Fairness ==
    /\ WF_vars(Loop) /\ WF_vars(QRise)
    /\ WF_vars(Alarm /\ TimerStep) /\ WF_vars(TimerIsr /\ TimerStep)
    /\ WF_vars(ResetGoesOn /\ TimerStep)

FairSpec == Spec /\ Fairness

-----------------------------------------------------------------------------
TypeOK ==
    /\ TimerTypeOK
    /\ console \in Lines \cup {"NONE"} /\ port \in [Ports -> BOOLEAN]
    /\ pc \in {"top", "console", "tick", "store"} \cup Ports
    /\ counted \subseteq Lines /\ pend \subseteq Lines /\ pins \subseteq Lines
    /\ qRising \in BOOLEAN /\ steady \subseteq Sources

(* Serving one device never deasserts /IRQ under another: a source that was  *)
(* pending when the loop began its last pass and is pending still is in     *)
(* pending_interrupts, whoever was acknowledged during that pass or since   *)
(* ("Clearing here would briefly deassert /IRQ even if another device still *)
(* has a pending interrupt").                                               *)
IrqHeld == pc = "top" /\ steady # {} => "IRQ" \in pend

(* A tick gets to the pin, unless it is acknowledged or switched off first.  *)
TickReaches == irqPending ~> ("IRQ" \in pins \/ ~irqPending)

(* /IRQ is released once every source has been served.                      *)
IrqReleased == (IrqSources = {}) ~> ("IRQ" \notin pins \/ IrqSources # {})
=============================================================================
