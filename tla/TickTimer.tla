------------------------------ MODULE TickTimer ------------------------------
(***************************************************************************)
(* class tick_timer (src/tick_timer.cpp): the 50 Hz interrupt, and its two *)
(* registers.  Three contexts store to the same volatiles: the callback of *)
(* the SDK, on Core 0 whose alarm pool is the default one; control() and   *)
(* acknowledge(), in DMA interrupt handlers of Core 1; and reset(), which  *)
(* a command runs on Core 0.  Between the cores anything interleaves, so   *)
(* each store is a step; on Core 0 the callback preempts reset().          *)
(*                                                                         *)
(* The guest reads or writes a register by DMA first; the handler comes    *)
(* after, and ends before the guest's next access.  tick(), which would    *)
(* count nmi_countdown down, is never called: its call is compiled out.    *)
(***************************************************************************)
EXTENDS Integers

CONSTANT Countdowns     \* values the guest writes to bits 5-1 of the control register

ASSUME CountdownAssumption == Countdowns \subseteq 0 .. 31

VARIABLES
    enabled, irqPending, nmiCountdown,
    status,     \* reg[status_offset] is 0x80
    alarm,      \* the callback: "idle", or the store to come, "pending" or "status"
    access,     \* the access of the guest whose handler has not ended
    isr,        \* the handler: "idle", or what it does next
    resetting   \* reset(): "no", or the store to come

timerVars == <<enabled, irqPending, nmiCountdown, status, alarm, access, isr, resetting>>

NoAccess == [kind |-> "none"]
StatusRead == [kind |-> "read"]
Control(e, c) == [kind |-> "control", enable |-> e, countdown |-> c]

TimerInit ==
    /\ enabled = FALSE /\ irqPending = FALSE /\ nmiCountdown = 0 /\ status = FALSE
    /\ alarm = "idle" /\ access = NoAccess /\ isr = "idle" /\ resetting = "no"

-----------------------------------------------------------------------------
(* callback() *)

\* Slip: no new tick while the last one is pending.
AlarmFires_Once ==
    /\ alarm = "idle" /\ enabled /\ ~irqPending
    /\ alarm' = "pending"
    /\ UNCHANGED <<enabled, irqPending, nmiCountdown, status, access, isr, resetting>>

AlarmFires ==       \* if (self->enabled)
    /\ alarm = "idle" /\ enabled
    /\ alarm' = "pending"
    /\ UNCHANGED <<enabled, irqPending, nmiCountdown, status, access, isr, resetting>>

AlarmPending ==     \* self->irq_pending = true
    /\ alarm = "pending"
    /\ irqPending' = TRUE
    /\ alarm' = "status"
    /\ UNCHANGED <<enabled, nmiCountdown, status, access, isr, resetting>>

AlarmStatus ==      \* self->reg[self->status_offset] = 0x80
    /\ alarm = "status"
    /\ status' = TRUE
    /\ alarm' = "idle"
    /\ UNCHANGED <<enabled, irqPending, nmiCountdown, access, isr, resetting>>

Alarm == AlarmFires \/ AlarmPending \/ AlarmStatus

-----------------------------------------------------------------------------
(* The DMA handlers: control() is all five steps, acknowledge() the two     *)
(* that clear.                                                             *)
ControlEnable ==
    /\ access.kind = "control" /\ isr = "idle"
    /\ enabled' = access.enable
    /\ isr' = "test"
    /\ UNCHANGED <<irqPending, nmiCountdown, status, alarm, access, resetting>>

ControlTest ==      \* if (!enabled) reads it again
    /\ isr = "test"
    /\ isr' = IF enabled THEN "countdown" ELSE "pending"
    /\ UNCHANGED <<enabled, irqPending, nmiCountdown, status, alarm, access, resetting>>

ClearPending ==
    /\ isr = "pending" \/ (isr = "idle" /\ access = StatusRead)
    /\ irqPending' = FALSE
    /\ isr' = "status"
    /\ UNCHANGED <<enabled, nmiCountdown, status, alarm, access, resetting>>

ClearStatus ==
    /\ isr = "status"
    /\ status' = FALSE
    /\ \/ access.kind = "control" /\ isr' = "countdown" /\ access' = access
       \/ access = StatusRead /\ isr' = "idle" /\ access' = NoAccess
    /\ UNCHANGED <<enabled, irqPending, nmiCountdown, alarm, resetting>>

ControlCountdown ==
    /\ isr = "countdown"
    /\ nmiCountdown' = IF access.countdown # 0 THEN access.countdown ELSE nmiCountdown
    /\ isr' = "idle" /\ access' = NoAccess
    /\ UNCHANGED <<enabled, irqPending, status, alarm, resetting>>

TimerIsr == ControlEnable \/ ControlTest \/ ClearPending \/ ClearStatus \/ ControlCountdown

-----------------------------------------------------------------------------
(* reset(), which a callback may interrupt between any two of its stores.   *)
ResetEnabled ==
    /\ resetting = "no" /\ alarm = "idle"
    /\ enabled' = FALSE
    /\ resetting' = "pending"
    /\ UNCHANGED <<irqPending, nmiCountdown, status, alarm, access, isr>>

ResetPending ==
    /\ resetting = "pending" /\ alarm = "idle"
    /\ irqPending' = FALSE
    /\ resetting' = "countdown"
    /\ UNCHANGED <<enabled, nmiCountdown, status, alarm, access, isr>>

ResetCountdown ==
    /\ resetting = "countdown" /\ alarm = "idle"
    /\ nmiCountdown' = 0
    /\ resetting' = "status"
    /\ UNCHANGED <<enabled, irqPending, status, alarm, access, isr>>

ResetStatus ==
    /\ resetting = "status" /\ alarm = "idle"
    /\ status' = FALSE
    /\ resetting' = "no"
    /\ UNCHANGED <<enabled, irqPending, nmiCountdown, alarm, access, isr>>

ResetGoesOn == ResetPending \/ ResetCountdown \/ ResetStatus

TimerReset == ResetEnabled \/ ResetGoesOn

-----------------------------------------------------------------------------
(* The accesses of the guest themselves. *)
GuestReads ==
    /\ access = NoAccess
    /\ access' = StatusRead
    /\ UNCHANGED <<enabled, irqPending, nmiCountdown, status, alarm, isr, resetting>>

GuestWrites(e, c) ==
    /\ access = NoAccess
    /\ access' = Control(e, c)
    /\ UNCHANGED <<enabled, irqPending, nmiCountdown, status, alarm, isr, resetting>>

Guest == GuestReads \/ \E e \in BOOLEAN, c \in Countdowns : GuestWrites(e, c)

-----------------------------------------------------------------------------
Controls == [kind : {"control"}, enable : BOOLEAN, countdown : Countdowns]

TimerTypeOK ==
    /\ enabled \in BOOLEAN /\ irqPending \in BOOLEAN /\ status \in BOOLEAN
    /\ nmiCountdown \in 0 .. 31
    /\ alarm \in {"idle", "pending", "status"}
    /\ access \in {NoAccess, StatusRead} \cup Controls
    /\ isr \in {"idle", "test", "pending", "status", "countdown"}
    /\ isr \in {"test", "pending", "countdown"} => access \in Controls
    /\ isr = "status" => access # NoAccess
    /\ resetting \in {"no", "pending", "countdown", "status"}

(* A handler the tick interrupts for finds out sooner or later whom to      *)
(* acknowledge: however acknowledge(), control() and reset() tore the two  *)
(* stores of the callback apart, while the timer is on a pending tick gets *)
(* its bit 7 from a later tick.                                            *)
TickIsShown == (irqPending /\ enabled) ~> (status \/ ~irqPending \/ ~enabled)
=============================================================================
