-------------------------------- MODULE Power --------------------------------
(***************************************************************************)
(* main(), set_power() and reset_power() of src/pico_thing.cpp: Core 0     *)
(* powers the guest, claims DMA channels and PIO state machines, launches  *)
(* Core 1 and, when the user powers down, takes it all back; Core 1 brings *)
(* itself up beside it; and the watchdog of poll_console() samples the     *)
(* counter of Core 1's loop.                                               *)
(*                                                                         *)
(* As in RunControl, Core 0 is the script of its statements to come.  What *)
(* runs on the guest is left out: it matters here that it is clocked and   *)
(* served by Core 1.                                                       *)
(***************************************************************************)
EXTENDS Integers, Sequences, SequencesExt

CONSTANTS
    Settled,    \* the passes that main() waits for (100)
    Threshold,  \* WATCHDOG_THRESHOLD (10)
    Patient     \* the user waits for "Core1 process started" before the next command

ASSUME PowerAssumption ==
    Settled \in Nat \ {0} /\ Threshold \in Nat \ {0} /\ Patient \in BOOLEAN

VARIABLES
    script,     \* Core 0: statements to come
    power, reset,               \* pins
    runState,
    channels,   \* claimed pairs of DMA channels
    machines,   \* claimed state machines of each PIO, with their programs
    panicked,
    core1,      \* "off", "starting", "loop", "stuck"
    up,         \* stages of its bring-up that are done
    ticking,    \* the alarm of the tick timer runs
    initialised,                \* core1_initialised
    loops,      \* core1_loop_count, as far as main() waits
    moved,      \* it has changed since watchdog_last_loop_count was taken
    missed, stalled             \* watchdog_miss_count, watchdog_stalled

pins == <<power, reset>>
claims == <<channels, machines, panicked>>
core1Vars == <<core1, up, ticking, initialised, loops>>
watchdog == <<missed, stalled>>
vars == <<script, pins, runState, claims, core1Vars, moved, watchdog>>

At(op) == script # <<>> /\ Head(script) = op
Continue == script' = Tail(script)

-----------------------------------------------------------------------------
(* Core 0's commands.                                                      *)

SetPower == <<"init", "clock", "read_dma", "read", "write", "write_dma", "task", "rti", "launch">>
ResetPower == <<"tick_off", "flag_off", "kill", "free_rti", "free_task", "free_write", "free_read",
                "free_clock", "assert", "hold", "deinit">>
Go   == <<"stopped", "setup", "release">>
Run  == Go \o <<"assert", "hold">>
Stop == <<"powered", "assert", "hold">>

Pio == [clock |-> 0, read |-> 0, write |-> 1, rti |-> 1, task |-> 2]
MachinesPerPio == 4
\* What pio_shutdown() gives back, by program.
FreeOf == [clock |-> "free_clock", read |-> "free_read", write |-> "free_write",
           rti |-> "free_rti", task |-> "free_task"]
Dma == [clock |-> {}, read |-> {"read_dma"}, write |-> {"write_dma"}, rti |-> {}, task |-> {}]

\* The stages of main_core1().
BringUp == <<"serial", "clock", "observer", "read", "write", "responders", "task", "rti", "tick">>
Done == Len(BringUp)
Observing == core1 # "off" /\ up >= 3

\* mc6809::init(), with setup().
PowerUp ==
    /\ At("init") /\ Continue
    /\ power' = TRUE /\ reset' = TRUE /\ runState' = "RESET"
    /\ UNCHANGED <<claims, core1Vars, moved, watchdog>>

\* A state machine and its program: panic() when the PIO has none to spare.
ClaimMachine ==
    /\ \E m \in DOMAIN Pio :
        /\ At(m)
        /\ panicked' = (machines[Pio[m]] >= MachinesPerPio)
        /\ machines' = [machines EXCEPT ![Pio[m]] = @ + IF panicked' THEN 0 ELSE 1]
    /\ IF panicked' THEN script' = <<>> ELSE Continue
    /\ UNCHANGED <<pins, runState, channels, core1Vars, moved, watchdog>>

\* A pair of DMA channels, by number: panic() when it is taken.
ClaimChannels ==
    /\ \E c \in {"read_dma", "write_dma"} :
        At(c) /\ panicked' = (c \in channels) /\ channels' = channels \cup {c}
    /\ IF panicked' THEN script' = <<>> ELSE Continue
    /\ UNCHANGED <<pins, runState, machines, core1Vars, moved, watchdog>>

Launch ==
    /\ At("launch") /\ Continue
    /\ core1' = "starting" /\ up' = 0
    /\ UNCHANGED <<pins, runState, claims, ticking, initialised, loops, moved, watchdog>>

\* Slip: the timer, which Core 1 started, is left to Core 1.
StopTick_Keeps ==
    /\ At("tick_off") /\ Continue
    /\ UNCHANGED <<pins, runState, claims, core1Vars, moved, watchdog>>
StopTick ==
    /\ At("tick_off") /\ Continue
    /\ ticking' = FALSE
    /\ UNCHANGED <<pins, runState, claims, core1, up, initialised, loops, moved, watchdog>>

\* core1_initialised = false, then multicore_reset_core1().
Kill ==
    /\ \/ At("flag_off") /\ initialised' = FALSE /\ UNCHANGED <<core1, up>>
       \/ At("kill") /\ core1' = "off" /\ up' = 0 /\ UNCHANGED initialised
    /\ Continue
    /\ UNCHANGED <<pins, runState, claims, ticking, loops, moved, watchdog>>

\* Slip: the read program's machine is given back to the other PIO.
Free_Swapped ==
    /\ \E m \in DOMAIN Pio :
        /\ At(FreeOf[m])
        /\ machines' = [machines EXCEPT ![IF m = "read" THEN Pio["write"] ELSE Pio[m]] = @ - 1]
        /\ channels' = channels \ Dma[m]
    /\ Continue
    /\ UNCHANGED <<pins, runState, panicked, core1Vars, moved, watchdog>>
\* The statements of pio_shutdown(), by program.
Free ==
    /\ \E m \in DOMAIN Pio :
        /\ At(FreeOf[m])
        /\ machines' = [machines EXCEPT ![Pio[m]] = @ - 1]
        /\ channels' = channels \ Dma[m]
    /\ Continue
    /\ UNCHANGED <<pins, runState, panicked, core1Vars, moved, watchdog>>

\* mc6809::deinit().
PowerDown ==
    /\ At("deinit") /\ Continue
    /\ power' = FALSE /\ reset' = TRUE /\ runState' = "UNPOWERED"
    /\ UNCHANGED <<claims, core1Vars, moved, watchdog>>

\* assert_powered(), assert_stopped().
Asserted ==
    /\ At("powered") \/ At("stopped")
    /\ IF runState = "UNPOWERED" \/ (At("stopped") /\ runState # "RESET")
       THEN script' = <<"resample">> ELSE Continue
    /\ UNCHANGED <<pins, runState, claims, core1Vars, moved, watchdog>>

\* setup(), RESET_DEASSERT and RESET_ASSERT; the handler, where it runs, is done with the
\* old level before the hold is over.
Seen == Observing => (runState = "RESET") = reset
DriveReset ==
    /\ \/ At("setup") /\ runState' = "RESET" /\ UNCHANGED reset
       \/ At("release") /\ Seen /\ reset' = FALSE /\ UNCHANGED runState
       \/ At("assert") /\ reset' = TRUE /\ UNCHANGED runState
       \/ At("hold") /\ Seen /\ UNCHANGED <<reset, runState>>
    /\ Continue
    /\ UNCHANGED <<power, claims, core1Vars, moved, watchdog>>

\* Slip: main() goes on as soon as Core 1 is launched.
WaitForLoop_Not ==
    /\ At("wait") /\ Continue
    /\ UNCHANGED <<pins, runState, claims, core1Vars, moved, watchdog>>
\* main() before its startup commands.
WaitForLoop ==
    /\ At("wait") /\ loops >= Settled /\ Continue
    /\ UNCHANGED <<pins, runState, claims, core1Vars, moved, watchdog>>

\* poll_console() begins, or comes back from a command.
Resample ==
    /\ \/ At("console") /\ initialised
       \/ At("resample")
    /\ Continue /\ moved' = FALSE
    /\ UNCHANGED <<pins, runState, claims, core1Vars, watchdog>>

\* Slip: the guard asks for a guest that runs.
Sample_Running ==
    /\ script = <<>> /\ ~panicked
    /\ IF ~moved /\ runState = "RUNNING"
       THEN /\ missed' = IF missed < Threshold THEN missed + 1 ELSE missed
            /\ stalled' = (stalled \/ missed' >= Threshold)
       ELSE missed' = 0 /\ stalled' = FALSE
    /\ moved' = FALSE
    /\ UNCHANGED <<script, pins, runState, claims, core1Vars>>
\* The watchdog, every WATCHDOG_INTERVAL_MS that the console is idle.
Sample ==
    /\ script = <<>> /\ ~panicked
    /\ IF ~moved /\ initialised
       THEN /\ missed' = IF missed < Threshold THEN missed + 1 ELSE missed
            /\ stalled' = (stalled \/ missed' >= Threshold)
       ELSE missed' = 0 /\ stalled' = FALSE
    /\ moved' = FALSE
    /\ UNCHANGED <<script, pins, runState, claims, core1Vars>>

Command ==
    /\ script = <<>> /\ ~panicked
    /\ Patient => (power => initialised)
    /\ \/ ~power /\ script' = SetPower \o <<"resample">>
       \/ power /\ script' = ResetPower \o <<"resample">>
       \/ script' \in {Go \o <<"resample">>, Run \o <<"resample">>, Stop \o <<"resample">>}
    /\ UNCHANGED <<pins, runState, claims, core1Vars, moved, watchdog>>

-----------------------------------------------------------------------------
(* Core 1.                                                                 *)

\* main_core1() before its loop: core1_initialised is its last store.
Stage ==
    /\ core1 = "starting"
    /\ IF up < Done
       THEN /\ up' = up + 1 /\ UNCHANGED <<core1, initialised>>
            /\ ticking' = (ticking \/ BringUp[up'] = "tick")
       ELSE core1' = "loop" /\ initialised' = TRUE /\ UNCHANGED <<up, ticking>>
    /\ UNCHANGED <<script, pins, runState, claims, loops, moved, watchdog>>

Pass ==
    /\ core1 = "loop"
    /\ loops' = IF loops < Settled THEN loops + 1 ELSE loops
    /\ moved' = TRUE
    /\ UNCHANGED <<script, pins, runState, claims, core1, up, ticking, initialised, watchdog>>

\* Handlers starve the loop, or it hangs; it may come back.
Starve ==
    /\ \/ core1 = "loop" /\ core1' = "stuck"
       \/ core1 = "stuck" /\ core1' = "loop"
    /\ UNCHANGED <<script, pins, runState, claims, up, ticking, initialised, loops, moved,
                   watchdog>>

\* The GPIO handler, once it is enabled.
Observe ==
    /\ Observing /\ power /\ ~Seen
    /\ runState' = IF reset THEN "RESET" ELSE "RUNNING"
    /\ UNCHANGED <<script, pins, claims, core1Vars, moved, watchdog>>

-----------------------------------------------------------------------------
Init ==
    /\ script = SetPower \o <<"wait">> \o Run \o <<"console">>
    /\ power = FALSE /\ reset = TRUE /\ runState = "UNPOWERED"
    /\ channels = {} /\ machines = [p \in 0 .. 2 |-> 0] /\ panicked = FALSE
    /\ core1 = "off" /\ up = 0 /\ ticking = FALSE /\ initialised = FALSE
    /\ loops = 0 /\ moved = FALSE /\ missed = 0 /\ stalled = FALSE

Core0 ==
    \/ PowerUp \/ ClaimMachine \/ ClaimChannels \/ Launch \/ StopTick \/ Kill \/ Free
    \/ PowerDown \/ Asserted \/ DriveReset \/ WaitForLoop \/ Resample
Next == Core0 \/ Sample \/ Command \/ Stage \/ Pass \/ Starve \/ Observe

\* Core 0 goes through its commands, and its console, however busy, is idle for a sampling
\* interval again and again; the handler runs in every cycle.  Of the loop nothing is asked.
Fairness == WF_vars(Core0) /\ SF_vars(Sample) /\ WF_vars(Stage) /\ WF_vars(Observe)

Spec == Init /\ [][Next]_vars /\ Fairness

-----------------------------------------------------------------------------
Ops == {"init", "clock", "read_dma", "read", "write", "write_dma", "task", "rti", "launch",
        "tick_off", "flag_off", "kill", "free_rti", "free_task", "free_write", "free_read",
        "free_clock", "assert", "hold", "deinit", "stopped", "powered", "setup", "release",
        "wait", "console", "resample"}
PowerTypeOK ==
    /\ script \in Seq(Ops)
    /\ {power, reset, panicked, ticking, initialised, moved, stalled} \subseteq BOOLEAN
    /\ runState \in {"UNPOWERED", "RESET", "RUNNING"}
    /\ channels \subseteq {"read_dma", "write_dma"}
    /\ machines \in [0 .. 2 -> 0 .. MachinesPerPio]
    /\ core1 \in {"off", "starting", "loop", "stuck"} /\ up \in 0 .. Done
    /\ loops \in 0 .. Settled /\ missed \in 0 .. Threshold

\* The guest can be powered down and up for ever: nothing is found taken, and with the power
\* off no channel or machine is claimed, no alarm of the timer runs, and the flag that
\* tells of a running Core 1 is off (src/pico_thing.cpp:2737, reset_power()).
OffIsOff ==
    /\ ~panicked
    /\ runState = "UNPOWERED" =>
        /\ channels = {} /\ machines = [p \in 0 .. 2 |-> 0]
        /\ ~ticking /\ ~initialised

\* A guest is out of RESET only where Core 1 has finished its bring-up, so that its bus
\* accesses are answered -- except while reset_power() tears the answering down
\* (src/pico_thing.cpp:2809, main()).
GuestIsServed == ~reset => up = Done \/ Contains(script, "deinit")

\* A loop of Core 1 that has stopped is reported, whatever the guest is doing and whatever
\* the user types, unless it comes back or is killed first (src/pico_thing.cpp:1938).
StallIsReported == (core1 = "stuck" /\ loops = Settled) ~> (stalled \/ core1 # "stuck")
=============================================================================
