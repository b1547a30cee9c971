------------------------------- MODULE Console -------------------------------
(***************************************************************************)
(* process_command() and poll_console() of src/pico_thing.cpp on Core 0.   *)
(* A command is the script of its statements, executed by RunControl one   *)
(* at a time beside Core 1 and the guest; after each command the console   *)
(* polls the watchpoint before it reads the next.                          *)
(*                                                                         *)
(* Power is on throughout (module Power).  Commands that only print, the   *)
(* trace commands (BusTrace), TASK, FREQ, TIME and USB are left out.       *)
(***************************************************************************)
EXTENDS RunControl

CONSTANT Commands   \* the commands the user types

VARIABLES
    cmd,            \* the command that is executed, or the last one
    polled,         \* the console has polled the watchpoint since
    breakActive,    \* break_active
    ignore          \* srecord_ignore

consoleVars == <<cmd, polled, breakActive, ignore>>
vars == <<runVars, consoleVars>>

Low == 1        \* the blocks of the model: the first and the last of an image
High == 2
CommandNames ==
    {"EXAMINE", "MODIFY", "FILL", "SNIPPET", "VECTOR", "RESET", "GO", "GO_ADDR", "STOP", "HALT",
     "RESTART", "IRQ_STROBE", "IRQ_SWI", "IRQ_RTI", "IRQ_NMI", "IRQ_CHUNK", "RUN", "RUN_CHUNK",
     "RUN_NOWAIT", "NITROS9", "BREAK", "BREAK_RETURN", "ARM",
     "S0", "S1_low", "S1_high", "S1_vectors", "S9"}
ASSUME ConsoleAssumption ==
    /\ Block = {Low, High}
    /\ Image = {"boot", "chunk"}
    /\ Commands \subseteq CommandNames

-----------------------------------------------------------------------------
Checked == <<Do("check")>>
Started == <<Do("check"), Do("setup"), Do("release")>>  \* start() of a command that did not
Begin   == <<Do("stopped"), Do("setup"), Do("release")>>    \* assert_stopped(), of one that did

LoadImage(d) ==
    CopyOut(Low, d) \o Moved("COPY_OUT", High, d)
ToChunk == <<Do("reset_vector")>>

\* EXAMINE DAT is EXAMINE of fixed addresses, LOOP is SNIPPET with a snippet of its own.
EXAMINE == Checked \o CopyIn(Low) \o CopyIn(High)
MODIFY  == Checked \o CopyOut(High, "boot")
FILL    == Checked \o Simple("FILL")
SNIPPET == <<Load("USER")>> \o Started
VECTOR  == <<Do("vectors")>>
RESET   == <<Do("clear")>>
GO      == Started
GO_ADDR == <<Do("reset_vector")>> \o Started
STOP    == Stop
HALT    == <<Do("halt")>>
RESTART == <<Do("go_on")>>

\* The preamble of the tests of IRQ, and the tests: 0; 1 and 5; 2, and with their own
\* vectors 3 and 4; 6.
Preamble == Checked \o <<Put("zero"), Do("vectors")>> \o Simple("ZERO")
IRQ_STROBE == Preamble \o <<Do("line_on"), Do("line_off")>>
Self    == Begin \o <<Do("await")>> \o Stop
IRQ_SWI == Preamble \o <<Load("SELF")>> \o Self
IRQ_RTI == Preamble \o <<Put("data"), Load("SELF")>> \o Self
IRQ_NMI == Preamble \o <<Load("TEST"), Do("nmi_vector")>> \o Begin
           \o <<Do("line_on"), Do("await")>> \o Stop \o <<Do("line_off")>>
IRQ_CHUNK ==
    Checked \o LoadImage("chunk") \o ToChunk \o Begin
    \o <<Do("signal"), Do("signal"), Do("line_on"), Do("line_off")>> \o Stop
    \o Begin \o <<Do("signal")>> \o Stop

\* DAT_INIT stands for the snippets, one chunk for the chunks.
RUN        == Checked \o Simple("DAT_INIT")
RUN_CHUNK  == Checked \o LoadImage("chunk") \o ToChunk \o TimedRun("memory")
RUN_NOWAIT == Checked \o LoadImage("chunk") \o ToChunk \o Begin
\* DBGMON goes to the end of memory, NITROS9 to its beginning, the boot device into it.
NITROS9 ==
    Checked \o Simple("DAT_INIT") \o CopyOut(High, "boot") \o CopyOut(Low, "boot")
    \o CopyOut(Low, "boot") \o ToChunk \o Begin

\* BREAK refuses while break_active, BREAK RETURN unless.
BREAK == IF breakActive THEN <<>>
         ELSE <<Load("BREAK"), Put("zero"), Do("nmi_vector"), Do("line_on"),
                Do("catch"), Do("line_off"), Do("active")>>
BREAK_RETURN == IF breakActive THEN <<Do("return")>> ELSE <<>>

\* A register written from the console goes through the write ring.
ARM == <<Do("push")>>

\* One S-record.  An S1 of an ignored load is dropped, as is one for a running guest.
RECORD(b) == IF ignore \/ runState # "RESET" THEN <<>> ELSE CopyOut(b, "boot")
RECORD_VECTORS == IF ignore THEN <<>> ELSE VECTOR
S9 == <<Do("reset_vector")>>

Script(c) ==
    CASE c = "EXAMINE"    -> EXAMINE
      [] c = "MODIFY"     -> MODIFY
      [] c = "FILL"       -> FILL
      [] c = "SNIPPET"    -> SNIPPET
      [] c = "VECTOR"     -> VECTOR
      [] c = "RESET"      -> RESET
      [] c = "GO"         -> GO
      [] c = "GO_ADDR"    -> GO_ADDR
      [] c = "STOP"       -> STOP
      [] c = "HALT"       -> HALT
      [] c = "RESTART"    -> RESTART
      [] c = "IRQ_STROBE" -> IRQ_STROBE
      [] c = "IRQ_SWI"    -> IRQ_SWI
      [] c = "IRQ_RTI"    -> IRQ_RTI
      [] c = "IRQ_NMI"    -> IRQ_NMI
      [] c = "IRQ_CHUNK"  -> IRQ_CHUNK
      [] c = "RUN"        -> RUN
      [] c = "RUN_CHUNK"  -> RUN_CHUNK
      [] c = "RUN_NOWAIT" -> RUN_NOWAIT
      [] c = "NITROS9"    -> NITROS9
      [] c = "BREAK"      -> BREAK
      [] c = "BREAK_RETURN" -> BREAK_RETURN
      [] c = "ARM"        -> ARM
      [] c = "S0"         -> <<>>
      [] c = "S1_low"     -> RECORD(Low)
      [] c = "S1_high"    -> RECORD(High)
      [] c = "S1_vectors" -> RECORD_VECTORS
      [] c = "S9"         -> S9

\* srecord_ignore: S0 and S9 reset it, an S1 for a running guest sets it.
Ignoring(c) ==
    CASE c \in {"S0", "S9"}           -> FALSE
      [] c \in {"S1_low", "S1_high"} -> ignore \/ runState # "RESET"
      [] OTHER                       -> ignore

-----------------------------------------------------------------------------
\* A line typed takes longer than a cycle and a pass of the loop: what the guest and
\* Core 1 were doing at the end of the last command has settled.
Command(c) ==
    /\ script = <<>> /\ polled
    /\ Seen /\ (reset => ring = <<>> /\ lpc = "idle")
    /\ cmd' = c /\ script' = Script(c) /\ polled' = FALSE
    /\ ignore' = Ignoring(c)
    /\ UNCHANGED <<line, pins, block, shared, state, armed, core1, guestVars, history,
                   breakActive>>

\* The statements that the console executes itself.

\* peripheral_clear(FALSE): every register is 0.
ClearRegisters ==
    /\ At("clear") /\ Continue
    /\ snippet' = [code |-> "USER", at |-> 0] /\ resetVec' = "memory" /\ nmiVec' = "memory"
    /\ shared' = "zero"
    /\ prog' = Derailed /\ guest' = Spinning("USER")
    /\ meddled' = (meddled \/ Trapping)
    /\ UNCHANGED <<line, pins, state, armed, core1, nmi, memory, reached, asked,
                   consoleVars>>

PushWrite ==
    /\ At("push") /\ Len(ring) < MaxRing /\ Continue
    /\ \E w \in {"arm", "disarm"} : ring' = Append(ring, w)
    /\ asked' = TRUE
    /\ UNCHANGED <<line, pins, block, shared, state, armed, lpc, savedNmi, guestVars,
                   reached, meddled, consoleVars>>

\* The waits of the chunk test for READY, DONE and WP_ARMED, in other bytes of the buffer.
Signal ==
    /\ At("signal")
    /\ Continue \/ script' = Stop
    /\ UNCHANGED <<line, pins, block, shared, state, armed, core1, guestVars, history,
                   consoleVars>>

\* BREAK waits for the stacked PC, and gives up on a guest that takes no interrupt.
TakesInterrupts == ~reset /\ ~halt /\ (prog = "memory" \/ snippet.code = "TEST")
Catch ==
    /\ At("catch")
    /\ \/ shared # "zero" /\ Continue
       \/ ~TakesInterrupts /\ (reset \/ nmi) /\ script' = <<Do("line_off")>>
    /\ UNCHANGED <<line, pins, block, shared, state, armed, core1, guestVars, history,
                   consoleVars>>

BreakSteps ==
    /\ \/ At("active") /\ breakActive' = TRUE /\ UNCHANGED <<snippet, guest>>
       \/ /\ At("return") /\ breakActive' = FALSE /\ guest' = Spinning("RETURNED")
          /\ snippet' = IF snippet.code = "BREAK" THEN [snippet EXCEPT !.code = "RETURNED"]
                        ELSE [code |-> "USER", at |-> 0]
    /\ Continue
    /\ UNCHANGED <<line, pins, resetVec, nmiVec, shared, state, armed, core1, prog, nmi, memory,
                   history, cmd, polled, ignore>>

\* A step of RunControl.  A copy of an S-record that failed ignores the rest of the load.
RunStep ==
    /\ Core0Step
    /\ LET failed == At("judge") /\ runState # "SYNCED" /\ cmd \in {"S1_low", "S1_high"}
       IN ignore' = (ignore \/ failed)
    /\ UNCHANGED <<cmd, polled, breakActive>>

\* Slip: the watchpoint is looked at after each command, not on every turn.
PollWatchpoint_Once ==
    /\ script = <<>> /\ ~polled
    /\ polled' = TRUE
    /\ IF armed /\ shared # "zero"
       THEN /\ armed' = FALSE /\ script' = Stop
       ELSE UNCHANGED <<armed, script>>
    /\ cmd' = "none"
    /\ UNCHANGED <<line, pins, block, shared, state, core1, guestVars, history,
                   breakActive, ignore>>
\* The watchpoint's part of poll_console().
PollWatchpoint ==
    /\ script = <<>> /\ (~polled \/ (armed /\ shared # "zero"))
    /\ polled' = TRUE
    /\ IF armed /\ shared # "zero"
       THEN /\ armed' = FALSE /\ script' = Stop
       ELSE UNCHANGED <<armed, script>>
    /\ cmd' = "none"
    /\ UNCHANGED <<line, pins, block, shared, state, core1, guestVars, history,
                   breakActive, ignore>>

ConsoleInit ==
    /\ Init
    /\ cmd = "none" /\ polled = FALSE /\ breakActive = FALSE
    /\ ignore = FALSE

Core0 ==
    \/ RunStep \/ ClearRegisters \/ PushWrite \/ Signal \/ Catch \/ BreakSteps
    \/ PollWatchpoint
Next ==
    \/ \E c \in Commands : Command(c)
    \/ Core0
    \/ (Core1 \/ Guest) /\ UNCHANGED consoleVars

\* Both cores run their loops for ever, and a guest that is clocked takes the interrupt
\* it is given.  Nothing makes a user type, or a program of the guest's own go on.
Fairness ==
    /\ WF_vars(Core0)
    /\ WF_vars(Core1 /\ UNCHANGED consoleVars)
    /\ WF_vars(TakeInterrupt /\ UNCHANGED consoleVars)

Spec == ConsoleInit /\ [][Next]_vars /\ Fairness

-----------------------------------------------------------------------------
\* What a command that loads an image and starts it has put into memory.
Loaded == CASE cmd = "NITROS9"                    -> "boot"
            [] cmd \in {"RUN_CHUNK", "RUN_NOWAIT"} -> "chunk"

\* A guest started on an image that the same command loaded is released from RESET only
\* when every block of the image is in memory: no copy that timed out or was torn goes
\* unnoticed, and nothing of an image loaded before is left
\* (src/pico_thing.cpp:474, copy(); src/mc6809.cpp:207, start_with_timeout()).
BootsWhatItLoaded ==
    At("release") /\ resetVec = "memory" /\ cmd \in {"NITROS9", "RUN_CHUNK", "RUN_NOWAIT"}
        => memory = [b \in Block |-> Loaded]

\* A guest caught by the watchpoint does not spin unnoticed: the console reports the hit
\* and holds the guest, unless the user lets the guest go or halts it first -- also when
\* a BREAK typed at that moment clears the evidence in the buffer
\* (src/pico_thing.cpp:2036, poll_console()).
TrapIsReported ==
    (guest = "caught" /\ armed) ~> (guest # "caught" \/ ~armed \/ halt)

=============================================================================
