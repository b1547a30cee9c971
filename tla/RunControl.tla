----------------------------- MODULE RunControl -----------------------------
(***************************************************************************)
(* How Core 0 runs the guest: RESET, HALT, the snippet block and the       *)
(* vectors (src/mc6809.cpp, snippet_copy() and copy() of                   *)
(* src/pico_thing.cpp), the GPIO handler that keeps run_state, the guest   *)
(* itself, and the watchpoint, which the guest arms through the write ring *)
(* and which rewrites snippet block and vectors from Core 1.               *)
(*                                                                         *)
(* Core 0 is a script: the statements it has still to execute.  A console  *)
(* command (module Console) is a script, and a failing step drops the rest *)
(* of it, as the code's break and return do.                               *)
(*                                                                         *)
(* RS_RUNNING and RS_IN_IRQ, which no caller here tells apart, are one     *)
(* state.  The guest's program is any program.  Memory is counted in the   *)
(* blocks of 16 bytes that one run of a copy snippet moves.                *)
(***************************************************************************)
EXTENDS Integers, Sequences

CONSTANTS
    Block,      \* blocks of guest memory
    Image,      \* contents a block can be given
    MaxRing,    \* bound on SYSTEM_WATCHPOINT writes waiting in write_ring
    Waits       \* a guest lets its watchpoint request be served before it writes
                \* to snippet block or vectors, as irq_test.asm does

ASSUME RunControlAssumption ==
    Waits \in BOOLEAN /\ MaxRing \in Nat /\ "zero" \notin Image /\ Image # {}

Code == {"SYNC", "ZERO", "FILL", "DAT_INIT", "COPY_OUT", "COPY_IN", "TEST",
         "SELF", "BREAK", "RETURNED", "USER"}
\* The snippets that reach SYNC when left alone.
Ending == {"SYNC", "ZERO", "FILL", "DAT_INIT", "COPY_OUT", "COPY_IN", "SELF"}

VARIABLES
    \* Core 0
    script,     \* statements to come
    reset,      \* !RESET is low
    halt,       \* !HALT is low
    line,       \* console_interrupt asks for an interrupt
    \* shared by both cores and the guest
    snippet,    \* the snippet block: code, and the block a copy is set to
    resetVec,   \* the RESET vector: "snippet", or "memory" for any other
    nmiVec,     \* the vector of the interrupt of the tests and of NMI
    shared,     \* the buffer: a block copied, a frame; "zero" if its bytes 10 and 11 are
    runState, busState,
    armed,      \* watchpoint_armed
    \* Core 1's loop
    ring,       \* SYSTEM_WATCHPOINT writes in write_ring
    lpc,        \* where in the dispatch of one it is
    savedNmi,   \* watchpoint_saved_nmi_vector
    \* the guest
    guest,      \* "held", "run", "sync", "caught" (spinning in BREAK)
    prog,       \* it executes the snippet block, or memory
    nmi,        \* its interrupt latch
    memory,
    \* history
    reached,    \* the code that reached SYNC since the last setup()
    asked,      \* somebody wrote a watchpoint request since the last setup()
    meddled     \* Core 0 wrote block or vectors under a watchpoint

core0 == <<script, line>>
pins  == <<reset, halt>>
block == <<snippet, resetVec, nmiVec>>
state == <<runState, busState>>
core1 == <<ring, lpc, savedNmi>>
guestVars == <<guest, prog, nmi, memory>>
history == <<reached, asked, meddled>>

-----------------------------------------------------------------------------
(* The GPIO handler on every rising edge of Q, and the hold times.         *)

Bus == IF halt THEN "halt" ELSE IF guest = "sync" THEN "sync" ELSE "run"

\* Slip: the bus state is stored as it is.
StateOf_Raw(bus) == bus
StateOf(bus) == CASE bus = "halt" -> "HALTED"
                  [] bus = "sync" -> "SYNCED"
                  [] OTHER        -> "RUNNING"

\* The handler has seen the pins as they are.
Seen == IF reset THEN runState = "RESET" ELSE runState # "RESET" /\ busState = Bus

Observe ==
    /\ ~Seen
    /\ IF reset THEN runState' = "RESET" /\ UNCHANGED busState
       ELSE IF runState = "RESET" THEN runState' = "RUNNING" /\ UNCHANGED busState
       ELSE busState' = Bus /\ runState' = StateOf(Bus)
    /\ UNCHANGED <<core0, pins, block, shared, armed, core1, guestVars, history>>

\* RESET_HOLD_US is hundreds of cycles: the handler has run and the loop
\* has emptied the ring.
Held == Seen /\ ring = <<>> /\ lpc = "idle"

-----------------------------------------------------------------------------
(* Statements of Core 0.                                                   *)

Do(op)        == [op |-> op, code |-> "USER", at |-> 0, data |-> "zero"]
Load(code)    == [Do("load") EXCEPT !.code = code]
Judge(code)   == [Do("judge") EXCEPT !.code = code]
Put(d)        == [Do("buffer") EXCEPT !.data = d]

Step == Head(script)
At(op) == script # <<>> /\ Step.op = op
Continue == script' = Tail(script)
Abandon  == script' = <<>>


\* start_with_timeout(), and start().
TimedRun(code) ==
    <<Do("stopped"), Do("setup"), Do("release"), Do("await"), Judge(code), Do("hold")>>
Start == <<Do("stopped"), Do("setup"), Do("release")>>
Stop  == <<Do("assert"), Do("hold")>>

\* copy() of one block, after its snippet_copy().
Moved(code, b, d) ==
    <<[op |-> "operands", code |-> code, at |-> b, data |-> d]>> \o TimedRun(code)
CopyOut(b, d) == <<Load("COPY_OUT")>> \o Moved("COPY_OUT", b, d)
CopyIn(b)     == <<Load("COPY_IN")>> \o Moved("COPY_IN", b, "zero")
Simple(code)  == <<Load(code)>> \o TimedRun(code)

\* assert_stopped(): a command, "check", or the start() or start_with_timeout() that
\* follows in the same command, "stopped", gives up unless run_state is RS_RESET.
AssertStopped ==
    /\ At("check") \/ At("stopped")
    /\ IF runState = "RESET" THEN Continue ELSE Abandon
    /\ UNCHANGED <<line, pins, block, shared, state, armed, core1, guestVars, history>>

\* The guest was executing what is being rewritten: from now on it may do anything.
Derailed == IF prog = "block" /\ guest # "held" THEN "memory" ELSE prog
\* The spin of BREAK ends in its RTI, or is lost, once its branch is no more.
Spinning(code) == IF guest = "caught" /\ code # "BREAK" THEN "run" ELSE guest

\* The watchpoint is armed, or Core 1 is at it.
Trapping == armed \/ lpc # "idle"

\* Slip: snippet_copy() leaves the RESET vector to its caller.
LoadSnippet_NoVector ==
    /\ At("load") /\ Continue
    /\ snippet' = [code |-> Step.code, at |-> 0]
    /\ prog' = Derailed /\ guest' = Spinning(Step.code)
    /\ meddled' = (meddled \/ (Trapping /\ Step.code # "BREAK"))
    /\ UNCHANGED <<line, pins, resetVec, nmiVec, shared, state, armed, core1, nmi, memory,
                   reached, asked>>
\* snippet_copy().
LoadSnippet ==
    /\ At("load") /\ Continue
    /\ snippet' = [code |-> Step.code, at |-> 0]
    /\ resetVec' = "snippet"
    /\ prog' = Derailed /\ guest' = Spinning(Step.code)
    /\ meddled' = (meddled \/ (Trapping /\ Step.code # "BREAK"))
    /\ UNCHANGED <<line, pins, nmiVec, shared, state, armed, core1, nmi, memory,
                   reached, asked>>

\* copy() sets address and length in the block -- whatever is in it -- and fills the buffer.
SetOperands ==
    /\ At("operands") /\ Continue
    /\ snippet' = IF snippet.code = Step.code THEN [snippet EXCEPT !.at = Step.at]
                  ELSE [code |-> "USER", at |-> 0]
    /\ shared' = IF Step.code = "COPY_OUT" THEN Step.data ELSE shared
    /\ prog' = Derailed /\ guest' = Spinning(Step.code)
    /\ meddled' = (meddled \/ Trapping)
    /\ UNCHANGED <<line, pins, resetVec, nmiVec, state, armed, core1, nmi, memory,
                   reached, asked>>

SetBuffer ==
    /\ At("buffer") /\ Continue
    /\ shared' = Step.data
    /\ UNCHANGED <<line, pins, block, state, armed, core1, guestVars, history>>

\* The console sets the RESET vector, or all of them, to an address of the
\* guest's, or the interrupt's vector to the snippet.
SetVector ==
    /\ \/ At("reset_vector") /\ resetVec' = "memory" /\ UNCHANGED <<nmiVec, meddled>>
       \/ /\ At("vectors") /\ resetVec' = "memory" /\ nmiVec' = "memory"
          /\ meddled' = (meddled \/ Trapping)
       \/ At("nmi_vector") /\ nmiVec' = "snippet" /\ UNCHANGED <<resetVec, meddled>>
    /\ Continue
    /\ UNCHANGED <<line, pins, snippet, shared, state, armed, core1, guestVars,
                   reached, asked>>

\* Slip: set_power()'s callback leaves watchpoint_armed alone.
Setup_KeepsArmed ==
    /\ At("setup") /\ Continue
    /\ runState' = "RESET" /\ busState' = "run"
    /\ reached' = "none" /\ asked' = FALSE /\ meddled' = FALSE
    /\ UNCHANGED <<line, pins, block, shared, armed, core1, guestVars>>
\* setup(), with set_power()'s callback.
Setup ==
    /\ At("setup") /\ Continue
    /\ runState' = "RESET" /\ busState' = "run" /\ armed' = FALSE
    /\ reached' = "none" /\ asked' = FALSE /\ meddled' = FALSE
    /\ UNCHANGED <<line, pins, block, shared, core1, guestVars>>

\* RESET_DEASSERT: the hold comes first.
Release ==
    /\ At("release") /\ Held /\ Continue
    /\ reset' = FALSE
    /\ UNCHANGED <<line, halt, block, shared, state, armed, core1, guestVars, history>>

HoldGuest ==
    /\ reset' = TRUE
    /\ guest' = "held" /\ nmi' = FALSE /\ reached' = "none"
    /\ UNCHANGED <<halt, prog, memory, asked, meddled>>
\* RESET_ASSERT, whose hold is a step of its own.
AssertReset ==
    /\ At("assert") /\ Continue /\ HoldGuest
    /\ UNCHANGED <<line, block, shared, state, armed, core1>>
\* Slip: RESET_ASSERT does not sleep.
Hold_Not ==
    /\ At("hold") /\ Continue
    /\ UNCHANGED <<line, pins, block, shared, state, armed, core1, guestVars, history>>
Hold ==
    /\ At("hold") /\ Held /\ Continue
    /\ UNCHANGED <<line, pins, block, shared, state, armed, core1, guestVars, history>>

\* HALT_ASSERT and HALT_DEASSERT.
SetHalt ==
    /\ \/ At("halt") /\ halt' = TRUE
       \/ At("go_on") /\ halt' = FALSE
    /\ Continue
    /\ UNCHANGED <<line, reset, block, shared, state, armed, core1, guestVars, history>>

\* The polls of start_with_timeout() and of the tests: SYNC, or the time is up.
Await ==
    /\ At("await") /\ Continue
    /\ UNCHANGED <<line, pins, block, shared, state, armed, core1, guestVars, history>>

\* Slip: a run that ends counts, however it ended.
Verdict_AnyEnd ==
    /\ At("judge") /\ Continue /\ HoldGuest
    /\ UNCHANGED <<line, block, shared, state, armed, core1>>
\* The last read of run_state decides; RESET is asserted either way.
Verdict ==
    /\ At("judge")
    /\ IF runState = "SYNCED" THEN Continue ELSE script' = <<Do("hold")>>
    /\ HoldGuest
    /\ UNCHANGED <<line, block, shared, state, armed, core1>>

\* console_set_interrupt(), read by the loop on its next pass.
SetLine ==
    /\ \/ At("line_on") /\ line' = TRUE
       \/ At("line_off") /\ line' = FALSE
    /\ Continue
    /\ UNCHANGED <<pins, block, shared, state, armed, core1, guestVars, history>>

-----------------------------------------------------------------------------
(* Core 1's loop: one SYSTEM_WATCHPOINT write, statement by statement.     *)

Take ==
    /\ lpc = "idle" /\ ring # <<>>
    /\ ring' = Tail(ring)
    /\ lpc' = CASE Head(ring) = "arm" /\ ~armed   -> "copy"
                [] Head(ring) = "disarm" /\ armed -> "restore"
                [] OTHER                          -> "idle"
    /\ savedNmi' = IF lpc' = "copy" THEN nmiVec ELSE savedNmi
    /\ UNCHANGED <<core0, pins, block, shared, state, armed, guestVars, history>>

Arm ==
    /\ \/ /\ lpc = "copy" /\ lpc' = "vector"
          /\ snippet' = [code |-> "BREAK", at |-> 0] /\ resetVec' = "snippet"
          /\ prog' = Derailed
          /\ UNCHANGED <<nmiVec, armed>>
       \/ /\ lpc = "vector" /\ lpc' = "armed" /\ nmiVec' = "snippet"
          /\ UNCHANGED <<snippet, resetVec, prog, armed>>
       \/ /\ lpc = "armed" /\ lpc' = "idle" /\ armed' = TRUE
          /\ UNCHANGED <<block, prog>>
    /\ UNCHANGED <<core0, pins, shared, state, ring, savedNmi, guest, nmi, memory, history>>

Disarm ==
    /\ \/ lpc = "restore" /\ lpc' = "disarm" /\ nmiVec' = savedNmi /\ UNCHANGED armed
       \/ lpc = "disarm" /\ lpc' = "idle" /\ armed' = FALSE /\ UNCHANGED nmiVec
    /\ UNCHANGED <<core0, pins, snippet, resetVec, shared, state, ring, savedNmi,
                   guestVars, history>>

\* A pass of the loop with console_interrupt set: an edge on the pin.
Interrupt ==
    /\ line /\ ~reset /\ ~nmi
    /\ nmi' = TRUE
    /\ UNCHANGED <<core0, pins, block, shared, state, armed, core1, guest, prog, memory, history>>

-----------------------------------------------------------------------------
(* The guest.  It moves on when the handler has seen what it did: a bus     *)
(* state lasts at least a cycle, and the handler runs in every one.        *)

Runs == ~reset /\ ~halt /\ Seen
Free == Runs /\ guest = "run" /\ prog = "memory"

\* What a program of the guest's own leaves in memory: it may have stored anywhere.
Torn == [b \in Block |-> "torn"]

\* The reset vector is fetched.  A copy has begun once its block is torn.
Fetch ==
    /\ Runs /\ guest = "held"
    /\ guest' = "run"
    /\ prog' = IF resetVec = "snippet" THEN "block" ELSE "memory"
    /\ memory' = IF resetVec # "snippet" THEN Torn
                 ELSE IF snippet.code = "COPY_OUT" THEN [memory EXCEPT ![snippet.at] = "torn"]
                 ELSE memory
    /\ UNCHANGED <<core0, pins, block, shared, state, armed, core1, nmi, history>>

\* A snippet comes to its SYNC.
Finish ==
    /\ Runs /\ guest = "run" /\ prog = "block" /\ snippet.code \in Ending
    /\ guest' = "sync" /\ reached' = snippet.code
    /\ memory' = IF snippet.code = "COPY_OUT"
                 THEN [memory EXCEPT ![snippet.at] = shared] ELSE memory
    /\ CASE snippet.code = "COPY_IN" -> shared' \in {"zero", "data"}
         [] snippet.code = "SELF"    -> shared' = "frame"
         [] OTHER                    -> UNCHANGED shared
    /\ UNCHANGED <<core0, pins, block, state, armed, core1, prog, nmi, asked, meddled>>

\* A program that does not stay in the snippet, or whose snippet was rewritten.
Leave ==
    /\ Runs /\ guest = "run" /\ prog = "block" /\ snippet.code \in {"USER", "BREAK", "RETURNED"}
    /\ prog' = "memory" /\ memory' = Torn
    /\ UNCHANGED <<core0, pins, block, shared, state, armed, core1, guest, nmi, history>>

GuestSyncs ==
    /\ Free /\ guest' = "sync" /\ reached' = "memory"
    /\ UNCHANGED <<core0, pins, block, shared, state, armed, core1, prog, nmi, memory,
                   asked, meddled>>

GuestStores ==
    /\ Free /\ shared' \in {"zero", "data"} /\ shared' # shared
    /\ UNCHANGED <<core0, pins, block, state, armed, core1, guestVars, history>>

\* SYSTEM_WATCHPOINT: the handler only queues it.
GuestAsks ==
    /\ Free /\ Len(ring) < MaxRing
    /\ \E w \in {"arm", "disarm"} : ring' = Append(ring, w)
    /\ asked' = TRUE
    /\ UNCHANGED <<core0, pins, block, shared, state, armed, lpc, savedNmi, guestVars,
                   reached, meddled>>

Served == Waits => ring = <<>> /\ lpc = "idle"

\* Slip: only the vectors are protected.
GuestWrites_Block ==
    /\ Free /\ Served
    /\ \/ armed /\ nmi' = TRUE /\ UNCHANGED block
       \/ /\ snippet' = [code |-> "USER", at |-> 0]
          /\ UNCHANGED <<resetVec, nmiVec, nmi>>
    /\ UNCHANGED <<core0, pins, shared, state, armed, core1, guest, prog, memory, history>>
\* A write to snippet block or vectors: stored, or, while armed, blocked and an NMI.
GuestWrites ==
    /\ Free /\ Served
    /\ IF armed THEN nmi' = TRUE /\ UNCHANGED block
       ELSE /\ \/ snippet' = [code |-> "USER", at |-> 0] /\ UNCHANGED <<resetVec, nmiVec>>
               \/ resetVec' = "memory" /\ UNCHANGED <<snippet, nmiVec>>
               \/ nmiVec' \in {"snippet", "memory"} /\ UNCHANGED <<snippet, resetVec>>
            /\ UNCHANGED nmi
    /\ UNCHANGED <<core0, pins, shared, state, armed, core1, guest, prog, memory, history>>

\* The interrupt of the latch.  A snippet that loads no stack pointer takes none.
TakeInterrupt ==
    /\ Runs /\ nmi /\ guest # "held"
    /\ prog = "memory" \/ snippet.code = "TEST"
    /\ nmi' = FALSE
    /\ \/ /\ nmiVec = "snippet" /\ snippet.code = "BREAK"
          /\ guest' = "caught" /\ shared' = "frame" /\ prog' = "memory"
          /\ UNCHANGED reached
       \/ /\ nmiVec = "snippet" /\ snippet.code = "TEST"
          /\ guest' = "sync" /\ shared' = "frame" /\ reached' = "TEST"
          /\ UNCHANGED prog
       \/ /\ nmiVec # "snippet" \/ snippet.code \notin {"BREAK", "TEST"}
          /\ guest' = "run" /\ prog' = "memory"
          /\ UNCHANGED <<shared, reached>>
    /\ UNCHANGED <<core0, pins, block, state, armed, core1, memory, asked, meddled>>

-----------------------------------------------------------------------------
Init ==
    /\ script = <<>> /\ reset = TRUE /\ halt = FALSE /\ line = FALSE
    /\ snippet = [code |-> "SYNC", at |-> 0]      \* peripheral_clear(true)
    /\ resetVec = "snippet" /\ nmiVec = "snippet" /\ shared = "zero"
    /\ runState = "RESET" /\ busState = "run" /\ armed = FALSE
    /\ ring = <<>> /\ lpc = "idle" /\ savedNmi = "memory"
    /\ guest = "held" /\ prog = "block" /\ nmi = FALSE
    /\ memory = Torn
    /\ reached = "none" /\ asked = FALSE /\ meddled = FALSE

Core0Step ==
    \/ AssertStopped \/ LoadSnippet \/ SetOperands \/ SetBuffer \/ SetVector \/ Setup
    \/ Release \/ AssertReset \/ Hold \/ SetHalt \/ Await \/ Verdict \/ SetLine
Loop == Take \/ Arm \/ Disarm
Guest ==
    \/ Fetch \/ Finish \/ Leave \/ GuestSyncs \/ GuestStores \/ GuestAsks \/ GuestWrites
    \/ TakeInterrupt
Core1 == Observe \/ Loop \/ Interrupt

runVars == <<core0, pins, block, shared, state, armed, core1, guestVars, history>>

-----------------------------------------------------------------------------
Content == Image \cup {"zero", "data", "frame"}
\* The statements; the last row is the console's own (module Console).
Ops == {"check", "stopped", "load", "operands", "buffer", "reset_vector", "vectors", "nmi_vector",
        "setup", "release", "assert", "hold", "halt", "go_on", "await", "judge", "line_on", "line_off",
        "clear", "push", "signal", "catch", "active", "return"}

Statement == [op : Ops, code : Code \cup {"memory"}, at : Block \cup {0}, data : Content]

StateOK ==
    /\ reset \in BOOLEAN /\ halt \in BOOLEAN /\ line \in BOOLEAN
    /\ snippet \in [code : Code, at : Block \cup {0}]
    /\ resetVec \in {"snippet", "memory"} /\ nmiVec \in {"snippet", "memory"}
    /\ savedNmi \in {"snippet", "memory"}
    /\ shared \in Content
    /\ runState \in {"RESET", "RUNNING", "SYNCED", "HALTED"}
    /\ busState \in {"run", "sync", "halt"}
    /\ armed \in BOOLEAN
    /\ ring \in Seq({"arm", "disarm"}) /\ Len(ring) <= MaxRing
    /\ lpc \in {"idle", "copy", "vector", "armed", "restore", "disarm"}
    /\ guest \in {"held", "run", "sync", "caught"} /\ prog \in {"block", "memory"}
    /\ nmi \in BOOLEAN
    /\ memory \in [Block -> Content \cup {"torn"}]
    /\ reached \in Code \cup {"memory", "none"} /\ asked \in BOOLEAN /\ meddled \in BOOLEAN
    /\ reset => guest = "held" /\ ~nmi
RunTypeOK == script \in Seq(Statement) /\ StateOK

\* Within a command that found the guest stopped, no later start() or
\* start_with_timeout() finds it running: by the time a run's RESET_ASSERT returns the
\* handler has stored RS_RESET (src/mc6809.cpp:85, include/mc6809.h:17).
NeverRefused == At("stopped") => runState = "RESET"

\* When start_with_timeout() answers true, the guest has run the very snippet that Core 0
\* put in the block to its SYNC, and a block copied out is in memory.
RunIsHonest ==
    At("judge") /\ runState = "SYNCED" =>
        /\ reached = Step.code
        /\ Step.code = "COPY_OUT" => memory[snippet.at] = shared

\* The watchpoint is armed only for a request made since the guest was last set up: no
\* request of an earlier run, late in the write ring, arms it.
ArmBelongsToRun == armed => asked

\* While armed, the NMI vector leads to BREAK, or to a snippet the console has put in its
\* place, whatever the guest writes, as long as Core 0 leaves block and vectors alone
\* (src/pico_thing.cpp:418). It holds with Waits: a guest lets its request be served before
\* it writes there (chunk/irq_test.asm:129-132 waits).
TrapIsSafe ==
    armed /\ lpc = "idle" /\ ~meddled =>
        nmiVec = "snippet" /\ snippet.code \in {"BREAK", "RETURNED"}

=============================================================================
