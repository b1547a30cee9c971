-------------------------------- MODULE Tasks --------------------------------
(***************************************************************************)
(* The task register of the DAT across interrupts (class mc6809).  The     *)
(* GPIO handler watches BA and BS at each rising edge of Q: at a vector    *)
(* fetch it stacks the task.  A PIO program spots the opcode of RTI, and   *)
(* its handler, apply_rti(), unstacks a task and starts a countdown, so    *)
(* that the task is changed back when the RTI has run and not before.      *)
(*                                                                         *)
(* Time is the E cycle: Q rises, the handler runs, E falls, and the guest  *)
(* goes on to its next cycle; the handler of its write, or of its RTI,     *)
(* runs before Q rises again.  The cycles of the 6809 (an interrupt stacks *)
(* the full frame or, for FIRQ, a short one) are those of its data sheet.  *)
(***************************************************************************)
EXTENDS Integers, Sequences, SequencesExt

CONSTANTS
    Task,               \* the task numbers; 0 is one
    Frames,             \* the frames the guest's interrupts stack: "full", "short"
    MaxIntNestDepth,    \* MAX_INT_NEST_DEPTH, 16
    MaxNesting          \* bound on the depth of the guest's own nesting

ASSUME TasksAssumption ==
    /\ 0 \in Task
    /\ Frames \subseteq {"full", "short"}
    /\ MaxIntNestDepth \in Nat \ {0} /\ MaxNesting \in Nat

VARIABLES
    \* the Pico
    task,           \* task, reg[SYSTEM_TASK] and the TASK pins
    stack,          \* task_stack up to task_stack_ptr
    nestingDepth, rtiTaskCountdown, rtiPendingTask,
    busState, runState,
    resetPin,       \* RESET_IS_ASSERTED
    \* the guest
    half,           \* "Q": Q is about to rise in this cycle; "E": E is about to fall
    cycle,          \* what this cycle is, and how many of the kind are left
    mine,           \* the task the code now running is meant to run in
    interrupted,    \* the contexts it has interrupted, outermost first
    deep,           \* history: since reset, they were more than task_stack holds
    late            \* history: the task restore after a short frame, "no" or "due", or
                    \* "lost" since reset: the guest moved on before it

pico == <<task, stack, nestingDepth, rtiTaskCountdown, rtiPendingTask, busState, runState>>
guest == <<cycle, mine, interrupted, deep>>
vars == <<pico, resetPin, half, guest, late>>

Cycle(k, n) == [kind |-> k, left |-> n]
Exec == Cycle("exec", 1)

(* Cycles from the end of an instruction to the vector fetch, and of an RTI  *)
(* after its opcode.                                                        *)
Stacking == [full |-> 15, short |-> 6]
Unstacking == [full |-> 14, short |-> 5]

Init ==
    /\ task = 0 /\ stack = <<>> /\ nestingDepth = 0
    /\ rtiTaskCountdown = 0 /\ rtiPendingTask = 0
    /\ busState = "BUS_RUNNING" /\ runState = "RS_RESET"
    /\ resetPin = TRUE
    /\ half = "Q" /\ cycle = Cycle("held", 1) /\ mine = 0 /\ interrupted = <<>>
    /\ deep = FALSE /\ late = "no"

-----------------------------------------------------------------------------
(* gpio_clock_eq_irq_handler: the bus state, then tick_rti_countdown().      *)

NewBs == IF cycle.kind \in {"vector", "reset_vector"} THEN "BUS_IRQ" ELSE "BUS_RUNNING"
Observed == ~resetPin /\ runState # "RS_RESET" /\ NewBs # busState

\* Slip: every cycle of a vector fetch is taken for an interrupt.
Nests_EachCycle ==
    /\ ~resetPin /\ runState # "RS_RESET"
    /\ cycle.kind = "vector" /\ Len(stack) < MaxIntNestDepth

\* Slip: the depth is not tested.
Nests_Unbounded == Observed /\ cycle.kind = "vector"

(* eirq < INTERRUPT_RESET && task_stack_ptr < MAX_INT_NEST_DEPTH             *)
Nests == Observed /\ cycle.kind = "vector" /\ Len(stack) < MaxIntNestDepth

RunStateSeen ==
    CASE resetPin -> "RS_RESET"
      [] ~resetPin /\ runState = "RS_RESET" -> "RS_RUNNING"
      [] Observed /\ NewBs = "BUS_IRQ" -> "RS_IN_IRQ"
      [] Observed /\ NewBs = "BUS_RUNNING" ->
            IF runState = "RS_IN_IRQ" THEN runState ELSE "RS_RUNNING"
      [] OTHER -> runState

StackSeen ==
    IF resetPin /\ runState # "RS_RESET" THEN <<>>
    ELSE IF Nests THEN Append(stack, task) ELSE stack

\* Slip: an interrupt nested in the one that has returned is forgotten.
RunStateTicked_Always(expires, depth) ==
    IF expires THEN "RS_RUNNING" ELSE RunStateSeen

RunStateTicked(expires, depth) ==
    IF expires /\ depth = 0 THEN "RS_RUNNING" ELSE RunStateSeen

QRise ==
    LET depth == IF Nests THEN nestingDepth + 1 ELSE nestingDepth
        expires == rtiTaskCountdown = 1
    IN  /\ half = "Q" /\ half' = "E"
        /\ stack' = StackSeen /\ nestingDepth' = depth
        /\ busState' = IF Observed THEN NewBs ELSE busState
        /\ rtiTaskCountdown' = IF rtiTaskCountdown > 0 THEN rtiTaskCountdown - 1 ELSE 0
        /\ task' = IF expires THEN rtiPendingTask ELSE task
        /\ runState' = RunStateTicked(expires, depth)
        /\ late' = IF late # "due" THEN late
                   ELSE IF Nests THEN "lost" ELSE IF expires THEN "no" ELSE late
        /\ UNCHANGED <<rtiPendingTask, resetPin, guest>>

-----------------------------------------------------------------------------
(* The guest goes on to its next cycle.                                     *)

EFall == half = "E" /\ half' = "Q" /\ UNCHANGED resetPin

Executing == EFall /\ cycle = Exec

(* The context that an RTI in its last cycle goes back to.                   *)
Returning == cycle.kind = "unstack" /\ cycle.left = 1
Resume ==
    IF Returning /\ interrupted # <<>>
    THEN [mine |-> Last(interrupted).task, interrupted |-> Front(interrupted)]
    ELSE [mine |-> mine, interrupted |-> interrupted]

Executes == Executing /\ UNCHANGED <<pico, guest, late>>

(* dma_bus_write_irq_handler, SYSTEM_TASK: task_change().                    *)
WriteTask(t) ==
    /\ Executing
    /\ mine' = t
    /\ task' = IF runState # "RS_RESET" THEN t ELSE task
    /\ late' = IF late = "due" THEN "lost" ELSE late
    /\ UNCHANGED <<stack, nestingDepth, rtiTaskCountdown, rtiPendingTask, busState,
                   runState, cycle, interrupted, deep>>

TakeInterrupt(f) ==
    /\ EFall
    /\ cycle = Exec \/ Returning
    /\ Len(Resume.interrupted) < MaxNesting
    /\ interrupted' = Append(Resume.interrupted, [task |-> Resume.mine, frame |-> f])
    /\ deep' = (deep \/ Len(interrupted') > MaxIntNestDepth)
    /\ mine' = Resume.mine
    /\ cycle' = Cycle("stack", Stacking[f])
    /\ UNCHANGED <<pico, late>>

StartRti == Executing /\ cycle' = Cycle("opcode", 1) /\ UNCHANGED <<pico, mine, interrupted, deep, late>>

\* Slip: the entry above the top of the stack.
Popped_Above == IF Len(stack) > 1 THEN stack[Len(stack) - 1] ELSE rtiPendingTask

Popped == Last(stack)

\* What the RTI takes off the guest's stack.
Frame == IF interrupted = <<>> THEN "full" ELSE Last(interrupted).frame

(* pio_rti_irq_handler: apply_rti().                                        *)
ApplyRti ==
    LET depth == IF nestingDepth > 0 THEN nestingDepth - 1 ELSE 0
        pops == nestingDepth > 0 /\ stack # <<>>
        count == IF pops THEN 15 ELSE rtiTaskCountdown
    IN  /\ EFall /\ cycle.kind = "opcode"
        /\ nestingDepth' = depth
        /\ rtiPendingTask' = IF pops THEN Popped ELSE rtiPendingTask
        /\ stack' = IF pops THEN Front(stack) ELSE stack
        /\ rtiTaskCountdown' = count
        /\ runState' = IF nestingDepth > 0 /\ depth = 0 /\ count = 0
                       THEN "RS_RUNNING" ELSE runState
        /\ cycle' = Cycle("unstack", Unstacking[Frame])
        /\ late' = IF late = "lost" \/ ~pops THEN late
                   ELSE IF Frame = "short" THEN "due" ELSE "no"
        /\ UNCHANGED <<task, busState, mine, interrupted, deep>>

Continues ==
    /\ EFall /\ cycle.kind \notin {"exec", "opcode"}
    /\ cycle' =
        IF cycle.left > 1 THEN Cycle(cycle.kind, cycle.left - 1)
        ELSE CASE cycle.kind = "stack" -> Cycle("vector", 2)
               [] cycle.kind = "release" -> Cycle("reset_vector", 2)
               [] cycle.kind \in {"vector", "reset_vector"} -> Cycle("dead", 1)
               [] cycle.kind \in {"dead", "unstack"} -> Exec
               [] cycle.kind = "held" -> cycle
    /\ mine' = Resume.mine /\ interrupted' = Resume.interrupted
    /\ UNCHANGED <<pico, deep, late>>

-----------------------------------------------------------------------------
(* Core 0.                                                                  *)
Stop ==             \* stop()
    /\ ~resetPin
    /\ resetPin' = TRUE
    /\ cycle' = Cycle("held", 1) /\ interrupted' = <<>> /\ deep' = FALSE
    /\ UNCHANGED <<pico, half, mine, late>>

\* Slip: setup() leaves the nesting depth and the countdown alone.
Start_KeepsNesting ==
    /\ resetPin /\ runState = "RS_RESET"
    /\ stack' = <<>>
    /\ busState' = "BUS_RUNNING"
    /\ resetPin' = FALSE
    /\ cycle' = Cycle("release", 1) /\ mine' = task
    /\ UNCHANGED <<task, runState, nestingDepth, rtiTaskCountdown, rtiPendingTask, half,
                   interrupted, deep, late>>

Start ==            \* start(): assert_stopped(), setup(), RESET_DEASSERT
    /\ resetPin /\ runState = "RS_RESET"
    /\ stack' = <<>> /\ nestingDepth' = 0
    /\ rtiTaskCountdown' = 0 /\ rtiPendingTask' = 0
    /\ busState' = "BUS_RUNNING"
    /\ resetPin' = FALSE
    /\ cycle' = Cycle("release", 1) /\ mine' = task /\ late' = "no"
    /\ UNCHANGED <<task, runState, half, interrupted, deep>>

-----------------------------------------------------------------------------
Next ==
    \/ QRise \/ Executes \/ StartRti \/ ApplyRti \/ Continues \/ Stop \/ Start
    \/ \E t \in Task : WriteTask(t)
    \/ \E f \in Frames : TakeInterrupt(f)

Spec == Init /\ [][Next]_vars

-----------------------------------------------------------------------------
Kinds == {"exec", "stack", "vector", "dead", "opcode", "unstack", "held", "release",
          "reset_vector"}

(* task_stack never overruns its array, however deep the guest nests, and    *)
(* never underruns: apply_rti() subtracts from nesting_depth and            *)
(* task_stack_ptr, which are unsigned.                                      *)
TypeOK ==
    /\ task \in Task /\ rtiPendingTask \in Task /\ mine \in Task
    /\ stack \in Seq(Task) /\ Len(stack) <= MaxIntNestDepth
    /\ nestingDepth \in 0 .. MaxIntNestDepth
    /\ rtiTaskCountdown \in 0 .. 15
    /\ busState \in {"BUS_RUNNING", "BUS_IRQ"}
    /\ runState \in {"RS_RESET", "RS_RUNNING", "RS_IN_IRQ"}
    /\ resetPin \in BOOLEAN /\ deep \in BOOLEAN /\ half \in {"Q", "E"}
    /\ late \in {"no", "due", "lost"}
    /\ cycle \in [kind : Kinds, left : 1 .. 15]
    /\ interrupted \in Seq([task : Task, frame : {"full", "short"}])

(* A cycle in which the guest executes, as E falls.                          *)
Runs == half = "E" /\ cycle = Exec

(* The handler's task ends with the handler: whatever code runs, runs in the *)
(* task it was interrupted in, however the handlers nested and whatever     *)
(* they wrote to the task register, as long as they fit in task_stack: from *)
(* its first cycle after an RTI of a full frame, and from the tenth after   *)
(* that of a short one, unless in those nine it writes the register or is   *)
(* interrupted again.                                                       *)
TaskIsRestored ==
    Runs /\ ~deep /\ late # "lost" =>
        \/ task = mine
        \/ late = "due" /\ rtiPendingTask = mine /\ rtiTaskCountdown \in 1 .. 9

(* What the Pico infers of the guest from its pins is so: it has stacked the *)
(* task of each context the guest has interrupted, and of no other.         *)
StackIsGuests ==
    Runs /\ ~deep /\ late # "lost" =>
        /\ nestingDepth = Len(interrupted)
        /\ stack = [i \in 1 .. Len(interrupted) |-> interrupted[i].task]

(* An interrupt handler of the guest runs as RS_IN_IRQ, also after an        *)
(* interrupt nested in it has returned.                                     *)
HandlerIsInIrq == Runs /\ ~deep /\ interrupted # <<>> => runState = "RS_IN_IRQ"

(* Nesting deeper than task_stack loses tasks, but not the count: back in    *)
(* its main program the guest finds nothing left on the stack.              *)
NestingUnwinds == Runs /\ interrupted = <<>> => nestingDepth = 0 /\ stack = <<>>
=============================================================================
