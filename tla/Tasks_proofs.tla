---------------------------- MODULE Tasks_proofs ----------------------------
(***************************************************************************)
(* Proofs about Tasks for all sets of tasks, all frames, every size of     *)
(* task_stack and every depth of the guest's nesting: the stack is never   *)
(* overrun or underrun, and unwinds to empty; run_state knows a handler;   *)
(* and until the guest outruns the restore after a short frame, the stack  *)
(* is that of its contexts, and every context gets its own task back.      *)
(***************************************************************************)
EXTENDS Tasks, SequenceTheorems, TLAPS

(* The inductive invariant.  TypeOK alone does not keep nestingDepth in     *)
(* range: it has to be the height of the stack, which a guest held in      *)
(* reset empties alone.  And it is no more than the contexts the guest has *)
(* interrupted, one less from the RTI's opcode on and until the vector of  *)
(* an interrupt is fetched: its two cycles count once, by busState.        *)
Bounded(n) ==
    /\ nestingDepth <= n
    /\ cycle.kind = "stack" => nestingDepth < n
    /\ cycle.kind = "unstack" => nestingDepth = 0 \/ nestingDepth < n
    /\ cycle.kind = "vector" =>
           /\ cycle.left \in {1, 2}
           /\ nestingDepth < n \/ (busState = "BUS_IRQ" /\ ~(cycle.left = 2 /\ half = "Q"))

Follows ==
    /\ resetPin => cycle.kind = "held"
    /\ ~resetPin => nestingDepth = Len(stack) /\ Bounded(Len(interrupted))

IInv == TypeOK /\ Follows

(* Until the guest nests too deep.  What it has interrupted is stacked, but  *)
(* for the innermost context: that one until its vector fetch is heard, and *)
(* again from the opcode of its RTI on.                                     *)
Heard == ~(cycle.kind = "vector" /\ cycle.left = 2 /\ half = "Q")
Height ==
    IF interrupted # <<>> /\ (cycle.kind \in {"stack", "unstack"} \/ ~Heard)
    THEN Len(interrupted) - 1 ELSE Len(interrupted)

Mirrors ==
    /\ resetPin => interrupted = <<>>
    /\ ~resetPin /\ ~deep =>
        /\ nestingDepth = Height /\ Len(interrupted) <= MaxIntNestDepth
        /\ cycle.kind \in {"stack", "vector"} => interrupted # <<>>
        /\ cycle.kind \in {"release", "reset_vector"} => interrupted = <<>>
        /\ cycle.kind \notin {"vector", "reset_vector", "dead"} => busState = "BUS_RUNNING"
        /\ cycle.kind = "dead" /\ half = "E" => busState = "BUS_RUNNING"
        /\ cycle.kind = "vector" => busState = IF Heard THEN "BUS_IRQ" ELSE "BUS_RUNNING"
        /\ runState = "RS_RESET" =>
              \/ cycle.kind = "release"
              \/ cycle.kind = "reset_vector" /\ cycle.left = 2 /\ half = "Q"
        /\ nestingDepth > 0 => runState = "RS_IN_IRQ"

(* The rises of Q until a countdown ends that an RTI has begun, nine more    *)
(* than the RTI takes for a short frame, and the task the Pico then sets.   *)
(* From the opcode of an RTI on it is the task gone back to, otherwise that *)
(* of the code that runs.                                                   *)
RisesLeft == cycle.left + (IF half = "Q" THEN 1 ELSE 0)
GoesBack == cycle.kind = "unstack" /\ interrupted # <<>>
Due == IF rtiTaskCountdown > 0 THEN rtiPendingTask ELSE task
Innermost == interrupted[Len(interrupted)].task

Tracks ==
    ~resetPin /\ ~deep /\ late # "lost" =>
        /\ \A i \in 1 .. nestingDepth : stack[i] = interrupted[i].task
        /\ GoesBack => rtiTaskCountdown = RisesLeft + (IF late = "due" THEN 9 ELSE 0)
        /\ ~GoesBack /\ late = "no" =>
              \/ rtiTaskCountdown = 0
              \/ rtiTaskCountdown = 1 /\ half = "Q" /\ cycle.kind \in {"exec", "stack"}
        /\ ~GoesBack /\ late = "due" =>
              rtiTaskCountdown \in 1 .. (IF half = "Q" THEN 10 ELSE 9)
        /\ Due = IF GoesBack THEN Innermost ELSE mine
        /\ cycle.kind = "stack" \/ ~Heard => mine = Innermost

-----------------------------------------------------------------------------
(* What is left of a sequence, and what came off.                          *)
LEMMA FrontIs ==
    ASSUME NEW S, NEW s \in Seq(S), s # <<>>
    PROVE  Front(s) \in Seq(S) /\ Len(Front(s)) = Len(s) - 1 /\ Last(s) \in S
<1>1. Len(s) \in Nat \ {0}
  BY EmptySeq
<1>2. \A i \in 1 .. Len(s) : s[i] \in S
  BY ElementOfSeq
<1>3. SubSeq(s, 1, Len(s) - 1) \in Seq(S) /\ Len(SubSeq(s, 1, Len(s) - 1)) = Len(s) - 1
  <2>1. Len(s) - 1 \in Int /\ 1 \in Int /\ \A i \in 1 .. (Len(s) - 1) : s[i] \in S
    BY <1>1, <1>2
  <2>2. /\ SubSeq(s, 1, Len(s) - 1) \in Seq(S)
        /\ Len(SubSeq(s, 1, Len(s) - 1)) = IF 1 <= Len(s) - 1 THEN (Len(s) - 1) - 1 + 1 ELSE 0
    BY <2>1, SubSeqProperties
  <2> DEFINE t == SubSeq(s, 1, Len(s) - 1)
  <2>3. t \in Seq(S) /\ Len(t) = IF 1 <= Len(s) - 1 THEN (Len(s) - 1) - 1 + 1 ELSE 0
    BY <2>2, Zenon
  <2> HIDE DEF t
  <2>4. \A n \in Nat \ {0} : (IF 1 <= n - 1 THEN (n - 1) - 1 + 1 ELSE 0) = n - 1
    OBVIOUS
  <2>5. t \in Seq(S) /\ Len(t) = Len(s) - 1
    BY <1>1, <2>3, <2>4, Zenon
  <2> QED
    BY <2>5, Zenon DEF t
<1>4. s[Len(s)] \in S
  BY <1>1, <1>2
<1> QED
  BY <1>3, <1>4, Zenon DEF Front, Last

Context == [task : Task, frame : {"full", "short"}]
Contexts == Seq(Context)

(* An RTI in its last cycle goes back to the innermost context; any other   *)
(* cycle goes back to none.                                                *)
LEMMA ResumeIs ==
    ASSUME TypeOK
    PROVE  /\ Resume.mine \in Task /\ Resume.interrupted \in Contexts
           /\ ~Returning => Resume.interrupted = interrupted
           /\ Returning => Len(Resume.interrupted) = IF interrupted = <<>> THEN 0
                                                     ELSE Len(interrupted) - 1
<1>1. interrupted \in Contexts /\ mine \in Task
  BY Zenon DEF TypeOK, Contexts, Context
<1>2. CASE Returning /\ interrupted # <<>>
  <2>1. /\ Front(interrupted) \in Contexts /\ Len(Front(interrupted)) = Len(interrupted) - 1
        /\ Last(interrupted) \in Context
    BY <1>1, <1>2, FrontIs, Zenon DEF Contexts
  <2>2. Resume = [mine |-> Last(interrupted).task, interrupted |-> Front(interrupted)]
    BY <1>2, Zenon DEF Resume
  <2>3. Last(interrupted).task \in Task
    BY <2>1, Zenon DEF Context
  <2>4. Resume.mine = Last(interrupted).task /\ Resume.interrupted = Front(interrupted)
    BY <2>2
  <2> QED
    BY <1>2, <2>1, <2>3, <2>4, Zenon
<1>3. CASE ~(Returning /\ interrupted # <<>>)
  <2>1. Resume = [mine |-> mine, interrupted |-> interrupted]
    BY <1>3 DEF Resume
  <2> QED
    BY <1>1, <1>3, <2>1
<1> QED
  BY <1>2, <1>3

LEMMA IInvInit == Init => IInv
<1> SUFFICES ASSUME Init PROVE IInv
  OBVIOUS
<1>1. TypeOK
  <2>1. /\ task \in Task /\ rtiPendingTask \in Task /\ mine \in Task
        /\ stack \in Seq(Task) /\ Len(stack) <= MaxIntNestDepth
        /\ nestingDepth \in 0 .. MaxIntNestDepth /\ rtiTaskCountdown \in 0 .. 15
        /\ interrupted \in Seq([task : Task, frame : {"full", "short"}])
    BY TasksAssumption DEF Init
  <2>2. cycle \in [kind : Kinds, left : 1 .. 15]
    BY DEF Init, Cycle, Kinds
  <2>3. resetPin \in BOOLEAN /\ deep \in BOOLEAN
    BY Zenon DEF Init
  <2> QED
    BY <2>1, <2>2, <2>3 DEF Init, TypeOK
<1> QED
  BY <1>1 DEF Init, IInv, Follows, Cycle

-----------------------------------------------------------------------------
(* What becomes of the restore after a short frame.                        *)
Lates == {"no", "due", "lost"}

LEMMA LateIs ==
    ASSUME late \in Lates
    PROVE  /\ QRise \/ ApplyRti \/ Continues \/ Stop \/ Start => late' \in Lates
           /\ Executes \/ StartRti => late' \in Lates
           /\ \A t : WriteTask(t) => late' \in Lates
           /\ \A f : TakeInterrupt(f) => late' \in Lates
<1>1. /\ QRise => late' \in {late, "no", "lost"}
      /\ ApplyRti => late' \in {late, "no", "due"}
      /\ Continues \/ Stop \/ Executes \/ StartRti => late' = late
      /\ Start => late' = "no"
      /\ \A t : WriteTask(t) => late' \in {late, "lost"}
      /\ \A f : TakeInterrupt(f) => late' = late
  BY Zenon DEF QRise, ApplyRti, Continues, Stop, Executes, StartRti, Start, WriteTask,
     TakeInterrupt
<1> QED
  BY <1>1, Zenon DEF Lates

LEMMA QRiseIs ==
    ASSUME TypeOK, QRise
    PROVE  /\ half = "Q" /\ half' = "E" /\ stack' = StackSeen
           /\ nestingDepth' = IF Nests THEN nestingDepth + 1 ELSE nestingDepth
           /\ busState' = IF Observed THEN NewBs ELSE busState
           /\ rtiTaskCountdown' \in 0 .. 15
           /\ task' \in Task
           /\ runState' \in {"RS_RESET", "RS_RUNNING", "RS_IN_IRQ"}
           /\ UNCHANGED <<rtiPendingTask, resetPin, cycle, mine, interrupted, deep>>
<1>1. task' \in {task, rtiPendingTask}
  BY Zenon DEF QRise
<1>2. runState' \in {"RS_RUNNING", RunStateSeen}
  BY Zenon DEF QRise, RunStateTicked
<1>3. RunStateSeen \in {"RS_RESET", "RS_RUNNING", "RS_IN_IRQ"}
  <2>1. runState \in {"RS_RESET", "RS_RUNNING", "RS_IN_IRQ"} /\ resetPin \in BOOLEAN
    BY Zenon DEF TypeOK
  <2>2. RunStateSeen \in {"RS_RESET", "RS_RUNNING", "RS_IN_IRQ", runState}
    BY <2>1, Zenon DEF RunStateSeen
  <2> QED
    BY <2>1, <2>2
<1>4. rtiTaskCountdown' = IF rtiTaskCountdown > 0 THEN rtiTaskCountdown - 1 ELSE 0
  BY Zenon DEF QRise
<1>5. rtiTaskCountdown' \in 0 .. 15
  BY <1>4 DEF TypeOK
<1>6. /\ half = "Q" /\ half' = "E" /\ stack' = StackSeen
      /\ nestingDepth' = IF Nests THEN nestingDepth + 1 ELSE nestingDepth
      /\ busState' = IF Observed THEN NewBs ELSE busState
      /\ UNCHANGED <<rtiPendingTask, resetPin, cycle, mine, interrupted, deep>>
  BY Zenon DEF QRise, guest
<1> QED
  BY <1>1, <1>2, <1>3, <1>5, <1>6 DEF TypeOK

LEMMA QRiseKeeps == IInv /\ QRise => IInv'
<1> SUFFICES ASSUME IInv, QRise PROVE IInv'
  OBVIOUS
<1> USE TasksAssumption
<1>1. /\ half = "Q" /\ half' = "E" /\ stack' = StackSeen
      /\ nestingDepth' = IF Nests THEN nestingDepth + 1 ELSE nestingDepth
      /\ busState' = IF Observed THEN NewBs ELSE busState
      /\ rtiTaskCountdown' \in 0 .. 15 /\ task' \in Task
      /\ runState' \in {"RS_RESET", "RS_RUNNING", "RS_IN_IRQ"}
      /\ UNCHANGED <<rtiPendingTask, resetPin, cycle, mine, interrupted, deep>>
  BY QRiseIs DEF IInv
<1>2. /\ stack \in Seq(Task) /\ Len(stack) \in Nat /\ Len(stack) <= MaxIntNestDepth
      /\ Len(interrupted) \in Nat /\ nestingDepth \in 0 .. MaxIntNestDepth
      /\ busState \in {"BUS_RUNNING", "BUS_IRQ"}
  BY DEF IInv, TypeOK
<1>3. busState' \in {"BUS_RUNNING", "BUS_IRQ"} /\ (cycle.kind = "vector" => NewBs = "BUS_IRQ")
  BY <1>1, <1>2, Zenon DEF NewBs
<1>l. late' \in {"no", "due", "lost"}
  BY LateIs, Zenon DEF IInv, TypeOK, Lates
<1>4. /\ rtiPendingTask' \in Task /\ mine' \in Task
      /\ resetPin' \in BOOLEAN /\ deep' \in BOOLEAN
      /\ cycle' \in [kind : Kinds, left : 1 .. 15]
      /\ interrupted' \in Seq([task : Task, frame : {"full", "short"}])
  BY <1>1, Zenon DEF IInv, TypeOK
<1>5. CASE Nests
  <2>1. ~resetPin /\ cycle.kind = "vector" /\ Len(stack) < MaxIntNestDepth
    BY <1>5, Zenon DEF Nests, Observed
  <2>2. busState' = "BUS_IRQ" /\ busState # "BUS_IRQ"
    BY <1>1, <1>3, <1>5, Zenon DEF Nests, Observed
  <2>3. stack' = Append(stack, task) /\ nestingDepth' = nestingDepth + 1
    BY <1>1, <1>5, <2>1, Zenon DEF StackSeen
  <2>4. task \in Task
    BY DEF IInv, TypeOK
  <2>5. stack' \in Seq(Task) /\ Len(stack') = Len(stack) + 1
    BY <1>2, <2>3, <2>4
  <2>6. nestingDepth = Len(stack) /\ Bounded(Len(interrupted))
    BY <2>1, Zenon DEF IInv, Follows
  <2>7. nestingDepth < Len(interrupted)
    BY <2>1, <2>2, <2>6, Zenon DEF Bounded
  <2>8. TypeOK'
    BY <1>1, <1>2, <1>3, <1>4, <1>l, <2>1, <2>3, <2>5, <2>6 DEF TypeOK
  <2>9. nestingDepth' = Len(stack') /\ nestingDepth' <= Len(interrupted')
    BY <1>1, <1>2, <2>3, <2>5, <2>6, <2>7
  <2>10. cycle'.kind = "vector" /\ half' = "E" /\ ~resetPin' /\ cycle'.left \in {1, 2}
    BY <1>1, <2>1, <2>6, Zenon DEF Bounded
  <2> QED
    BY <2>2, <2>8, <2>9, <2>10 DEF IInv, Follows, Bounded
<1>6. CASE ~Nests
  <2>1. nestingDepth' = nestingDepth /\ stack' \in {stack, <<>>} /\ (~resetPin => stack' = stack)
    BY <1>1, <1>6, Zenon DEF StackSeen
  <2>2. stack' \in Seq(Task) /\ Len(stack') <= MaxIntNestDepth
    <3>1. <<>> \in Seq(Task) /\ Len(<<>>) <= MaxIntNestDepth
      BY EmptySeq
    <3> QED
      BY <1>2, <2>1, <3>1, Zenon
  <2>3. TypeOK'
    BY <1>1, <1>2, <1>3, <1>4, <1>l, <2>1, <2>2 DEF TypeOK
  <2>4. busState = "BUS_IRQ" /\ cycle.kind = "vector" => busState' = "BUS_IRQ"
    BY <1>1, <1>3, Zenon
  <2>5. Follows'
    <3>1. resetPin' = resetPin /\ cycle' = cycle /\ (resetPin => cycle.kind = "held")
      BY <1>1, Zenon DEF IInv, Follows
    <3>2. ASSUME ~resetPin PROVE nestingDepth' = Len(stack') /\ Bounded(Len(interrupted))'
      <4>1. nestingDepth' = Len(stack') /\ Bounded(Len(interrupted))
        BY <2>1, <3>2, Zenon DEF IInv, Follows
      <4>2. half = "Q" /\ half' = "E" /\ interrupted' = interrupted /\ cycle' = cycle
        BY <1>1, Zenon
      <4> QED
        BY <1>2, <2>1, <2>4, <4>1, <4>2 DEF Bounded
    <3> QED
      BY <3>1, <3>2, Zenon DEF Follows
  <2> QED
    BY <2>3, <2>5 DEF IInv
<1> QED
  BY <1>5, <1>6

(* A cycle of the guest alone: what the Pico holds stays.                  *)
Alone == half = "E" /\ half' = "Q" /\ UNCHANGED <<resetPin, pico>>

(* An RTI in its last cycle does not go back past the stack.               *)
LEMMA ResumeKeeps ==
    ASSUME IInv
    PROVE  /\ Len(Resume.interrupted) \in Nat
           /\ ~resetPin => nestingDepth <= Len(Resume.interrupted)
           /\ ~resetPin /\ cycle.kind = "stack" => nestingDepth < Len(Resume.interrupted)
<1>1. /\ Resume.interrupted \in Contexts
      /\ ~Returning => Resume.interrupted = interrupted
      /\ Returning => Len(Resume.interrupted) = IF interrupted = <<>> THEN 0
                                                ELSE Len(interrupted) - 1
  BY ResumeIs, Zenon DEF IInv
<1>2. /\ nestingDepth \in Nat /\ Len(interrupted) \in Nat
      /\ interrupted = <<>> => Len(interrupted) = 0
  BY DEF IInv, TypeOK
<1>3. ~resetPin => Bounded(Len(interrupted))
  BY Zenon DEF IInv, Follows
<1>4. Len(Resume.interrupted) \in Nat
  BY <1>1 DEF Contexts
<1>5. CASE Returning
  <2>1. cycle.kind = "unstack"
    BY <1>5, Zenon DEF Returning
  <2>2. Len(Resume.interrupted) = IF interrupted = <<>> THEN 0 ELSE Len(interrupted) - 1
    BY <1>1, <1>5, Zenon
  <2> QED
    BY <1>2, <1>3, <1>4, <2>1, <2>2 DEF Bounded
<1>6. CASE ~Returning
  <2>1. Resume.interrupted = interrupted
    BY <1>1, <1>6, Zenon
  <2> QED
    BY <1>2, <1>3, <1>4, <2>1 DEF Bounded
<1> QED
  BY <1>5, <1>6, Zenon

LEMMA TakeInterruptKeeps ==
    ASSUME IInv, NEW f \in Frames, TakeInterrupt(f) PROVE IInv'
<1> USE TasksAssumption
<1>1. /\ Alone /\ (cycle = Exec \/ Returning)
      /\ interrupted' = Append(Resume.interrupted, [task |-> Resume.mine, frame |-> f])
      /\ mine' = Resume.mine /\ cycle' = Cycle("stack", Stacking[f])
  BY DEF TakeInterrupt, EFall, Alone
<1>2. deep' \in BOOLEAN
  BY Zenon DEF TakeInterrupt
<1>3. Resume.mine \in Task /\ Resume.interrupted \in Contexts
  BY ResumeIs, Zenon DEF IInv
<1>4. /\ interrupted' \in Contexts /\ Len(interrupted') = Len(Resume.interrupted) + 1
  BY <1>1, <1>3, TasksAssumption DEF Contexts, Context
<1>5. cycle'.kind = "stack" /\ cycle' \in [kind : Kinds, left : 1 .. 15]
  BY <1>1 DEF Cycle, Stacking, Kinds
<1>l. late' \in {"no", "due", "lost"}
  BY LateIs, Zenon DEF IInv, TypeOK, Lates
<1>6. TypeOK'
  BY <1>l, <1>1, <1>2, <1>3, <1>4, <1>5 DEF IInv, TypeOK, Contexts, Context, pico, Alone
<1>7. ~resetPin
  BY <1>1 DEF IInv, Follows, Exec, Cycle, Returning
<1>8. nestingDepth < Len(interrupted') /\ nestingDepth <= Len(interrupted')
  <2>1. nestingDepth \in Nat
    BY DEF IInv, TypeOK
  <2>2. Len(Resume.interrupted) \in Nat /\ nestingDepth <= Len(Resume.interrupted)
    BY <1>7, ResumeKeeps, Zenon
  <2> QED
    BY <1>4, <2>1, <2>2
<1>9. nestingDepth = Len(stack)
  BY <1>7, Zenon DEF IInv, Follows
<1>10. Follows'
  BY <1>1, <1>5, <1>7, <1>8, <1>9 DEF Follows, Bounded, pico, Alone
<1> QED
  BY <1>6, <1>10 DEF IInv

LEMMA ApplyRtiKeeps == IInv /\ ApplyRti => IInv'
<1> SUFFICES ASSUME IInv, ApplyRti PROVE IInv'
  OBVIOUS
<1> USE TasksAssumption
<1>1. /\ half = "E" /\ half' = "Q" /\ UNCHANGED <<resetPin, task, busState, mine, interrupted, deep>>
      /\ cycle.kind = "opcode"
      /\ nestingDepth' = IF nestingDepth > 0 THEN nestingDepth - 1 ELSE 0
  BY Zenon DEF ApplyRti, EFall
<1>2. cycle' = Cycle("unstack", Unstacking[IF interrupted = <<>> THEN "full"
                                           ELSE Last(interrupted).frame])
  BY Zenon DEF ApplyRti, Frame
<1>3. ~resetPin /\ nestingDepth = Len(stack) /\ Bounded(Len(interrupted))
  BY <1>1 DEF IInv, Follows
<1>4. nestingDepth \in Nat /\ Len(interrupted) \in Nat /\ nestingDepth <= Len(interrupted)
  BY <1>3 DEF IInv, TypeOK, Bounded
<1>5. runState' \in {"RS_RESET", "RS_RUNNING", "RS_IN_IRQ"}
  <2>1. runState' \in {"RS_RUNNING", runState}
    BY Zenon DEF ApplyRti
  <2> QED
    BY <2>1 DEF IInv, TypeOK
<1>6. /\ stack' \in Seq(Task) /\ Len(stack') = nestingDepth' /\ rtiPendingTask' \in Task
      /\ rtiTaskCountdown' \in 0 .. 15
  <2>1. CASE nestingDepth > 0 /\ stack # <<>>
    <3>1. stack' = Front(stack) /\ rtiPendingTask' = Last(stack) /\ rtiTaskCountdown' = 15
      BY <2>1, Zenon DEF ApplyRti, Popped
    <3>2. Front(stack) \in Seq(Task) /\ Len(Front(stack)) = Len(stack) - 1 /\ Last(stack) \in Task
      BY <2>1, FrontIs DEF IInv, TypeOK
    <3> QED
      BY <1>1, <1>3, <2>1, <3>1, <3>2
  <2>2. CASE ~(nestingDepth > 0 /\ stack # <<>>)
    <3>1. stack' = stack /\ rtiPendingTask' = rtiPendingTask /\ rtiTaskCountdown' = rtiTaskCountdown
      BY <2>2, Zenon DEF ApplyRti
    <3>2. nestingDepth = 0
      BY <1>3, <1>4, <2>2, EmptySeq
    <3> QED
      BY <1>1, <1>3, <3>1, <3>2 DEF IInv, TypeOK
  <2> QED
    BY <2>1, <2>2, Zenon
<1>7. cycle' \in [kind : Kinds, left : 1 .. 15] /\ cycle'.kind = "unstack"
  <2>1. interrupted # <<>> => Last(interrupted).frame \in {"full", "short"}
    <3>1. interrupted \in Seq(Context)
      BY Zenon DEF IInv, TypeOK, Context
    <3>2. interrupted # <<>> => Last(interrupted) \in Context
      BY <3>1, FrontIs, Zenon
    <3> QED
      BY <3>2, Zenon DEF Context
  <2> QED
    BY <1>2, <2>1 DEF Cycle, Unstacking, Kinds
<1>8. nestingDepth' \in 0 .. MaxIntNestDepth /\ Len(stack') <= MaxIntNestDepth
  BY <1>1, <1>6 DEF IInv, TypeOK
<1>l. late' \in {"no", "due", "lost"}
  BY LateIs, Zenon DEF IInv, TypeOK, Lates
<1>9. TypeOK'
  BY <1>l, <1>1, <1>5, <1>6, <1>7, <1>8 DEF IInv, TypeOK
<1>10. nestingDepth' <= Len(interrupted) /\ (nestingDepth' = 0 \/ nestingDepth' < Len(interrupted))
  BY <1>1, <1>4
<1>11. Follows'
  BY <1>1, <1>3, <1>6, <1>7, <1>10 DEF Follows, Bounded
<1> QED
  BY <1>9, <1>11 DEF IInv

LEMMA ContinuesKeeps == IInv /\ Continues => IInv'
<1> SUFFICES ASSUME IInv, Continues PROVE IInv'
  OBVIOUS
<1>1. /\ Alone /\ deep' = deep /\ cycle.kind \notin {"exec", "opcode"}
      /\ mine' = Resume.mine /\ interrupted' = Resume.interrupted
  BY DEF Continues, EFall, Alone
<1>l. late' \in {"no", "due", "lost"}
  BY LateIs, Zenon DEF IInv, TypeOK, Lates
<1>2. Resume.mine \in Task /\ Resume.interrupted \in Contexts
  BY ResumeIs, Zenon DEF IInv
<1>3. cycle \in [kind : Kinds, left : 1 .. 15] /\ nestingDepth \in Nat
  BY DEF IInv, TypeOK
<1>4. /\ Len(interrupted') \in Nat
      /\ ~resetPin => nestingDepth <= Len(interrupted')
      /\ ~resetPin /\ cycle.kind = "stack" => nestingDepth < Len(interrupted')
  BY <1>1, ResumeKeeps, Zenon
<1>5. /\ resetPin => cycle.kind = "held"
      /\ ~resetPin => nestingDepth = Len(stack) /\ Bounded(Len(interrupted))
  BY Zenon DEF IInv, Follows
<1>6. CASE cycle.left > 1
  <2>1. cycle' = Cycle(cycle.kind, cycle.left - 1)
    BY <1>6, Zenon DEF Continues
  <2>2. /\ cycle' \in [kind : Kinds, left : 1 .. 15] /\ cycle'.kind = cycle.kind
        /\ cycle'.left = cycle.left - 1
    BY <1>3, <1>6, <2>1 DEF Cycle
  <2>3. Resume.interrupted = interrupted
    <3>1. ~Returning
      BY <1>6 DEF Returning
    <3> QED
      BY <3>1, ResumeIs, Zenon DEF IInv
  <2>4. TypeOK'
    BY <1>l, <1>1, <1>2, <2>2 DEF IInv, TypeOK, pico, Alone, Contexts, Context
  <2>5. ASSUME ~resetPin PROVE Bounded(Len(interrupted))'
    <3>1. Bounded(Len(interrupted)) /\ nestingDepth' = nestingDepth /\ busState' = busState
          /\ half = "E" /\ half' = "Q" /\ interrupted' = interrupted
      BY <1>1, <1>5, <2>3, <2>5, Zenon DEF Alone, pico
    <3>2. cycle.kind = "vector" => cycle'.left = 1
      BY <1>3, <1>6, <2>2, <3>1 DEF Bounded
    <3> QED
      BY <1>3, <2>2, <3>1, <3>2 DEF Bounded
  <2>6. Follows'
    BY <1>1, <1>5, <2>2, <2>5, Zenon DEF Follows, Alone, pico
  <2> QED
    BY <2>4, <2>6, Zenon DEF IInv
<1>7. CASE ~(cycle.left > 1)
  <2>1. cycle' = CASE cycle.kind = "stack" -> Cycle("vector", 2)
               [] cycle.kind = "release" -> Cycle("reset_vector", 2)
               [] cycle.kind \in {"vector", "reset_vector"} -> Cycle("dead", 1)
               [] cycle.kind \in {"dead", "unstack"} -> Exec
               [] cycle.kind = "held" -> cycle
    BY <1>7, Zenon DEF Continues
  <2>2. /\ cycle' \in [kind : Kinds, left : 1 .. 15]
        /\ cycle'.kind \in {"vector", "reset_vector", "dead", "exec", "held"}
        /\ cycle'.kind = "vector" => cycle.kind = "stack" /\ cycle'.left = 2
        /\ cycle.kind = "held" => cycle'.kind = "held"
    <3>1. CASE cycle.kind = "stack"
      <4>1. cycle' = Cycle("vector", 2)
        BY <2>1, <3>1, Zenon
      <4> QED
        BY <3>1, <4>1 DEF Cycle, Kinds
    <3>2. CASE cycle.kind = "release"
      <4>1. cycle' = Cycle("reset_vector", 2)
        BY <2>1, <3>2, Zenon
      <4>2. cycle'.kind = "reset_vector" /\ cycle' \in [kind : Kinds, left : 1 .. 15]
        <5>1. "reset_vector" \in Kinds
          BY Zenon DEF Kinds
        <5>2. cycle' = [kind |-> "reset_vector", left |-> 2]
          BY <4>1, Zenon DEF Cycle
        <5>3. 2 \in 1 .. 15
          OBVIOUS
        <5> QED
          BY <5>1, <5>2, <5>3, Zenon
      <4> QED
        BY <3>2, <4>2, Zenon
    <3>3. CASE cycle.kind \in {"vector", "reset_vector"}
      <4>1. cycle' = Cycle("dead", 1)
        BY <2>1, <3>3, Zenon
      <4>2. cycle'.kind = "dead" /\ cycle' \in [kind : Kinds, left : 1 .. 15]
        BY <4>1 DEF Cycle, Kinds
      <4> QED
        BY <3>3, <4>2, Zenon
    <3>4. CASE cycle.kind \in {"dead", "unstack"}
      <4>1. cycle' = Exec
        BY <2>1, <3>4, Zenon
      <4> QED
        BY <3>4, <4>1 DEF Cycle, Kinds, Exec
    <3>5. CASE cycle.kind = "held"
      <4>1. cycle' = cycle
        BY <2>1, <3>5, Zenon
      <4> QED
        BY <1>3, <3>5, <4>1 DEF Cycle, Kinds
    <3> QED
      BY <1>1, <1>3, <3>1, <3>2, <3>3, <3>4, <3>5 DEF Kinds
  <2>3. TypeOK'
    BY <1>l, <1>1, <1>2, <2>2 DEF IInv, TypeOK, Contexts, Context, pico, Alone
  <2>4. resetPin' = resetPin /\ nestingDepth' = nestingDepth /\ stack' = stack
    BY <1>1, Zenon DEF Alone, pico
  <2>5. resetPin' => cycle'.kind = "held"
    BY <1>5, <2>2, <2>4, Zenon
  <2>6. ASSUME ~resetPin PROVE nestingDepth' = Len(stack') /\ Bounded(Len(interrupted))'
    <3>1. nestingDepth <= Len(interrupted') /\ nestingDepth = Len(stack)
      BY <1>4, <1>5, <2>6, Zenon
    <3>2. cycle'.kind = "vector" => nestingDepth < Len(interrupted')
      BY <1>4, <2>2, <2>6, Zenon
    <3>3. cycle'.kind \notin {"stack", "unstack"}
      BY <2>2
    <3> QED
      BY <2>2, <2>4, <3>1, <3>2, <3>3 DEF Bounded
  <2>7. Follows'
    BY <2>4, <2>5, <2>6, Zenon DEF Follows
  <2> QED
    BY <2>3, <2>7, Zenon DEF IInv
<1> QED
  BY <1>6, <1>7, Zenon

LEMMA StopKeeps == IInv /\ Stop => IInv'
<1> SUFFICES ASSUME IInv, Stop PROVE IInv'
  OBVIOUS
<1>1. /\ cycle' = Cycle("held", 1) /\ interrupted' = <<>> /\ deep' = FALSE /\ resetPin' = TRUE
      /\ UNCHANGED <<pico, half, mine, late>>
  BY Zenon DEF Stop
<1>2. cycle' \in [kind : Kinds, left : 1 .. 15] /\ cycle'.kind = "held"
  BY <1>1 DEF Cycle, Kinds
<1>3. resetPin' \in BOOLEAN /\ deep' \in BOOLEAN
  BY <1>1, Zenon
<1> QED
  BY <1>1, <1>2, <1>3 DEF IInv, TypeOK, Follows, pico

LEMMA StartKeeps == IInv /\ Start => IInv'
<1> SUFFICES ASSUME IInv, Start PROVE IInv'
  OBVIOUS
<1> USE TasksAssumption
<1>1. /\ stack' = <<>> /\ nestingDepth' = 0 /\ rtiTaskCountdown' = 0 /\ rtiPendingTask' = 0
      /\ busState' = "BUS_RUNNING" /\ cycle' = Cycle("release", 1) /\ mine' = task
      /\ UNCHANGED <<task, runState, half, interrupted, deep>>
  BY Zenon DEF Start
<1>2. cycle' \in [kind : Kinds, left : 1 .. 15] /\ cycle'.kind = "release"
  BY <1>1 DEF Cycle, Kinds
<1>3. resetPin' \in BOOLEAN
  BY Zenon DEF Start
<1>4. stack' \in Seq(Task) /\ Len(stack') = 0
  BY <1>1
<1>l. late' \in {"no", "due", "lost"}
  BY LateIs, Zenon DEF IInv, TypeOK, Lates
<1>5. TypeOK'
  BY <1>l, <1>1, <1>2, <1>3, <1>4 DEF IInv, TypeOK
<1>6. Len(interrupted') \in Nat
  BY <1>1 DEF IInv, TypeOK
<1>7. Follows'
  <2>1. ~resetPin'
    BY Zenon DEF Start
  <2> QED
    BY <1>1, <1>2, <1>4, <1>6, <2>1 DEF Follows, Bounded
<1> QED
  BY <1>5, <1>7 DEF IInv

(* The guest executes: it runs, and its stack and the Pico's stay.         *)
LEMMA ExecutingKeeps ==
    ASSUME IInv, Executing,
           UNCHANGED <<stack, nestingDepth, rtiTaskCountdown, rtiPendingTask, busState, runState,
                       interrupted, deep>>,
           task' \in Task, mine' \in Task,
           cycle' \in {Exec, Cycle("opcode", 1)}, late' \in Lates
    PROVE  IInv'
<1>1. half' = "Q" /\ resetPin' = resetPin /\ cycle.kind = "exec"
  BY DEF Executing, EFall, Exec, Cycle
<1>2. cycle' \in [kind : Kinds, left : 1 .. 15] /\ cycle'.kind \in {"exec", "opcode"}
  <2>1. Exec \in [kind : Kinds, left : 1 .. 15] /\ Exec.kind = "exec"
    BY DEF Exec, Cycle, Kinds
  <2>2. Cycle("opcode", 1) \in [kind : Kinds, left : 1 .. 15] /\ Cycle("opcode", 1).kind = "opcode"
    BY DEF Cycle, Kinds
  <2> QED
    BY <2>1, <2>2, Zenon
<1>3. TypeOK'
  <2>1. resetPin' \in BOOLEAN /\ deep' \in BOOLEAN
    BY <1>1, Zenon DEF IInv, TypeOK
  <2> QED
    BY <1>1, <1>2, <2>1 DEF IInv, TypeOK, Lates
<1>4. ~resetPin /\ nestingDepth = Len(stack) /\ nestingDepth <= Len(interrupted)
  BY <1>1 DEF IInv, Follows, Bounded
<1>5. Follows'
  BY <1>1, <1>2, <1>4 DEF Follows, Bounded
<1> QED
  BY <1>3, <1>5 DEF IInv

LEMMA IInvStep == IInv /\ [Next]_vars => IInv'
<1> SUFFICES ASSUME IInv, [Next]_vars PROVE IInv'
  OBVIOUS
<1>l. late \in Lates
  BY DEF IInv, TypeOK, Lates
<1>1. ASSUME Executes PROVE IInv'
  <2>1. Executing /\ cycle = Exec /\ UNCHANGED <<pico, guest>>
    BY <1>1, Zenon DEF Executes, Executing
  <2>2. late' \in Lates
    BY <1>1, <1>l, LateIs, Zenon
  <2> QED
    BY <2>1, <2>2, ExecutingKeeps DEF IInv, TypeOK, pico, guest
<1>2. ASSUME StartRti PROVE IInv'
  <2>1. Executing /\ cycle' = Cycle("opcode", 1) /\ UNCHANGED <<pico, mine, interrupted, deep>>
    BY <1>2, Zenon DEF StartRti
  <2>2. late' \in Lates
    BY <1>2, <1>l, LateIs, Zenon
  <2> QED
    BY <2>1, <2>2, ExecutingKeeps DEF IInv, TypeOK, pico
<1>3. ASSUME NEW t \in Task, WriteTask(t) PROVE IInv'
  <2>1. Executing /\ cycle = Exec /\ mine' = t /\ task' \in {t, task}
        /\ UNCHANGED <<stack, nestingDepth, rtiTaskCountdown, rtiPendingTask, busState,
                       runState, cycle, interrupted, deep>>
    BY <1>3, Zenon DEF WriteTask, Executing
  <2>2. late' \in Lates
    BY <1>3, <1>l, LateIs, Zenon
  <2> QED
    BY <2>1, <2>2, ExecutingKeeps DEF IInv, TypeOK
<1>4. ASSUME UNCHANGED vars PROVE IInv'
  BY <1>4 DEF vars, pico, guest, IInv, TypeOK, Follows, Bounded
<1> QED
  BY <1>1, <1>2, <1>3, <1>4, StopKeeps, StartKeeps, QRiseKeeps, ApplyRtiKeeps, ContinuesKeeps,
     TakeInterruptKeeps, Zenon DEF Next

(* For every size of task_stack, however deep the guest nests, with full    *)
(* frames and short ones, and wherever it is reset: task_stack is not      *)
(* overrun or underrun, and a guest back in its main program has left      *)
(* nothing on it.                                                          *)
THEOREM StackIsSafe == Spec => [](TypeOK /\ NestingUnwinds)
<1>1. IInv => TypeOK /\ NestingUnwinds
  <2> SUFFICES ASSUME IInv, Runs, interrupted = <<>> PROVE nestingDepth = 0 /\ stack = <<>>
    BY DEF IInv, NestingUnwinds
  <2>1. ~resetPin
    BY DEF IInv, Follows, Runs, Exec, Cycle
  <2>2. nestingDepth = Len(stack) /\ nestingDepth <= 0 /\ nestingDepth \in Nat
    BY <2>1 DEF IInv, TypeOK, Follows, Bounded
  <2> QED
    BY <2>2, EmptySeq DEF IInv, TypeOK
<1> QED
  BY <1>1, IInvInit, IInvStep, PTL DEF Spec

-----------------------------------------------------------------------------
(* The stack mirrors what the guest has interrupted.                       *)

(* What a rise of Q makes of the run state while the guest runs.            *)
LEMMA RunStateIs ==
    ASSUME IInv, QRise, ~resetPin
    PROVE  /\ runState' # "RS_RESET"
           /\ nestingDepth' # 0 /\ (runState = "RS_IN_IRQ" \/ (Observed /\ NewBs = "BUS_IRQ"))
                 => runState' = "RS_IN_IRQ"
<1>1. runState' = RunStateTicked(rtiTaskCountdown = 1, nestingDepth')
  BY Zenon DEF QRise
<1>2. runState' \in {"RS_RUNNING", RunStateSeen}
  BY <1>1, Zenon DEF RunStateTicked
<1>3. nestingDepth' # 0 => runState' = RunStateSeen
  BY <1>1, Zenon DEF RunStateTicked
<1>4. CASE runState = "RS_RESET"
  <2>1. RunStateSeen = "RS_RUNNING" /\ ~Observed
    BY <1>4, Zenon DEF RunStateSeen, Observed
  <2> QED
    BY <1>2, <1>4, <2>1
<1>5. CASE runState # "RS_RESET"
  <2>1. Observed => NewBs \in {"BUS_IRQ", "BUS_RUNNING"} /\ NewBs # busState
    BY Zenon DEF NewBs, Observed
  <2>2. Observed /\ NewBs = "BUS_IRQ" => RunStateSeen = "RS_IN_IRQ"
    BY <1>5, Zenon DEF RunStateSeen
  <2>3. ~Observed => RunStateSeen = runState
    BY <1>5, Zenon DEF RunStateSeen
  <2>4. Observed /\ NewBs # "BUS_IRQ" =>
            RunStateSeen = IF runState = "RS_IN_IRQ" THEN runState ELSE "RS_RUNNING"
    BY <1>5, <2>1, Zenon DEF RunStateSeen
  <2> QED
    BY <1>2, <1>3, <1>5, <2>2, <2>3, <2>4
<1> QED
  BY <1>4, <1>5

LEMMA QRiseMirrors == IInv /\ Mirrors /\ QRise => Mirrors'
<1> SUFFICES ASSUME IInv, Mirrors, QRise PROVE Mirrors'
  OBVIOUS
<1>0. UNCHANGED <<resetPin, interrupted, deep>>
  BY Zenon DEF QRise, guest
<1> SUFFICES ASSUME ~resetPin, ~deep PROVE Mirrors'
  BY <1>0 DEF Mirrors
<1>1. /\ half = "Q" /\ half' = "E"
      /\ nestingDepth' = IF Nests THEN nestingDepth + 1 ELSE nestingDepth
      /\ busState' = IF Observed THEN NewBs ELSE busState
      /\ UNCHANGED <<resetPin, cycle, interrupted, deep>>
  BY QRiseIs DEF IInv
<1>2. /\ nestingDepth \in Nat /\ Len(stack) = nestingDepth /\ Len(interrupted) \in Nat
      /\ interrupted # <<>> => Len(interrupted) # 0
      /\ cycle.kind = "vector" => cycle.left \in {1, 2}
  BY EmptySeq DEF IInv, TypeOK, Follows, Bounded
<1>3. runState' # "RS_RESET"
  BY RunStateIs
<1>4. Heard'
  BY <1>1 DEF Heard
<1>5. CASE cycle.kind = "vector" /\ cycle.left = 2
  <2>1. NewBs = "BUS_IRQ"
    BY <1>5 DEF NewBs
  <2>2. /\ busState = "BUS_RUNNING" /\ runState # "RS_RESET" /\ interrupted # <<>>
        /\ nestingDepth = Len(interrupted) - 1 /\ nestingDepth < MaxIntNestDepth
    BY <1>1, <1>2, <1>5, TasksAssumption DEF Mirrors, Heard, Height
  <2>3. Observed /\ Nests
    BY <1>2, <1>5, <2>1, <2>2 DEF Observed, Nests
  <2>4. nestingDepth' = Len(interrupted) /\ nestingDepth' # 0
    BY <1>1, <1>2, <2>2, <2>3
  <2>5. runState' = "RS_IN_IRQ" /\ busState' = "BUS_IRQ"
    BY <1>1, <2>1, <2>3, <2>4, RunStateIs
  <2> QED
    BY <1>1, <1>2, <1>3, <1>4, <1>5, <2>2, <2>4, <2>5 DEF Mirrors, Height
<1>6. CASE ~(cycle.kind = "vector" /\ cycle.left = 2)
  <2>1. Heard
    BY <1>6 DEF Heard
  <2>2. ~Nests /\ (cycle.kind = "vector" => busState' = "BUS_IRQ")
    <3>1. cycle.kind = "vector" => NewBs = "BUS_IRQ" /\ busState = "BUS_IRQ"
      BY <2>1 DEF NewBs, Mirrors
    <3> QED
      BY <1>1, <3>1 DEF Nests, Observed
  <2>3. cycle.kind \notin {"vector", "reset_vector"} => busState' = "BUS_RUNNING"
    <3>1. cycle.kind \notin {"vector", "reset_vector"} => NewBs = "BUS_RUNNING"
      BY Zenon DEF NewBs
    <3>2. cycle.kind = "dead" => runState # "RS_RESET"
      BY DEF Mirrors
    <3> QED
      BY <1>1, <3>1, <3>2 DEF Mirrors, Observed
  <2>4. nestingDepth' = nestingDepth
    BY <1>1, <2>2
  <2>5. nestingDepth' > 0 => runState' = "RS_IN_IRQ"
    BY <1>2, <2>4, RunStateIs DEF Mirrors
  <2>6. Height' = Height
    BY <1>1, <1>4, <2>1 DEF Height
  <2> QED
    BY <1>1, <1>3, <1>4, <2>1, <2>2, <2>3, <2>4, <2>5, <2>6 DEF Mirrors
<1> QED
  BY <1>5, <1>6

(* What the guest goes back to, and how high that is.                      *)
LEMMA ReturnHeight ==
    ASSUME IInv, Mirrors, ~resetPin, ~deep, cycle = Exec \/ Returning
    PROVE  /\ nestingDepth = Len(Resume.interrupted) /\ busState = "BUS_RUNNING"
           /\ runState # "RS_RESET" /\ Len(Resume.interrupted) <= MaxIntNestDepth
<1>1. /\ Len(interrupted) \in Nat
      /\ interrupted = <<>> => Len(interrupted) = 0
      /\ interrupted # <<>> => Len(interrupted) # 0
  BY EmptySeq DEF IInv, TypeOK
<1>2. CASE Returning
  <2>1. cycle.kind = "unstack"
    BY <1>2, Zenon DEF Returning
  <2>2. Len(Resume.interrupted) = IF interrupted = <<>> THEN 0 ELSE Len(interrupted) - 1
    BY <1>2, ResumeIs, Zenon DEF IInv
  <2> QED
    BY <1>1, <2>1, <2>2, TasksAssumption DEF Mirrors, Height
<1>3. CASE ~Returning
  <2>1. Resume.interrupted = interrupted
    BY <1>3, ResumeIs, Zenon DEF IInv
  <2>2. cycle.kind = "exec"
    BY <1>3 DEF Exec, Cycle
  <2> QED
    BY <1>1, <2>1, <2>2 DEF Mirrors, Height, Heard
<1> QED
  BY <1>2, <1>3

LEMMA TakeInterruptMirrors ==
    ASSUME IInv, Mirrors, NEW f \in Frames, TakeInterrupt(f) PROVE Mirrors'
<1>1. /\ half' = "Q" /\ (cycle = Exec \/ Returning)
      /\ interrupted' = Append(Resume.interrupted, [task |-> Resume.mine, frame |-> f])
      /\ cycle' = Cycle("stack", Stacking[f])
      /\ UNCHANGED <<resetPin, nestingDepth, busState, runState>>
  BY Zenon DEF TakeInterrupt, EFall, pico
<1>2. ~deep' => ~deep /\ ~(Len(interrupted') > MaxIntNestDepth)
  BY Zenon DEF TakeInterrupt
<1>3. ~resetPin
  BY <1>1 DEF IInv, Follows, Exec, Cycle, Returning
<1>4. SUFFICES ASSUME ~deep' PROVE Mirrors'
  BY <1>1, <1>3 DEF Mirrors
<1>5. Resume.mine \in Task /\ Resume.interrupted \in Contexts
  BY ResumeIs, Zenon DEF IInv
<1>6. /\ interrupted' # <<>> /\ Len(interrupted') = Len(Resume.interrupted) + 1
      /\ Len(Resume.interrupted) \in Nat
  BY <1>1, <1>5, TasksAssumption DEF Contexts, Context
<1>7. cycle'.kind = "stack" /\ Heard'
  BY <1>1 DEF Cycle, Heard
<1>8. /\ nestingDepth = Len(Resume.interrupted) /\ busState = "BUS_RUNNING"
      /\ runState # "RS_RESET"
  BY <1>1, <1>2, <1>3, <1>4, ReturnHeight
<1>9. nestingDepth' = Height'
  BY <1>1, <1>6, <1>7, <1>8 DEF Height
<1>10. Len(interrupted') <= MaxIntNestDepth
  BY <1>2, <1>4, <1>6, TasksAssumption
<1>11. nestingDepth > 0 => runState = "RS_IN_IRQ"
  BY <1>2, <1>3, <1>4 DEF Mirrors
<1> QED
  BY <1>1, <1>3, <1>6, <1>7, <1>8, <1>9, <1>10, <1>11 DEF Mirrors

LEMMA ApplyRtiMirrors == IInv /\ Mirrors /\ ApplyRti => Mirrors'
<1> SUFFICES ASSUME IInv, Mirrors, ApplyRti PROVE Mirrors'
  OBVIOUS
<1>1. /\ half = "E" /\ half' = "Q" /\ cycle.kind = "opcode"
      /\ nestingDepth' = IF nestingDepth > 0 THEN nestingDepth - 1 ELSE 0
      /\ UNCHANGED <<resetPin, busState, interrupted, deep>>
  BY Zenon DEF ApplyRti, EFall
<1>2. cycle'.kind = "unstack" /\ Heard'
  <2>1. cycle' = Cycle("unstack", Unstacking[IF interrupted = <<>> THEN "full"
                                             ELSE Last(interrupted).frame])
    BY Zenon DEF ApplyRti, Frame
  <2> QED
    BY <2>1 DEF Cycle, Heard
<1>3. ~resetPin /\ (nestingDepth > 0 => stack # <<>>)
  BY <1>1, EmptySeq DEF IInv, Follows
<1>4. nestingDepth > 0 => runState' = runState
  <2>1. nestingDepth > 0 => rtiTaskCountdown' = 15
    BY <1>3, Zenon DEF ApplyRti
  <2>2. runState' = IF nestingDepth > 0 /\ nestingDepth' = 0 /\ rtiTaskCountdown' = 0
                    THEN "RS_RUNNING" ELSE runState
    BY Zenon DEF ApplyRti
  <2> QED
    BY <2>1, <2>2
<1>5. runState' \in {"RS_RUNNING", runState}
  BY Zenon DEF ApplyRti
<1>6. /\ nestingDepth \in Nat /\ Len(interrupted) \in Nat
      /\ interrupted = <<>> => Len(interrupted) = 0
      /\ interrupted # <<>> => Len(interrupted) # 0
  BY EmptySeq DEF IInv, TypeOK
<1> SUFFICES ASSUME ~deep PROVE Mirrors'
  BY <1>1, <1>3 DEF Mirrors
<1>7. nestingDepth = Len(interrupted)
  BY <1>1, <1>3 DEF Mirrors, Height, Heard
<1>8. nestingDepth' = Height'
  BY <1>1, <1>2, <1>6, <1>7 DEF Height
<1>9. nestingDepth' > 0 => runState' = "RS_IN_IRQ"
  BY <1>1, <1>3, <1>4, <1>6 DEF Mirrors
<1>10. runState' # "RS_RESET" /\ busState = "BUS_RUNNING" /\ Len(interrupted) <= MaxIntNestDepth
  BY <1>1, <1>3, <1>5 DEF Mirrors
<1> QED
  BY <1>1, <1>2, <1>3, <1>8, <1>9, <1>10 DEF Mirrors

(* The guest's next cycle, kind by kind.                                   *)
LEMMA NextCycle ==
    ASSUME IInv, Continues
    PROVE  /\ cycle.left > 1 => cycle'.kind = cycle.kind /\ cycle'.left = cycle.left - 1
           /\ ~(cycle.left > 1) =>
                /\ cycle.kind = "stack" => cycle'.kind = "vector" /\ cycle'.left = 2
                /\ cycle.kind = "release" => cycle'.kind = "reset_vector" /\ cycle'.left = 2
                /\ cycle.kind \in {"vector", "reset_vector"} => cycle'.kind = "dead"
                /\ cycle.kind \in {"dead", "unstack"} => cycle'.kind = "exec"
                /\ cycle.kind = "held" => cycle' = cycle
           /\ cycle.kind \in Kinds \ {"exec", "opcode"} /\ cycle.left \in 1 .. 15
<1>1. cycle \in [kind : Kinds, left : 1 .. 15] /\ cycle.kind \notin {"exec", "opcode"}
  BY Zenon DEF IInv, TypeOK, Continues
<1>2. CASE cycle.left > 1
  <2>1. cycle' = Cycle(cycle.kind, cycle.left - 1)
    BY <1>2, Zenon DEF Continues
  <2> QED
    BY <1>1, <1>2, <2>1 DEF Cycle
<1>3. CASE ~(cycle.left > 1)
  <2>1. cycle' = CASE cycle.kind = "stack" -> Cycle("vector", 2)
               [] cycle.kind = "release" -> Cycle("reset_vector", 2)
               [] cycle.kind \in {"vector", "reset_vector"} -> Cycle("dead", 1)
               [] cycle.kind \in {"dead", "unstack"} -> Exec
               [] cycle.kind = "held" -> cycle
    BY <1>3, Zenon DEF Continues
  <2>2. cycle.kind = "stack" => cycle' = Cycle("vector", 2)
    BY <2>1, Zenon
  <2>3. cycle.kind = "release" => cycle' = Cycle("reset_vector", 2)
    BY <2>1, Zenon
  <2>4. cycle.kind \in {"vector", "reset_vector"} => cycle' = Cycle("dead", 1)
    BY <2>1, Zenon
  <2>5. cycle.kind \in {"dead", "unstack"} => cycle' = Exec
    BY <2>1, Zenon
  <2>6. cycle.kind = "held" => cycle' = cycle
    BY <2>1, Zenon
  <2> QED
    BY <1>1, <1>3, <2>2, <2>3, <2>4, <2>5, <2>6 DEF Cycle, Exec
<1> QED
  BY <1>2, <1>3

LEMMA ContinuesMirrors == IInv /\ Mirrors /\ Continues => Mirrors'
<1> SUFFICES ASSUME IInv, Mirrors, Continues PROVE Mirrors'
  OBVIOUS
<1>1. /\ half = "E" /\ half' = "Q" /\ interrupted' = Resume.interrupted
      /\ UNCHANGED <<resetPin, nestingDepth, busState, runState, deep>>
  BY Zenon DEF Continues, EFall, pico
<1>2. ~Returning => interrupted' = interrupted
  BY <1>1, ResumeIs, Zenon DEF IInv
<1>3. CASE resetPin
  <2>1. ~Returning
    BY <1>3 DEF IInv, Follows, Returning
  <2> QED
    BY <1>1, <1>2, <1>3, <2>1 DEF Mirrors
<1>4. CASE deep
  BY <1>1, <1>3, <1>4 DEF Mirrors
<1> SUFFICES ASSUME ~resetPin, ~deep PROVE Mirrors'
  BY <1>3, <1>4
<1>5. cycle.kind = "vector" => cycle.left \in {1, 2}
  BY DEF IInv, Follows, Bounded
<1>6. Heard /\ Len(interrupted) \in Nat
  BY <1>1 DEF Heard, IInv, TypeOK
<1>7. CASE Returning
  <2>1. cycle.kind = "unstack" /\ cycle.left = 1
    BY <1>7, Zenon DEF Returning
  <2>2. cycle'.kind = "exec" /\ Heard'
    BY <2>1, NextCycle DEF Heard
  <2>3. nestingDepth = Len(interrupted') /\ busState = "BUS_RUNNING" /\ runState # "RS_RESET"
        /\ Len(interrupted') <= MaxIntNestDepth
    BY <1>1, <1>7, ReturnHeight
  <2>4. nestingDepth' = Height'
    BY <1>1, <2>2, <2>3 DEF Height
  <2> QED
    BY <1>1, <2>2, <2>3, <2>4 DEF Mirrors
<1>8. CASE ~Returning
  <2>1. interrupted' = interrupted
    BY <1>2, <1>8
  <2>2. ~(cycle.kind = "unstack" /\ ~(cycle.left > 1))
    BY <1>8, NextCycle DEF Returning
  <2>3. CASE cycle.left > 1
    <3>1. cycle'.kind = cycle.kind /\ cycle'.left = cycle.left - 1
      BY <2>3, NextCycle
    <3>2. Heard'
      BY <1>5, <3>1, <2>3 DEF Heard
    <3>3. Height' = Height
      BY <1>6, <2>1, <3>1, <3>2 DEF Height
    <3>4. cycle.kind # "dead" \/ busState = "BUS_RUNNING"
      BY <1>1 DEF Mirrors
    <3> QED
      BY <1>1, <1>6, <2>1, <2>3, <3>1, <3>2, <3>3, <3>4 DEF Mirrors
  <2>4. CASE ~(cycle.left > 1)
    <3>1. CASE cycle.kind = "stack"
      <4>1. cycle'.kind = "vector" /\ ~Heard' /\ cycle'.left = 2
        BY <1>1, <2>4, <3>1, NextCycle DEF Heard
      <4>2. Height' = Height
        BY <2>1, <3>1, <4>1 DEF Height
      <4> QED
        BY <1>1, <2>1, <3>1, <4>1, <4>2 DEF Mirrors
    <3>2. CASE cycle.kind = "release"
      <4>1. cycle'.kind = "reset_vector" /\ cycle'.left = 2 /\ Heard'
        BY <1>1, <2>4, <3>2, NextCycle DEF Heard
      <4>2. Height' = Height
        BY <1>6, <2>1, <3>2, <4>1 DEF Height
      <4> QED
        BY <1>1, <2>1, <3>2, <4>1, <4>2 DEF Mirrors
    <3>3. CASE cycle.kind \in {"vector", "reset_vector"}
      <4>1. cycle'.kind = "dead" /\ Heard'
        BY <2>4, <3>3, NextCycle DEF Heard
      <4>2. Height' = Height
        BY <1>6, <2>1, <3>3, <4>1 DEF Height
      <4> QED
        BY <1>1, <2>1, <3>3, <4>1, <4>2 DEF Mirrors
    <3>4. CASE cycle.kind = "dead"
      <4>1. cycle'.kind = "exec" /\ Heard'
        BY <2>4, <3>4, NextCycle DEF Heard
      <4>2. Height' = Height
        BY <1>6, <2>1, <3>4, <4>1 DEF Height
      <4> QED
        BY <1>1, <2>1, <3>4, <4>1, <4>2 DEF Mirrors
    <3>5. CASE cycle.kind = "held"
      <4>1. cycle' = cycle /\ Heard'
        BY <2>4, <3>5, NextCycle DEF Heard
      <4>2. Height' = Height
        BY <1>6, <2>1, <4>1 DEF Height
      <4> QED
        BY <1>1, <1>6, <2>1, <3>5, <4>1, <4>2 DEF Mirrors
    <3> QED
      BY <2>2, <2>4, <3>1, <3>2, <3>3, <3>4, <3>5, NextCycle DEF Kinds
  <2> QED
    BY <2>3, <2>4
<1> QED
  BY <1>7, <1>8

LEMMA StopMirrors == IInv /\ Mirrors /\ Stop => Mirrors'
<1> SUFFICES ASSUME IInv, Mirrors, Stop PROVE Mirrors'
  OBVIOUS
<1>1. interrupted' = <<>>
  BY Zenon DEF Stop
<1>2. resetPin'
  BY Zenon DEF Stop
<1> QED
  BY <1>1, <1>2 DEF Mirrors

LEMMA StartMirrors == IInv /\ Mirrors /\ Start => Mirrors'
<1> SUFFICES ASSUME IInv, Mirrors, Start PROVE Mirrors'
  OBVIOUS
<1>1. /\ nestingDepth' = 0 /\ busState' = "BUS_RUNNING" /\ cycle' = Cycle("release", 1)
      /\ interrupted' = interrupted
  BY Zenon DEF Start
<1>2. interrupted = <<>>
  BY Zenon DEF Start, Mirrors
<1>3. cycle'.kind = "release"
  BY <1>1 DEF Cycle
<1>4. Height' = 0
  BY <1>1, <1>2, <1>3, EmptySeq DEF Height, Heard
<1> QED
  BY <1>1, <1>2, <1>3, <1>4, EmptySeq, TasksAssumption DEF Mirrors

LEMMA ExecutingMirrors ==
    ASSUME IInv, Mirrors, Executing,
           UNCHANGED <<nestingDepth, busState, runState, interrupted, deep>>,
           cycle'.kind \in {"exec", "opcode"}
    PROVE  Mirrors'
<1>1. half' = "Q" /\ resetPin' = resetPin /\ cycle.kind = "exec"
  BY DEF Executing, EFall, Exec, Cycle
<1>2. Height' = Height
  BY <1>1 DEF Height, Heard
<1> QED
  BY <1>1, <1>2 DEF Mirrors

LEMMA MirrorsStep == IInv /\ Mirrors /\ [Next]_vars => Mirrors'
<1> SUFFICES ASSUME IInv, Mirrors, [Next]_vars PROVE Mirrors'
  OBVIOUS
<1>1. ASSUME Executes PROVE Mirrors'
  <2>1. Executing /\ cycle' = Exec
        /\ UNCHANGED <<nestingDepth, busState, runState, interrupted, deep>>
    BY <1>1, Zenon DEF Executes, Executing, pico, guest
  <2> QED
    BY <2>1, ExecutingMirrors DEF Exec, Cycle
<1>2. ASSUME StartRti PROVE Mirrors'
  <2>1. Executing /\ cycle' = Cycle("opcode", 1)
        /\ UNCHANGED <<nestingDepth, busState, runState, interrupted, deep>>
    BY <1>2, Zenon DEF StartRti, pico
  <2> QED
    BY <2>1, ExecutingMirrors DEF Cycle
<1>3. ASSUME NEW t \in Task, WriteTask(t) PROVE Mirrors'
  <2>1. Executing /\ cycle' = Exec
        /\ UNCHANGED <<nestingDepth, busState, runState, interrupted, deep>>
    BY <1>3, Zenon DEF WriteTask, Executing
  <2> QED
    BY <2>1, ExecutingMirrors DEF Exec, Cycle
<1>4. ASSUME UNCHANGED vars PROVE Mirrors'
  BY <1>4 DEF vars, pico, guest, Mirrors, Height, Heard
<1> QED
  BY <1>1, <1>2, <1>3, <1>4, StopMirrors, StartMirrors, QRiseMirrors, ApplyRtiMirrors,
     ContinuesMirrors, TakeInterruptMirrors, Zenon DEF Next

LEMMA MirrorsInit == Init => Mirrors
<1> SUFFICES ASSUME Init PROVE Mirrors
  OBVIOUS
<1>1. interrupted = <<>>
  BY Zenon DEF Init
<1>2. resetPin
  BY Zenon DEF Init
<1> QED
  BY <1>1, <1>2 DEF Mirrors

(* For full frames and short ones: a handler of the guest runs as RS_IN_IRQ, *)
(* also after an interrupt nested in it, as long as what is interrupted     *)
(* fits in task_stack.                                                      *)
THEOREM HandlersAreInIrq == Spec => []HandlerIsInIrq
<1>1. IInv /\ Mirrors => HandlerIsInIrq
  <2> SUFFICES ASSUME IInv, Mirrors, Runs, ~deep, interrupted # <<>>
               PROVE  runState = "RS_IN_IRQ"
    BY Zenon DEF HandlerIsInIrq
  <2>1. ~resetPin /\ cycle.kind = "exec"
    BY DEF IInv, Follows, Runs, Exec, Cycle
  <2>2. nestingDepth = Len(interrupted) /\ Len(interrupted) > 0
    BY <2>1, EmptySeq DEF Mirrors, Height, Heard, IInv, TypeOK
  <2> QED
    BY <2>1, <2>2 DEF Mirrors
<1> QED
  BY <1>1, IInvInit, IInvStep, MirrorsInit, MirrorsStep, PTL DEF Spec

-----------------------------------------------------------------------------
(* The tasks on the stack, and the one to come, are those of the guest.    *)

LEMMA QRiseTracks == IInv /\ Mirrors /\ Tracks /\ QRise => Tracks'
<1> SUFFICES ASSUME IInv, Mirrors, Tracks, QRise PROVE Tracks'
  OBVIOUS
<1>1. /\ half = "Q" /\ half' = "E" /\ stack' = StackSeen
      /\ nestingDepth' = IF Nests THEN nestingDepth + 1 ELSE nestingDepth
      /\ UNCHANGED <<rtiPendingTask, resetPin, cycle, mine, interrupted, deep>>
  BY QRiseIs DEF IInv
<1>2. /\ rtiTaskCountdown' = IF rtiTaskCountdown > 0 THEN rtiTaskCountdown - 1 ELSE 0
      /\ task' = IF rtiTaskCountdown = 1 THEN rtiPendingTask ELSE task
  BY Zenon DEF QRise
<1>3. /\ rtiTaskCountdown \in Nat /\ nestingDepth \in Nat /\ Len(interrupted) \in Nat
      /\ stack \in Seq(Task) /\ task \in Task /\ cycle.left \in Nat \ {0}
  BY DEF IInv, TypeOK
<1>l. /\ late' = IF late # "due" THEN late
                 ELSE IF Nests THEN "lost" ELSE IF rtiTaskCountdown = 1 THEN "no" ELSE late
      /\ late \in {"no", "due", "lost"}
  BY Zenon DEF QRise, IInv, TypeOK
<1> SUFFICES ASSUME ~resetPin, ~deep, late' # "lost" PROVE Tracks'
  BY <1>1 DEF Tracks
<1>m. late \in {"no", "due"} /\ (late = "due" => ~Nests)
  BY <1>l
<1>4. GoesBack' = GoesBack /\ Innermost' = Innermost /\ Heard'
  BY <1>1 DEF GoesBack, Innermost, Heard
<1>5. CASE GoesBack
  <2>1. /\ rtiTaskCountdown = RisesLeft + (IF late = "due" THEN 9 ELSE 0)
        /\ RisesLeft = cycle.left + 1
    BY <1>1, <1>5, <1>m DEF Tracks, RisesLeft
  <2>2. rtiTaskCountdown # 1 /\ late' = late
    BY <1>3, <1>l, <1>m, <2>1
  <2>3. /\ rtiTaskCountdown' = RisesLeft' + (IF late' = "due" THEN 9 ELSE 0)
        /\ rtiTaskCountdown' > 0
    BY <1>1, <1>2, <1>3, <2>1, <2>2 DEF RisesLeft
  <2>4. Due' = Due /\ Due = Innermost
    BY <1>1, <1>2, <1>3, <1>5, <1>m, <2>1, <2>2, <2>3 DEF Due, Tracks
  <2>5. ~Nests /\ cycle.kind # "stack"
    BY <1>1, <1>5 DEF Nests, GoesBack
  <2>6. stack' = stack /\ nestingDepth' = nestingDepth
    BY <1>1, <2>5 DEF StackSeen
  <2> QED
    BY <1>1, <1>4, <1>5, <1>m, <2>3, <2>4, <2>5, <2>6 DEF Tracks
<1>6. CASE ~GoesBack /\ late = "no"
  <2>1. rtiTaskCountdown \in {0, 1} /\ late' = "no"
    BY <1>6, <1>l DEF Tracks
  <2>2. rtiTaskCountdown' = 0
    BY <1>2, <2>1
  <2>3. Due' = Due /\ Due = mine
    BY <1>1, <1>2, <1>6, <2>1, <2>2 DEF Due, Tracks
  <2>5. \A i \in 1 .. nestingDepth' : stack'[i] = interrupted[i].task
    <3>1. CASE Nests
      <4>1. cycle.kind = "vector" /\ NewBs = "BUS_IRQ" /\ busState # "BUS_IRQ"
        BY <3>1 DEF Nests, Observed, NewBs
      <4>2. ~Heard
        BY <4>1 DEF Mirrors
      <4>3. nestingDepth = Len(interrupted) - 1 /\ mine = Innermost
        BY <1>6, <4>1, <4>2 DEF Mirrors, Height, Tracks
      <4>4. rtiTaskCountdown = 0 /\ task = mine
        BY <1>6, <4>1 DEF Tracks, Due
      <4>5. stack' = Append(stack, task) /\ nestingDepth' = Len(interrupted)
        BY <1>1, <1>3, <3>1, <4>3 DEF StackSeen
      <4>6. Len(stack) = nestingDepth
        BY DEF IInv, Follows
      <4>7. ASSUME NEW i \in 1 .. nestingDepth' PROVE stack'[i] = interrupted[i].task
        <5>1. CASE i = Len(interrupted)
          BY <1>3, <4>3, <4>4, <4>5, <4>6, <5>1 DEF Innermost
        <5>2. CASE i # Len(interrupted)
          <6>1. i \in 1 .. Len(stack)
            BY <1>3, <4>3, <4>5, <4>6, <4>7, <5>2
          <6>2. stack'[i] = stack[i]
            BY <1>3, <4>5, <6>1
          <6> QED
            BY <1>6, <4>6, <6>1, <6>2 DEF Tracks
        <5> QED
          BY <5>1, <5>2
      <4> QED
        BY <4>7
    <3>2. CASE ~Nests
      <4>1. stack' = stack /\ nestingDepth' = nestingDepth
        BY <1>1, <3>2 DEF StackSeen
      <4> QED
        BY <1>6, <4>1 DEF Tracks
    <3> QED
      BY <3>1, <3>2
  <2> QED
    BY <1>1, <1>4, <1>6, <2>1, <2>2, <2>3, <2>5 DEF Tracks
<1>7. CASE ~GoesBack /\ late = "due"
  <2>1. ~Nests /\ rtiTaskCountdown \in 1 .. 10
    BY <1>1, <1>7, <1>m DEF Tracks
  <2>2. stack' = stack /\ nestingDepth' = nestingDepth
    BY <1>1, <2>1 DEF StackSeen
  <2>3. Due = mine /\ \A i \in 1 .. nestingDepth : stack[i] = interrupted[i].task
    BY <1>7 DEF Tracks
  <2>4. Due' = Due
    BY <1>1, <1>2, <2>1 DEF Due
  <2>5. IF rtiTaskCountdown = 1 THEN late' = "no" /\ rtiTaskCountdown' = 0
                                ELSE late' = "due" /\ rtiTaskCountdown' \in 1 .. 9
    BY <1>2, <1>7, <1>l, <2>1
  <2>6. cycle.kind = "stack" => mine = Innermost
    BY <1>7 DEF Tracks
  <2> QED
    BY <1>1, <1>4, <1>7, <2>2, <2>3, <2>4, <2>5, <2>6 DEF Tracks
<1> QED
  BY <1>5, <1>6, <1>7, <1>m

(* What the guest goes back to, and in which task.                         *)
LEMMA ReturnTask ==
    ASSUME IInv, Mirrors, Tracks, ~resetPin, ~deep, late # "lost", half = "E",
           cycle = Exec \/ Returning
    PROVE  /\ Due = Resume.mine
           /\ IF late = "due" THEN rtiTaskCountdown \in 1 .. 10 ELSE rtiTaskCountdown \in {0, 1}
           /\ Len(Resume.interrupted) <= Len(interrupted)
           /\ \A i \in 1 .. Len(Resume.interrupted) : Resume.interrupted[i] = interrupted[i]
<1>1. interrupted \in Contexts /\ Len(interrupted) \in Nat
  BY Zenon, LenProperties DEF IInv, TypeOK, Contexts, Context
<1>2. CASE Returning /\ interrupted # <<>>
  <2>1. Resume = [mine |-> Last(interrupted).task, interrupted |-> Front(interrupted)]
    BY <1>2, Zenon DEF Resume
  <2>2. Resume.mine = Last(interrupted).task /\ Resume.interrupted = Front(interrupted)
    BY <2>1
  <2>3. Resume.mine = Innermost
    BY <2>2, Zenon DEF Last, Innermost
  <2>4. GoesBack /\ cycle.left = 1
    BY <1>2 DEF GoesBack, Returning
  <2>5. rtiTaskCountdown = (IF late = "due" THEN 10 ELSE 1) /\ Due = Innermost
    BY <2>4 DEF Tracks, RisesLeft
  <2>6. Len(Front(interrupted)) = Len(interrupted) - 1
    BY <1>1, <1>2, FrontIs DEF Contexts
  <2>7. ASSUME NEW i \in 1 .. Len(interrupted) - 1 PROVE Front(interrupted)[i] = interrupted[i]
    <3> DEFINE s == interrupted
    <3>1. s \in Seq(Context) /\ i \in 1 .. Len(s) - 1
      BY <1>1, <2>7 DEF Contexts
    <3> HIDE DEF s
    <3>2. SubSeq(s, 1, Len(s) - 1)[i] = s[i]
      BY <3>1
    <3> QED
      BY <3>2, Zenon DEF Front, s
  <2> QED
    BY <1>1, <2>2, <2>3, <2>5, <2>6, <2>7
<1>3. CASE ~(Returning /\ interrupted # <<>>)
  <2>1. Resume = [mine |-> mine, interrupted |-> interrupted]
    BY <1>3 DEF Resume
  <2>2. ~GoesBack
    BY <1>3 DEF GoesBack, Exec, Cycle
  <2>3. /\ Due = mine /\ late \in {"no", "due"}
        /\ IF late = "due" THEN rtiTaskCountdown \in 1 .. 9 ELSE rtiTaskCountdown = 0
    BY <2>2 DEF Tracks, IInv, TypeOK
  <2> QED
    BY <1>1, <2>1, <2>3
<1> QED
  BY <1>2, <1>3

LEMMA TakeInterruptTracks ==
    ASSUME IInv, Mirrors, Tracks, NEW f \in Frames, TakeInterrupt(f)
    PROVE  Tracks'
<1>1. /\ half = "E" /\ half' = "Q" /\ (cycle = Exec \/ Returning)
      /\ interrupted' = Append(Resume.interrupted, [task |-> Resume.mine, frame |-> f])
      /\ cycle' = Cycle("stack", Stacking[f]) /\ mine' = Resume.mine
      /\ UNCHANGED <<resetPin, nestingDepth, stack, task, rtiTaskCountdown, rtiPendingTask,
                    late>>
  BY Zenon DEF TakeInterrupt, EFall, pico
<1>2. ~deep' => ~deep
  BY Zenon DEF TakeInterrupt
<1>3. ~resetPin
  BY <1>1 DEF IInv, Follows, Exec, Cycle, Returning
<1> SUFFICES ASSUME ~deep, late # "lost" PROVE Tracks'
  BY <1>1, <1>2 DEF Tracks
<1>4. f \in {"full", "short"} /\ late \in {"no", "due"}
  BY TasksAssumption DEF IInv, TypeOK
<1>5. cycle'.kind = "stack"
  BY <1>1 DEF Cycle
<1>6. Resume.mine \in Task /\ Resume.interrupted \in Contexts
  BY ResumeIs, Zenon DEF IInv
<1>7. /\ Due = Resume.mine
      /\ IF late = "due" THEN rtiTaskCountdown \in 1 .. 10 ELSE rtiTaskCountdown \in {0, 1}
      /\ Len(Resume.interrupted) <= Len(interrupted)
      /\ \A i \in 1 .. Len(Resume.interrupted) : Resume.interrupted[i] = interrupted[i]
  BY <1>1, <1>3, ReturnTask
<1>8. nestingDepth = Len(Resume.interrupted)
  BY <1>1, <1>3, ReturnHeight
<1> DEFINE r == Resume.interrupted
<1>9. r \in Seq(Context) /\ Len(r) \in Nat
  BY <1>6 DEF Contexts
<1> HIDE DEF r
<1>10. [task |-> mine', frame |-> f] \in Context
  BY <1>1, <1>4, <1>6 DEF Context
<1>11. interrupted' = Append(r, [task |-> mine', frame |-> f])
  BY <1>1 DEF r
<1>12. /\ Len(interrupted') = Len(r) + 1
       /\ interrupted'[Len(r) + 1] = [task |-> mine', frame |-> f]
       /\ \A i \in 1 .. Len(r) : interrupted'[i] = r[i]
  BY <1>9, <1>10, <1>11
<1>13. \A i \in 1 .. Len(r) : r[i] = interrupted[i] /\ i \in 1 .. Len(interrupted)
  <2>1. Len(interrupted) \in Nat
    BY DEF IInv, TypeOK
  <2> QED
    BY <1>7, <1>9, <2>1 DEF r
<1>15. \A i \in 1 .. nestingDepth : stack[i] = interrupted'[i].task
  BY <1>3, <1>8, <1>9, <1>12, <1>13 DEF Tracks, r
<1>16. Innermost' = mine' /\ Due' = mine'
  BY <1>1, <1>7, <1>12 DEF Innermost, Due
<1> QED
  BY <1>1, <1>4, <1>5, <1>7, <1>15, <1>16 DEF Tracks, GoesBack

LEMMA ApplyRtiTracks == IInv /\ Mirrors /\ Tracks /\ ApplyRti => Tracks'
<1> SUFFICES ASSUME IInv, Mirrors, Tracks, ApplyRti PROVE Tracks'
  OBVIOUS
<1>1. /\ half = "E" /\ half' = "Q" /\ cycle.kind = "opcode"
      /\ nestingDepth' = IF nestingDepth > 0 THEN nestingDepth - 1 ELSE 0
      /\ UNCHANGED <<resetPin, task, mine, interrupted, deep>>
  BY Zenon DEF ApplyRti, EFall
<1>2. ~resetPin /\ nestingDepth = Len(stack) /\ nestingDepth \in Nat /\ stack \in Seq(Task)
  BY <1>1 DEF IInv, Follows, TypeOK
<1>l. /\ late' = IF late = "lost" \/ ~(nestingDepth > 0 /\ stack # <<>>) THEN late
                 ELSE IF Frame = "short" THEN "due" ELSE "no"
      /\ late \in {"no", "due", "lost"}
  BY Zenon DEF ApplyRti, IInv, TypeOK
<1> SUFFICES ASSUME ~deep, late # "lost" PROVE Tracks'
  BY <1>1, <1>l DEF Tracks
<1>3. nestingDepth = Len(interrupted)
  BY <1>1, <1>2 DEF Mirrors, Height, Heard
<1>4. /\ ~GoesBack /\ Due = mine /\ late \in {"no", "due"}
      /\ IF late = "due" THEN rtiTaskCountdown \in 1 .. 9 ELSE rtiTaskCountdown = 0
  BY <1>1, <1>2, <1>l DEF GoesBack, Tracks
<1>5. cycle' = Cycle("unstack", Unstacking[IF interrupted = <<>> THEN "full"
                                           ELSE Last(interrupted).frame])
  BY Zenon DEF ApplyRti, Frame
<1>6. cycle'.kind = "unstack" /\ Heard'
  BY <1>5 DEF Cycle, Heard
<1>7. CASE nestingDepth > 0
  <2>1. stack # <<>> /\ interrupted # <<>>
    <3>1. \A S : \A s \in Seq(S) : Len(s) > 0 => s # <<>>
      OBVIOUS
    <3>2. interrupted \in Contexts
      BY Zenon DEF IInv, TypeOK, Contexts, Context
    <3>3. Len(stack) > 0 /\ Len(interrupted) > 0
      BY <1>2, <1>3, <1>7
    <3> QED
      BY <1>2, <3>1, <3>2, <3>3, Zenon DEF Contexts
  <2>2. stack' = Front(stack) /\ rtiPendingTask' = Last(stack) /\ rtiTaskCountdown' = 15
    BY <1>7, <2>1, Zenon DEF ApplyRti, Popped
  <2>3. Last(stack) = stack[Len(interrupted)] /\ Last(interrupted) = interrupted[Len(interrupted)]
    BY <1>2, <1>3 DEF Last
  <2>4. Last(stack) = Innermost
    BY <1>2, <1>3, <1>7, <2>3 DEF Tracks, Innermost
  <2>l. Last(interrupted).frame \in {"full", "short"}
    <3>1. interrupted \in Seq(Context)
      BY Zenon DEF IInv, TypeOK, Context
    <3>2. Last(interrupted) \in Context
      BY <2>1, <3>1, FrontIs, Zenon
    <3> QED
      BY <3>2, Zenon DEF Context
  <2>5. IF Last(interrupted).frame = "short" THEN cycle'.left = 5 /\ late' = "due"
                                            ELSE cycle'.left = 14 /\ late' = "no"
    BY <1>5, <1>7, <1>l, <2>1, <2>l DEF Cycle, Unstacking, Frame
  <2>6. GoesBack' /\ RisesLeft' + (IF late' = "due" THEN 9 ELSE 0) = 15 /\ Innermost' = Innermost
    <3>1. GoesBack'
      BY <1>1, <1>6, <2>1 DEF GoesBack
    <3>2. RisesLeft' + (IF late' = "due" THEN 9 ELSE 0) = 15
      BY <1>1, <2>5 DEF RisesLeft
    <3>3. Innermost' = Innermost
      BY <1>1 DEF Innermost
    <3> QED
      BY <3>1, <3>2, <3>3
  <2>7. Due' = Innermost'
    BY <2>2, <2>4, <2>6 DEF Due
  <2>8. ASSUME NEW i \in 1 .. nestingDepth' PROVE stack'[i] = interrupted[i].task
    <3> DEFINE s == stack
    <3>1. s \in Seq(Task) /\ i \in 1 .. Len(s) - 1
      BY <1>1, <1>2, <1>7, <2>8
    <3> HIDE DEF s
    <3>2. SubSeq(s, 1, Len(s) - 1)[i] = s[i]
      BY <3>1
    <3>3. stack'[i] = stack[i]
      BY <2>2, <3>2, Zenon DEF Front, s
    <3>4. i \in 1 .. nestingDepth
      BY <1>2, <3>1 DEF s
    <3> QED
      BY <1>2, <3>3, <3>4 DEF Tracks
  <2> QED
    BY <1>1, <1>2, <1>6, <2>2, <2>6, <2>7, <2>8 DEF Tracks
<1>8. CASE ~(nestingDepth > 0)
  <2>1. interrupted = <<>>
    BY <1>2, <1>3, <1>8, EmptySeq DEF IInv, TypeOK
  <2>2. /\ stack' = stack /\ rtiPendingTask' = rtiPendingTask
        /\ rtiTaskCountdown' = rtiTaskCountdown /\ nestingDepth' = 0 /\ late' = late
    BY <1>1, <1>8, <1>l, Zenon DEF ApplyRti
  <2>3. ~GoesBack' /\ Due' = mine'
    BY <1>1, <1>4, <2>1, <2>2 DEF GoesBack, Due
  <2> QED
    BY <1>1, <1>2, <1>4, <1>6, <2>1, <2>2, <2>3 DEF Tracks
<1> QED
  BY <1>7, <1>8

LEMMA ContinuesTracks == IInv /\ Mirrors /\ Tracks /\ Continues => Tracks'
<1> SUFFICES ASSUME IInv, Mirrors, Tracks, Continues PROVE Tracks'
  OBVIOUS
<1>1. /\ half = "E" /\ half' = "Q"
      /\ mine' = Resume.mine /\ interrupted' = Resume.interrupted
      /\ UNCHANGED <<resetPin, nestingDepth, stack, task, rtiTaskCountdown, rtiPendingTask, deep,
                   late>>
  BY Zenon DEF Continues, EFall, pico
<1> SUFFICES ASSUME ~resetPin, ~deep, late # "lost" PROVE Tracks'
  BY <1>1 DEF Tracks
<1>l. late \in {"no", "due"}
  BY DEF IInv, TypeOK
<1>2. Len(interrupted) \in Nat
  BY DEF IInv, TypeOK
<1>3. CASE Returning
  <2>1. cycle.kind = "unstack" /\ cycle.left = 1
    BY <1>3, Zenon DEF Returning
  <2>2. cycle'.kind = "exec" /\ Heard' /\ ~GoesBack'
    BY <2>1, NextCycle DEF Heard, GoesBack
  <2>3. nestingDepth = Len(interrupted')
    BY <1>1, <1>3, ReturnHeight
  <2>4. /\ Due = mine' /\ Len(interrupted') <= Len(interrupted)
        /\ IF late = "due" THEN rtiTaskCountdown \in 1 .. 10 ELSE rtiTaskCountdown \in {0, 1}
        /\ \A i \in 1 .. Len(interrupted') : interrupted'[i] = interrupted[i]
    BY <1>1, <1>3, ReturnTask
  <2>5. nestingDepth \in Nat
    BY DEF IInv, TypeOK
  <2>6. \A i \in 1 .. Len(interrupted') : i \in 1 .. Len(interrupted)
    BY <1>2, <2>3, <2>4, <2>5
  <2>7. \A i \in 1 .. nestingDepth : stack[i] = interrupted'[i].task
    BY <2>3, <2>4, <2>6 DEF Tracks
  <2>8. Due' = mine'
    BY <1>1, <2>4 DEF Due
  <2> QED
    BY <1>1, <1>l, <2>2, <2>4, <2>7, <2>8 DEF Tracks
<1>4. CASE ~Returning
  <2>1. interrupted' = interrupted /\ mine' = mine
    <3>1. Resume = [mine |-> mine, interrupted |-> interrupted]
      BY <1>4 DEF Resume
    <3> QED
      BY <1>1, <3>1
  <2>2. Innermost' = Innermost /\ Due' = Due
    BY <1>1, <2>1 DEF Innermost, Due
  <2>3. /\ cycle.kind = "unstack" => cycle'.kind = "unstack" /\ cycle'.left = cycle.left - 1
        /\ cycle'.kind = "unstack" => cycle.kind = "unstack"
        /\ cycle'.kind = "stack" => cycle.kind = "stack"
        /\ cycle.left \in Nat
    BY <1>4, NextCycle DEF Returning, Kinds
  <2>4. GoesBack' = GoesBack
    BY <2>1, <2>3 DEF GoesBack
  <2>5. GoesBack => RisesLeft' = RisesLeft
    BY <1>1, <2>3 DEF GoesBack, RisesLeft
  <2>6. ~GoesBack => IF late = "due" THEN rtiTaskCountdown \in 1 .. 9 ELSE rtiTaskCountdown = 0
    BY <1>1, <1>l DEF Tracks
  <2>7. cycle'.kind = "stack" \/ ~Heard' => cycle.kind = "stack"
    <3>1. cycle.kind = "vector" => cycle.left \in {1, 2}
      BY DEF IInv, Follows, Bounded
    <3>2. cycle'.kind = "vector" /\ cycle'.left = 2 => cycle.kind = "stack"
      BY <3>1, NextCycle DEF Kinds
    <3> QED
      BY <2>3, <3>2 DEF Heard
  <2> QED
    BY <1>1, <1>l, <2>1, <2>2, <2>4, <2>5, <2>6, <2>7 DEF Tracks
<1> QED
  BY <1>3, <1>4

LEMMA StartTracks == IInv /\ Mirrors /\ Start => Tracks'
<1> SUFFICES ASSUME IInv, Mirrors, Start PROVE Tracks'
  OBVIOUS
<1>1. /\ nestingDepth' = 0 /\ rtiTaskCountdown' = 0 /\ cycle' = Cycle("release", 1)
      /\ mine' = task /\ task' = task /\ interrupted' = interrupted /\ late' = "no"
  BY Zenon DEF Start
<1>2. interrupted = <<>>
  BY Zenon DEF Start, Mirrors
<1>3. cycle'.kind = "release"
  BY <1>1 DEF Cycle
<1>4. ~GoesBack' /\ Due' = mine' /\ Heard'
  BY <1>1, <1>3 DEF GoesBack, Due, Heard
<1>5. Len(interrupted') = 0
  BY <1>1, <1>2
<1> QED
  BY <1>1, <1>3, <1>4, <1>5 DEF Tracks

LEMMA ExecutingTracks ==
    ASSUME IInv, Tracks, Executing,
           UNCHANGED <<stack, nestingDepth, rtiTaskCountdown, rtiPendingTask, interrupted, deep>>,
           \/ task' = task /\ mine' = mine /\ late' = late
           \/ task' = mine' /\ late' = IF late = "due" THEN "lost" ELSE late,
           cycle'.kind \in {"exec", "opcode"}
    PROVE  Tracks'
<1>1. half = "E" /\ half' = "Q" /\ resetPin' = resetPin /\ cycle.kind = "exec"
  BY DEF Executing, EFall, Exec, Cycle
<1>l. late \in {"no", "due", "lost"}
  BY DEF IInv, TypeOK
<1> SUFFICES ASSUME ~resetPin, ~deep, late' # "lost" PROVE Tracks'
  BY <1>1 DEF Tracks
<1>2. /\ Due = mine /\ late \in {"no", "due"} /\ late' = late
      /\ IF late = "due" THEN rtiTaskCountdown \in 1 .. 9 /\ task' = task /\ mine' = mine
                         ELSE rtiTaskCountdown = 0
  BY <1>1, <1>l DEF Tracks, GoesBack
<1>3. ~GoesBack' /\ Due' = mine' /\ Heard'
  BY <1>2 DEF GoesBack, Due, Heard
<1> QED
  BY <1>1, <1>2, <1>3 DEF Tracks

LEMMA TracksStep ==
    ASSUME IInv, Mirrors, Tracks, [Next]_vars
    PROVE  Tracks'
<1>1. ASSUME Executes PROVE Tracks'
  <2>1. Executing /\ cycle' = Exec /\ task' = task /\ mine' = mine /\ late' = late
        /\ UNCHANGED <<stack, nestingDepth, rtiTaskCountdown, rtiPendingTask, interrupted, deep>>
    BY <1>1, Zenon DEF Executes, Executing, pico, guest
  <2> QED
    BY <2>1, ExecutingTracks DEF Exec, Cycle
<1>2. ASSUME StartRti PROVE Tracks'
  <2>1. Executing /\ cycle' = Cycle("opcode", 1) /\ task' = task /\ mine' = mine /\ late' = late
        /\ UNCHANGED <<stack, nestingDepth, rtiTaskCountdown, rtiPendingTask, interrupted, deep>>
    BY <1>2, Zenon DEF StartRti, pico
  <2> QED
    BY <2>1, ExecutingTracks DEF Cycle
<1>3. ASSUME NEW t \in Task, WriteTask(t) PROVE Tracks'
  <2>1. Executing /\ cycle' = Exec /\ mine' = t
        /\ UNCHANGED <<stack, nestingDepth, rtiTaskCountdown, rtiPendingTask, interrupted, deep>>
    BY <1>3, Zenon DEF WriteTask, Executing
  <2>2. task' = IF runState # "RS_RESET" THEN t ELSE task
    BY <1>3, Zenon DEF WriteTask
  <2>l. late' = IF late = "due" THEN "lost" ELSE late
    BY <1>3, Zenon DEF WriteTask
  <2>3. UNCHANGED resetPin /\ cycle.kind = "exec"
    BY <2>1 DEF Executing, EFall, Exec, Cycle
  <2>4. CASE resetPin \/ deep
    BY <2>1, <2>3, <2>4 DEF Tracks
  <2>5. CASE ~resetPin /\ ~deep
    <3>1. runState # "RS_RESET"
      BY <2>3, <2>5 DEF Mirrors
    <3>2. task' = mine' /\ cycle'.kind = "exec"
      BY <2>1, <2>2, <3>1 DEF Exec, Cycle
    <3> QED
      BY <2>1, <2>l, <3>2, ExecutingTracks
  <2> QED
    BY <2>4, <2>5
<1>4. ASSUME Stop PROVE Tracks'
  <2>1. resetPin'
    BY <1>4, Zenon DEF Stop
  <2> QED
    BY <2>1 DEF Tracks
<1>5. ASSUME UNCHANGED vars PROVE Tracks'
  BY <1>5 DEF vars, pico, guest, Tracks, GoesBack, RisesLeft, Innermost, Due, Heard
<1> QED
  BY <1>1, <1>2, <1>3, <1>4, <1>5, StartTracks, QRiseTracks, ApplyRtiTracks, ContinuesTracks,
     TakeInterruptTracks, Zenon DEF Next

LEMMA TracksInit == Init => Tracks
<1>1. Init => resetPin
  BY Zenon DEF Init
<1> QED
  BY <1>1 DEF Tracks

LEMMA RunsOnGuest ==
    ASSUME IInv, Mirrors, Tracks, Runs, ~deep, late # "lost"
    PROVE  /\ \/ task = mine
              \/ late = "due" /\ rtiPendingTask = mine /\ rtiTaskCountdown \in 1 .. 9
           /\ nestingDepth = Len(interrupted)
           /\ stack = [i \in 1 .. Len(interrupted) |-> interrupted[i].task]
<1>1. ~resetPin /\ cycle.kind = "exec" /\ half = "E" /\ late \in {"no", "due"}
  BY DEF IInv, Follows, TypeOK, Runs, Exec, Cycle
<1>2. nestingDepth = Len(interrupted) /\ nestingDepth = Len(stack) /\ stack \in Seq(Task)
  BY <1>1 DEF Mirrors, Height, Heard, IInv, Follows, TypeOK
<1>3. \/ task = mine
      \/ late = "due" /\ rtiPendingTask = mine /\ rtiTaskCountdown \in 1 .. 9
  BY <1>1 DEF Tracks, GoesBack, Due
<1>4. \A i \in 1 .. Len(interrupted) : stack[i] = interrupted[i].task
  BY <1>1, <1>2 DEF Tracks
<1>5. stack = [i \in 1 .. Len(stack) |-> stack[i]]
  BY <1>2
<1> QED
  BY <1>2, <1>3, <1>4, <1>5

LEMMA TracksAlways == Spec => [](IInv /\ Mirrors /\ Tracks)
<1>1. IInv /\ Mirrors /\ Tracks /\ [Next]_vars => Tracks'
  BY TracksStep
<1> QED
  BY <1>1, IInvInit, IInvStep, MirrorsInit, MirrorsStep, TracksInit, PTL DEF Spec

(* For full frames and short ones, every set of tasks and every depth that  *)
(* task_stack holds, until the guest outruns the restore after a short      *)
(* frame: the tasks the Pico has stacked are those of the contexts that the *)
(* guest has interrupted, innermost last.                                   *)
THEOREM StackMirrorsGuest == Spec => []StackIsGuests
<1>1. IInv /\ Mirrors /\ Tracks => StackIsGuests
  BY RunsOnGuest DEF StackIsGuests
<1> QED
  BY <1>1, TracksAlways, PTL

(* For the same guests: whatever code runs, runs in the task it was          *)
(* interrupted in, from its first cycle after the RTI of a full frame, and  *)
(* from its tenth after that of a short one.                                *)
THEOREM TasksAreRestored == Spec => []TaskIsRestored
<1>1. IInv /\ Mirrors /\ Tracks => TaskIsRestored
  BY RunsOnGuest DEF TaskIsRestored
<1> QED
  BY <1>1, TracksAlways, PTL
=============================================================================
