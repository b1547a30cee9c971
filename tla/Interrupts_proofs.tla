-------------------------- MODULE Interrupts_proofs --------------------------
(***************************************************************************)
(* Proofs about Interrupts, and the TickTimer in it, for every set of      *)
(* countdowns, of lines the console asks for and of ports in use: types,   *)
(* and /IRQ is held for whoever is pending still.                          *)
(***************************************************************************)
EXTENDS Interrupts, TLAPS

LEMMA TypeInit == Init => TypeOK
<1> SUFFICES ASSUME Init PROVE TypeOK
  OBVIOUS
<1>1. TimerTypeOK
  <2>1. access \in {NoAccess, StatusRead} \cup Controls
    BY Zenon DEF Init, TimerInit
  <2>2. /\ enabled \in BOOLEAN /\ irqPending \in BOOLEAN /\ status \in BOOLEAN
        /\ nmiCountdown = 0 /\ alarm = "idle" /\ isr = "idle" /\ resetting = "no"
    BY Zenon DEF Init, TimerInit
  <2> QED
    BY <2>1, <2>2 DEF TimerTypeOK
<1>2. port \in [Ports -> BOOLEAN]
  BY DEF Init
<1>3. counted \subseteq Lines /\ pend \subseteq Lines /\ pins \subseteq Lines /\ steady \subseteq Sources
  BY Zenon DEF Init
<1> QED
  BY <1>1, <1>2, <1>3 DEF Init, TypeOK

(* The words of the guest's accesses are told apart by their kind.         *)
LEMMA Accesses ==
    /\ NoAccess \notin Controls /\ StatusRead \notin Controls /\ NoAccess # StatusRead
    /\ NoAccess.kind # "control" /\ StatusRead.kind # "control"
    /\ \A w \in Controls : /\ w.kind = "control" /\ w.enable \in BOOLEAN
                           /\ w.countdown \in 0 .. 31
BY CountdownAssumption DEF NoAccess, StatusRead, Controls

(* A step of the timer, of its handlers or of the guest keeps its types.   *)
LEMMA TimerTypes ==
    ASSUME TimerTypeOK, Alarm \/ TimerIsr \/ Guest \/ TimerReset PROVE TimerTypeOK'
<1> USE Accesses DEF TimerTypeOK
<1>1. CASE Alarm
  <2>1. CASE AlarmFires
    BY <2>1 DEF AlarmFires
  <2>2. CASE AlarmPending
    BY <2>2 DEF AlarmPending
  <2>3. CASE AlarmStatus
    BY <2>3 DEF AlarmStatus
  <2> QED
    BY <1>1, <2>1, <2>2, <2>3 DEF Alarm
<1>2. CASE TimerIsr
  <2>1. CASE ControlEnable
    BY <2>1 DEF ControlEnable
  <2>2. CASE ControlTest
    BY <2>2 DEF ControlTest
  <2>3. CASE ClearPending
    <3>1. access # NoAccess
      BY <2>3 DEF ClearPending
    <3>2. /\ irqPending' \in BOOLEAN /\ isr' = "status"
          /\ UNCHANGED <<enabled, nmiCountdown, status, alarm, access, resetting>>
      BY <2>3, Zenon DEF ClearPending
    <3> QED
      BY <3>1, <3>2
  <2>4. CASE ClearStatus
    BY <2>4 DEF ClearStatus
  <2>5. CASE ControlCountdown
    BY <2>5 DEF ControlCountdown
  <2> QED
    BY <1>2, <2>1, <2>2, <2>3, <2>4, <2>5 DEF TimerIsr
<1>3. CASE Guest
  <2>1. CASE GuestReads
    BY <2>1 DEF GuestReads
  <2>2. ASSUME NEW e \in BOOLEAN, NEW c \in Countdowns, GuestWrites(e, c)
        PROVE  TimerTypeOK'
    <3>1. Control(e, c) \in Controls
      BY DEF Control, Controls
    <3> QED
      BY <2>2, <3>1 DEF GuestWrites
  <2> QED
    BY <1>3, <2>1, <2>2 DEF Guest
<1>4. CASE TimerReset
  <2>1. CASE ResetEnabled
    BY <2>1 DEF ResetEnabled
  <2>2. CASE ResetGoesOn
    <3>1. CASE ResetPending
      BY <3>1 DEF ResetPending
    <3>2. CASE ResetCountdown
      BY <3>2 DEF ResetCountdown
    <3>3. CASE ResetStatus
      BY <3>3 DEF ResetStatus
    <3> QED
      BY <2>2, <3>1, <3>2, <3>3 DEF ResetGoesOn
  <2> QED
    BY <1>4, <2>1, <2>2 DEF TimerReset
<1> QED
  BY <1>1, <1>2, <1>3, <1>4

(* What the two questions with an answer of IRQ or none leave alone.       *)
LEMMA AskTickKeeps ==
    AskTick => pc' = "fast" /\ UNCHANGED <<timerVars, console, port, qRising, pend, pins, steady>>
BY DEF AskTick

LEMMA AskPortKeeps ==
    ASSUME NEW p \in Ports, AskPort(p)
    PROVE  /\ pc' \in {"aux", "store"}
           /\ UNCHANGED <<timerVars, console, port, qRising, pend, pins, steady>>
BY DEF AskPort

LEMMA TypeStep == TypeOK /\ [Next]_vars => TypeOK'
<1> SUFFICES ASSUME TypeOK, [Next]_vars PROVE TypeOK'
  OBVIOUS
<1> USE SourcesAssumption DEF TypeOK, loopVars, Ports
<1>t. UNCHANGED timerVars => TimerTypeOK'
  BY DEF timerVars, TimerTypeOK
<1>s. IrqSources \subseteq Sources
  BY DEF IrqSources, PendingIrq
<1>1. CASE Loop
  <2>1. CASE Edge
    BY <1>t, <1>s, <2>1 DEF Edge
  <2>2. CASE AskConsole
    BY <1>t, <2>2 DEF AskConsole
  <2>3. CASE AskTick
    <3>1. counted' \subseteq Lines
      <4>1. CASE irqPending
        BY <2>3, <4>1 DEF AskTick, Lines
      <4>2. CASE ~irqPending
        BY <2>3, <4>2 DEF AskTick
      <4> QED
        BY <4>1, <4>2
    <3> QED
      BY <1>t, <2>3, <3>1, AskTickKeeps
  <2>4. CASE StorePending
    BY <1>t, <2>4 DEF StorePending
  <2>5. ASSUME NEW p \in Ports, AskPort(p) PROVE TypeOK'
    <3>1. counted' \subseteq Lines
      <4>1. CASE port[p]
        BY <2>5, <4>1 DEF AskPort, Lines
      <4>2. CASE ~port[p]
        BY <2>5, <4>2 DEF AskPort
      <4> QED
        BY <4>1, <4>2
    <3> QED
      BY <1>t, <2>5, <3>1, AskPortKeeps
  <2> QED
    BY <1>1, <2>1, <2>2, <2>3, <2>4, <2>5 DEF Loop
<1>2. CASE QRise
  BY <1>t, <1>2 DEF QRise
<1>3. CASE TimerStep
  <2>1. TimerTypeOK'
    BY <1>3, TimerTypes DEF TimerStep
  <2> QED
    BY <1>3, <2>1 DEF TimerStep, StillSteady
<1>4. CASE ConsoleClears
  BY <1>t, <1>4 DEF ConsoleClears, StillSteady
<1>5. ASSUME NEW i \in ConsoleLines, ConsoleSets(i) PROVE TypeOK'
  BY <1>t, <1>5 DEF ConsoleSets
<1>6. ASSUME NEW p \in BusyPorts, PortRaises(p) \/ PortServed(p) PROVE TypeOK'
  BY <1>t, <1>6 DEF PortRaises, PortServed, StillSteady
<1>7. CASE UNCHANGED vars
  BY <1>t, <1>7 DEF vars
<1> QED
  BY <1>1, <1>2, <1>3, <1>4, <1>5, <1>6, <1>7 DEF Next

(* For every countdown, port and line: the timer's registers, the loop's    *)
(* counters and the pins keep their types, in whichever order the callback, *)
(* the handlers and the loop run.                                          *)
THEOREM TypeCorrect == Spec => []TypeOK
BY TypeInit, TypeStep, PTL DEF Spec

-----------------------------------------------------------------------------
(* The inductive invariant for IrqHeld: what the loop has asked in this     *)
(* pass and what has been pending ever since the pass began is counted, and *)
(* pending_interrupts is what was counted.                                 *)
Counted(s, later) == s \in steady /\ pc \in later => "IRQ" \in counted

HeldInv ==
    /\ steady \subseteq IrqSources
    /\ Counted("console", {"tick", "fast", "aux", "store"})
    /\ Counted("tick", {"fast", "aux", "store"})
    /\ Counted("fast", {"aux", "store"})
    /\ Counted("aux", {"store"})
    /\ IrqHeld

LEMMA HeldStep == TypeOK /\ HeldInv /\ [Next]_vars => HeldInv'
<1> SUFFICES ASSUME TypeOK, HeldInv, [Next]_vars PROVE HeldInv'
  OBVIOUS
<1> USE DEF loopVars
<1>c. steady \subseteq Sources
  BY DEF TypeOK
\* A step that moves neither the loop nor its results, and forgets whoever is served.
<1>a. ASSUME UNCHANGED <<pc, counted, pend>>, steady' \subseteq steady,
             steady' \subseteq IrqSources'
      PROVE  HeldInv'
  BY <1>a DEF HeldInv, Counted, IrqHeld
<1>b. ASSUME UNCHANGED <<pc, counted, pend>>, StillSteady PROVE HeldInv'
  BY <1>a, <1>b DEF StillSteady
\* The loop asks; the sources stay as they are.
<1>d. ASSUME UNCHANGED <<timerVars, console, port>> PROVE IrqSources' = IrqSources
  BY <1>d DEF timerVars, IrqSources, PendingIrq
<1>1. CASE Loop
  <2>1. CASE Edge
    BY <1>d, <2>1 DEF Edge, HeldInv, Counted, IrqHeld
  <2>2. CASE AskConsole
    <3>1. "console" \in steady => console = "IRQ"
      BY DEF HeldInv, IrqSources, PendingIrq, Ports
    <3> QED
      BY <1>d, <2>2, <3>1 DEF AskConsole, HeldInv, Counted, IrqHeld, Lines
  <2>3. CASE AskTick
    <3>1. "tick" \in steady => irqPending
      BY DEF HeldInv, IrqSources, PendingIrq, Ports
    <3> QED
      BY <1>d, <2>3, <3>1 DEF AskTick, HeldInv, Counted, IrqHeld
  <2>4. CASE StorePending
    <3>1. steady # {} => "IRQ" \in counted
      BY <1>c, <2>4 DEF StorePending, HeldInv, Counted, Sources, Ports
    <3> QED
      BY <1>d, <2>4, <3>1 DEF StorePending, HeldInv, Counted, IrqHeld
  <2>5. ASSUME NEW p \in Ports, AskPort(p) PROVE HeldInv'
    <3>1. p \in steady => port[p]
      BY DEF HeldInv, IrqSources, PendingIrq, Ports
    <3>2. CASE p = "fast"
      BY <1>d, <2>5, <3>1, <3>2 DEF AskPort, HeldInv, Counted, IrqHeld
    <3>3. CASE p = "aux"
      BY <1>d, <2>5, <3>1, <3>3 DEF AskPort, HeldInv, Counted, IrqHeld
    <3> QED
      BY <3>2, <3>3 DEF Ports
  <2> QED
    BY <1>1, <2>1, <2>2, <2>3, <2>4, <2>5 DEF Loop
<1>2. CASE QRise
  BY <1>d, <1>2 DEF QRise, HeldInv, Counted, IrqHeld
<1>3. CASE TimerStep
  BY <1>b, <1>3 DEF TimerStep
<1>4. CASE ConsoleClears
  BY <1>b, <1>4 DEF ConsoleClears
<1>5. ASSUME NEW i \in ConsoleLines, ConsoleSets(i) PROVE HeldInv'
  <2>1. IrqSources \subseteq IrqSources'
    BY <1>5 DEF ConsoleSets, IrqSources, PendingIrq, timerVars
  <2> QED
    BY <1>a, <1>5, <2>1 DEF ConsoleSets, HeldInv
<1>6. ASSUME NEW p \in BusyPorts, PortRaises(p) PROVE HeldInv'
  <2>1. IrqSources \subseteq IrqSources'
    BY <1>6 DEF PortRaises, IrqSources, PendingIrq, timerVars, TypeOK
  <2> QED
    BY <1>a, <1>6, <2>1 DEF PortRaises, HeldInv
<1>7. ASSUME NEW p \in BusyPorts, PortServed(p) PROVE HeldInv'
  BY <1>b, <1>7 DEF PortServed
<1>8. CASE UNCHANGED vars
  BY <1>d, <1>8 DEF vars, HeldInv, Counted, IrqHeld
<1> QED
  BY <1>1, <1>2, <1>3, <1>4, <1>5, <1>6, <1>7, <1>8 DEF Next

(* For all lines the console asks for and all ports in use: a source that    *)
(* is pending since before the last pass has /IRQ in pending_interrupts,   *)
(* whoever else was served meanwhile.                                      *)
THEOREM IrqIsHeld == Spec => []IrqHeld
<1>1. Init => HeldInv
  BY DEF Init, HeldInv, Counted, IrqHeld
<1>2. HeldInv => IrqHeld
  BY DEF HeldInv
<1> QED
  BY <1>1, <1>2, TypeInit, TypeStep, HeldStep, PTL DEF Spec
=============================================================================
