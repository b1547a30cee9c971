--------------------------- MODULE BusTrace_proofs ---------------------------
(***************************************************************************)
(* Proofs about BusTrace for every size of the buffer, every countdown and *)
(* every number of cycles, whoever arms while a trace is active: until an  *)
(* arm or a clear meets a capture or one another, a capture never stores   *)
(* beyond the buffer, its words are of consecutive cycles, and a full      *)
(* buffer is complete.                                                     *)
(***************************************************************************)
EXTENDS BusTrace, TLAPS

Strict(n) == \A i \in 1 .. n - 1 : trace[i] = trace[i - 1] + 1
Loose(n) == \A i \in 1 .. n - 1 : \/ trace[i] = trace[i - 1] + 1
                                  \/ i = n - 1 /\ trace[i] \in strays

\* The last of n words is of cycle w.
EndsWith(n, w) == n > 0 => trace[n - 1] = w

\* The cycle under way, or the one whose word is being captured, is a stray.
Straying == number \in strays \/ (half = "Q" /\ number - 1 \in strays)

(* What holds of the cycles and the run state, torn or not: at most one      *)
(* word for each cycle, and a stray only once the countdown is over.        *)
Cycles ==
    /\ half = "E" => capture = "idle"
    /\ capture # "idle" => running
    /\ tracePos <= number - 1
    /\ capture = "load" => tracePos <= number - 2
    /\ capture = "store" => pos <= number - 2
    /\ \A c \in strays : c <= number /\ (half = "Q" => c < number)
    /\ Straying => running /\ reset /\ countdown = 0

(* A fill that goes on is at the word of the last cycle, and its interrupt   *)
(* is on; wherever a word may still come, none is a stray yet.              *)
Filling ==
    ~torn =>
        /\ tracePos <= TraceSize /\ Loose(tracePos)
        /\ traceEnabled /\ tracePos > 0 /\ half = "E" => eIrqOn
        /\ traceEnabled /\ ~reset /\ ~running => tracePos = 0
        /\ traceEnabled /\ capture = "idle" =>
               /\ tracePos < TraceSize
               /\ countdown > 0 \/ ~reset \/ (half = "E" /\ running) => Strict(tracePos)
               /\ running /\ number \notin strays => EndsWith(tracePos, number - 1)

Capturing ==
    ~torn =>
        /\ capture = "load" => /\ tracePos < TraceSize /\ Strict(tracePos)
                               /\ number - 1 \notin strays => EndsWith(tracePos, number - 2)
        /\ capture = "store" => /\ pos < TraceSize /\ Strict(pos)
                                /\ number - 1 \notin strays => EndsWith(pos, number - 2)
        /\ capture = "test" => /\ EndsWith(tracePos, number - 1)
                               /\ Straying \/ Strict(tracePos)
        /\ capture \in {"disable", "full"} => tracePos = TraceSize
        /\ capture = "full" => ~traceEnabled

Arming ==
    ~torn =>
        /\ capture # "idle" => console = "idle" /\ ~traceFull
        /\ console \in {"clear.full", "clear.pos", "clear.trigger"} => ~traceEnabled
        /\ console \in {"arm.full", "arm.enabled"} => tracePos = 0
        /\ console \in {"clear.pos", "clear.trigger", "arm.enabled"} => ~traceFull
        /\ traceEnabled /\ console # "arm.full" => ~traceFull
        /\ console = "idle" /\ traceFull => tracePos = TraceSize

IInv == TypeOK /\ Cycles /\ Filling /\ Capturing /\ Arming

LEMMA IInvInit == Init => IInv
<1> SUFFICES ASSUME Init PROVE IInv
  OBVIOUS
<1> USE TraceAssumption
<1>1. TypeOK
  <2>1. trace \in [0 .. TraceSize - 1 -> 0 .. MaxCycles]
    BY DEF Init
  <2>2. /\ tracePos \in 0 .. MaxCycles /\ pos \in 0 .. MaxCycles
        /\ number \in 1 .. MaxCycles /\ countdown \in 0 .. RtiCycles
    BY DEF Init
  <2>3. strays \subseteq 1 .. MaxCycles
    BY DEF Init
  <2> QED
    BY <2>1, <2>2, <2>3, Zenon DEF Init, TypeOK
<1>2. Cycles
  BY DEF Init, Cycles, Straying
<1>3. Filling /\ Capturing
  BY DEF Init, Filling, Capturing, Loose, Strict, EndsWith
<1>4. Arming
  BY Zenon DEF Init, Arming
<1> QED
  BY <1>1, <1>2, <1>3, <1>4 DEF IInv

LEMMA EFallKeeps == IInv /\ EFall => IInv'
<1> SUFFICES ASSUME IInv, EFall PROVE IInv'
  OBVIOUS
<1> USE TraceAssumption DEF state, guest, clock
<1>1. TypeOK'
  BY DEF IInv, TypeOK, Cycles, EFall
<1>2. Cycles'
  BY DEF IInv, TypeOK, Cycles, Straying, EFall
<1>3. Filling'
  BY <1>1 DEF IInv, TypeOK, Cycles, Filling, Capturing, Arming, Straying, Strict, Loose, EndsWith, EFall
<1>4. Capturing'
  BY <1>1 DEF IInv, TypeOK, Cycles, Filling, Capturing, Arming, Straying, Strict, EndsWith, EFall
<1>5. Arming'
  BY DEF IInv, TypeOK, Cycles, Filling, Capturing, Arming, EFall
<1> QED
  BY <1>1, <1>2, <1>3, <1>4, <1>5 DEF IInv

LEMMA CaptureLoadKeeps == IInv /\ CaptureLoad => IInv'
<1> SUFFICES ASSUME IInv, CaptureLoad PROVE IInv'
  OBVIOUS
<1> USE TraceAssumption DEF state, guest, clock
<1>1. TypeOK'
  BY DEF IInv, TypeOK, Cycles, CaptureLoad
<1>2. Cycles'
  BY DEF IInv, TypeOK, Cycles, Straying, CaptureLoad
<1>3. Filling'
  BY <1>1 DEF IInv, TypeOK, Cycles, Filling, Capturing, Arming, Straying, Strict, Loose, EndsWith, CaptureLoad
<1>4. Capturing'
  BY <1>1 DEF IInv, TypeOK, Cycles, Filling, Capturing, Arming, Straying, Strict, EndsWith, CaptureLoad
<1>5. Arming'
  BY DEF IInv, TypeOK, Cycles, Filling, Capturing, Arming, CaptureLoad
<1> QED
  BY <1>1, <1>2, <1>3, <1>4, <1>5 DEF IInv

LEMMA CaptureStoreKeeps == IInv /\ CaptureStore => IInv'
<1> SUFFICES ASSUME IInv, CaptureStore PROVE IInv'
  OBVIOUS
<1> USE TraceAssumption DEF state, guest, clock
<1>1. TypeOK'
  BY DEF IInv, TypeOK, Cycles, CaptureStore
<1>2. Cycles'
  BY DEF IInv, TypeOK, Cycles, Straying, CaptureStore
<1>3. Filling'
  BY <1>1 DEF IInv, TypeOK, Cycles, Filling, Capturing, Arming, Straying, Strict, Loose, EndsWith, CaptureStore
<1>4. Capturing'
  BY <1>1 DEF IInv, TypeOK, Cycles, Filling, Capturing, Arming, Straying, Strict, EndsWith, CaptureStore
<1>5. Arming'
  BY DEF IInv, TypeOK, Cycles, Filling, Capturing, Arming, CaptureStore
<1> QED
  BY <1>1, <1>2, <1>3, <1>4, <1>5 DEF IInv

LEMMA CaptureTestKeeps == IInv /\ CaptureTest => IInv'
<1> SUFFICES ASSUME IInv, CaptureTest PROVE IInv'
  OBVIOUS
<1> USE TraceAssumption DEF state, guest, clock
<1>1. TypeOK'
  BY DEF IInv, TypeOK, Cycles, CaptureTest
<1>2. Cycles'
  BY DEF IInv, TypeOK, Cycles, Straying, CaptureTest
<1>3. Filling'
  BY <1>1 DEF IInv, TypeOK, Cycles, Filling, Capturing, Arming, Straying, Strict, Loose, EndsWith, CaptureTest
<1>4. Capturing'
  BY <1>1 DEF IInv, TypeOK, Cycles, Filling, Capturing, Arming, Straying, Strict, EndsWith, CaptureTest
<1>5. Arming'
  BY DEF IInv, TypeOK, Cycles, Filling, Capturing, Arming, CaptureTest
<1> QED
  BY <1>1, <1>2, <1>3, <1>4, <1>5 DEF IInv

LEMMA CaptureDisableKeeps == IInv /\ CaptureDisable => IInv'
<1> SUFFICES ASSUME IInv, CaptureDisable PROVE IInv'
  OBVIOUS
<1> USE TraceAssumption DEF state, guest, clock
<1>1. TypeOK'
  BY DEF IInv, TypeOK, Cycles, CaptureDisable
<1>2. Cycles'
  BY DEF IInv, TypeOK, Cycles, Straying, CaptureDisable
<1>3. Filling'
  BY <1>1 DEF IInv, TypeOK, Cycles, Filling, Capturing, Arming, Straying, Strict, Loose, EndsWith, CaptureDisable
<1>4. Capturing'
  BY <1>1 DEF IInv, TypeOK, Cycles, Filling, Capturing, Arming, Straying, Strict, EndsWith, CaptureDisable
<1>5. Arming'
  BY DEF IInv, TypeOK, Cycles, Filling, Capturing, Arming, CaptureDisable
<1> QED
  BY <1>1, <1>2, <1>3, <1>4, <1>5 DEF IInv

LEMMA CaptureFullKeeps == IInv /\ CaptureFull => IInv'
<1> SUFFICES ASSUME IInv, CaptureFull PROVE IInv'
  OBVIOUS
<1> USE TraceAssumption DEF state, guest, clock
<1>1. TypeOK'
  BY DEF IInv, TypeOK, Cycles, CaptureFull
<1>2. Cycles'
  BY DEF IInv, TypeOK, Cycles, Straying, CaptureFull
<1>3. Filling'
  BY <1>1 DEF IInv, TypeOK, Cycles, Filling, Capturing, Arming, Straying, Strict, Loose, EndsWith, CaptureFull
<1>4. Capturing'
  BY <1>1 DEF IInv, TypeOK, Cycles, Filling, Capturing, Arming, Straying, Strict, EndsWith, CaptureFull
<1>5. Arming'
  BY DEF IInv, TypeOK, Cycles, Filling, Capturing, Arming, CaptureFull
<1> QED
  BY <1>1, <1>2, <1>3, <1>4, <1>5 DEF IInv

LEMMA GuestArmsKeeps == IInv /\ GuestArms => IInv'
<1> SUFFICES ASSUME IInv, GuestArms PROVE IInv'
  OBVIOUS
<1> USE TraceAssumption DEF state, guest, clock
<1>1. TypeOK'
  <2>1. /\ tracePos' = 0 /\ traceFull' \in BOOLEAN /\ traceEnabled' \in BOOLEAN /\ torn' \in BOOLEAN
        /\ UNCHANGED <<trace, trigger, eIrqOn, guest, clock, capture, pos, console>>
    BY Zenon DEF GuestArms, TraceArm
  <2> QED
    BY <2>1 DEF IInv, TypeOK
<1>2. Cycles'
  BY DEF IInv, TypeOK, Cycles, Straying, GuestArms, TraceArm
<1>3. Filling'
  BY <1>1 DEF IInv, TypeOK, Cycles, Filling, Capturing, Arming, Straying, Strict, Loose, EndsWith, GuestArms, TraceArm
<1>4. Capturing'
  BY <1>1 DEF IInv, TypeOK, Cycles, Filling, Capturing, Arming, Straying, Strict, EndsWith, GuestArms, TraceArm
<1>5. Arming'
  BY DEF IInv, TypeOK, Cycles, Filling, Capturing, Arming, GuestArms, TraceArm
<1> QED
  BY <1>1, <1>2, <1>3, <1>4, <1>5 DEF IInv

LEMMA GuestStopsKeeps == IInv /\ GuestStops => IInv'
<1> SUFFICES ASSUME IInv, GuestStops PROVE IInv'
  OBVIOUS
<1> USE TraceAssumption DEF state, guest, clock
<1>1. TypeOK'
  BY DEF IInv, TypeOK, Cycles, GuestStops
<1>2. Cycles'
  BY DEF IInv, TypeOK, Cycles, Straying, GuestStops
<1>3. Filling'
  BY <1>1 DEF IInv, TypeOK, Cycles, Filling, Capturing, Arming, Straying, Strict, Loose, EndsWith, GuestStops
<1>4. Capturing'
  BY <1>1 DEF IInv, TypeOK, Cycles, Filling, Capturing, Arming, Straying, Strict, EndsWith, GuestStops
<1>5. Arming'
  BY DEF IInv, TypeOK, Cycles, Filling, Capturing, Arming, GuestStops
<1> QED
  BY <1>1, <1>2, <1>3, <1>4, <1>5 DEF IInv

LEMMA GuestReturnsKeeps == IInv /\ GuestReturns => IInv'
<1> SUFFICES ASSUME IInv, GuestReturns PROVE IInv'
  OBVIOUS
<1> USE TraceAssumption DEF state, guest, clock
<1>1. TypeOK'
  BY DEF IInv, TypeOK, Cycles, GuestReturns
<1>2. Cycles'
  BY DEF IInv, TypeOK, Cycles, Straying, GuestReturns
<1>3. Filling'
  BY <1>1 DEF IInv, TypeOK, Cycles, Filling, Capturing, Arming, Straying, Strict, Loose, EndsWith, GuestReturns
<1>4. Capturing'
  BY <1>1 DEF IInv, TypeOK, Cycles, Filling, Capturing, Arming, Straying, Strict, EndsWith, GuestReturns
<1>5. Arming'
  BY DEF IInv, TypeOK, Cycles, Filling, Capturing, Arming, GuestReturns
<1> QED
  BY <1>1, <1>2, <1>3, <1>4, <1>5 DEF IInv

LEMMA ConsoleArmsKeeps == IInv /\ ConsoleArms => IInv'
<1> SUFFICES ASSUME IInv, ConsoleArms PROVE IInv'
  OBVIOUS
<1> USE TraceAssumption DEF state, guest, clock
<1>1. TypeOK'
  BY DEF IInv, TypeOK, Cycles, ConsoleArms
<1>2. Cycles'
  BY DEF IInv, TypeOK, Cycles, Straying, ConsoleArms
<1>3. Filling'
  BY <1>1 DEF IInv, TypeOK, Cycles, Filling, Capturing, Arming, Straying, Strict, Loose, EndsWith, ConsoleArms
<1>4. Capturing'
  BY <1>1 DEF IInv, TypeOK, Cycles, Filling, Capturing, Arming, Straying, Strict, EndsWith, ConsoleArms
<1>5. Arming'
  BY DEF IInv, TypeOK, Cycles, Filling, Capturing, Arming, ConsoleArms
<1> QED
  BY <1>1, <1>2, <1>3, <1>4, <1>5 DEF IInv

LEMMA ConsoleStoresKeeps == IInv /\ ConsoleStores => IInv'
<1> SUFFICES ASSUME IInv, ConsoleStores PROVE IInv'
  OBVIOUS
<1> USE TraceAssumption DEF state, guest, clock
<1>0. /\ UNCHANGED <<trace, eIrqOn, guest, clock, capture, pos, torn>>
      /\ tracePos' \in {0, tracePos}
      /\ \/ traceEnabled' = traceEnabled
         \/ console = "arm.enabled" /\ tracePos' = tracePos /\ traceEnabled'
  BY Zenon DEF ConsoleStores
<1>1. TypeOK'
  <2>1. /\ traceEnabled' \in BOOLEAN /\ traceFull' \in BOOLEAN /\ trigger' \in BOOLEAN
        /\ console' \in {"idle", "arm.full", "arm.enabled", "clear.full", "clear.pos",
                         "clear.trigger"}
    BY Zenon DEF ConsoleStores, IInv, TypeOK
  <2> QED
    BY <1>0, <2>1 DEF IInv, TypeOK
<1>2. Cycles'
  BY DEF IInv, TypeOK, Cycles, Straying, ConsoleStores
<1>3. Filling'
  <2>1. CASE tracePos' = 0
    BY <1>0, <1>1, <2>1 DEF IInv, TypeOK, Filling, Strict, Loose, EndsWith
  <2>2. CASE tracePos' # 0
    <3>1. ~torn => tracePos' = tracePos /\ UNCHANGED traceEnabled
      BY <1>0, <2>2, Zenon DEF IInv, Arming
    <3> QED
      BY <1>0, <1>1, <3>1 DEF IInv, TypeOK, Filling, Strict, Loose, EndsWith
  <2> QED
    BY <2>1, <2>2, Zenon
<1>4. Capturing'
  BY <1>1 DEF IInv, TypeOK, Cycles, Filling, Capturing, Arming, Straying, Strict, EndsWith, ConsoleStores
<1>5. Arming'
  BY DEF IInv, TypeOK, Cycles, Filling, Capturing, Arming, ConsoleStores
<1> QED
  BY <1>1, <1>2, <1>3, <1>4, <1>5 DEF IInv

LEMMA ConsoleClearsKeeps == IInv /\ ConsoleClears => IInv'
<1> SUFFICES ASSUME IInv, ConsoleClears PROVE IInv'
  OBVIOUS
<1> USE TraceAssumption DEF state, guest, clock
<1>1. TypeOK'
  BY DEF IInv, TypeOK, Cycles, ConsoleClears
<1>2. Cycles'
  BY DEF IInv, TypeOK, Cycles, Straying, ConsoleClears
<1>3. Filling'
  BY <1>1 DEF IInv, TypeOK, Cycles, Filling, Capturing, Arming, Straying, Strict, Loose, EndsWith, ConsoleClears
<1>4. Capturing'
  BY <1>1 DEF IInv, TypeOK, Cycles, Filling, Capturing, Arming, Straying, Strict, EndsWith, ConsoleClears
<1>5. Arming'
  BY DEF IInv, TypeOK, Cycles, Filling, Capturing, Arming, ConsoleClears
<1> QED
  BY <1>1, <1>2, <1>3, <1>4, <1>5 DEF IInv

LEMMA ConsoleTriggersKeeps == IInv /\ ConsoleTriggers => IInv'
<1> SUFFICES ASSUME IInv, ConsoleTriggers PROVE IInv'
  OBVIOUS
<1> USE TraceAssumption DEF state, guest, clock
<1>1. TypeOK'
  BY DEF IInv, TypeOK, Cycles, ConsoleTriggers
<1>2. Cycles'
  BY DEF IInv, TypeOK, Cycles, Straying, ConsoleTriggers
<1>3. Filling'
  BY <1>1 DEF IInv, TypeOK, Cycles, Filling, Capturing, Arming, Straying, Strict, Loose, EndsWith, ConsoleTriggers
<1>4. Capturing'
  BY <1>1 DEF IInv, TypeOK, Cycles, Filling, Capturing, Arming, Straying, Strict, EndsWith, ConsoleTriggers
<1>5. Arming'
  BY DEF IInv, TypeOK, Cycles, Filling, Capturing, Arming, ConsoleTriggers
<1> QED
  BY <1>1, <1>2, <1>3, <1>4, <1>5 DEF IInv

LEMMA StopGuestKeeps == IInv /\ StopGuest => IInv'
<1> SUFFICES ASSUME IInv, StopGuest PROVE IInv'
  OBVIOUS
<1> USE TraceAssumption DEF state, guest, clock
<1>1. TypeOK'
  BY DEF IInv, TypeOK, Cycles, StopGuest
<1>2. Cycles'
  BY DEF IInv, TypeOK, Cycles, Straying, StopGuest
<1>3. Filling'
  BY <1>1 DEF IInv, TypeOK, Cycles, Filling, Capturing, Arming, Straying, Strict, Loose, EndsWith, StopGuest
<1>4. Capturing'
  BY <1>1 DEF IInv, TypeOK, Cycles, Filling, Capturing, Arming, Straying, Strict, EndsWith, StopGuest
<1>5. Arming'
  BY DEF IInv, TypeOK, Cycles, Filling, Capturing, Arming, StopGuest
<1> QED
  BY <1>1, <1>2, <1>3, <1>4, <1>5 DEF IInv

LEMMA StartGuestKeeps == IInv /\ StartGuest => IInv'
<1> SUFFICES ASSUME IInv, StartGuest PROVE IInv'
  OBVIOUS
<1> USE TraceAssumption DEF state, guest, clock
<1>0. /\ UNCHANGED <<trace, traceEnabled, trigger, eIrqOn, running, countdown, strays, clock,
                      capture, pos, console, torn>>
      /\ ~running /\ reset' = FALSE /\ reset' \in BOOLEAN /\ traceFull' \in {traceFull, FALSE}
      /\ console = "idle" /\ capture = "idle"
      /\ traceEnabled => tracePos' = 0
      /\ ~traceEnabled => tracePos' = tracePos
  BY Zenon DEF StartGuest
<1>1. TypeOK'
  <2>1. tracePos' \in {0, tracePos} /\ traceFull' \in BOOLEAN
    BY <1>0, Zenon DEF IInv, TypeOK
  <2> QED
    BY <1>0, <2>1 DEF IInv, TypeOK
<1>2. Cycles'
  BY DEF IInv, TypeOK, Cycles, Straying, StartGuest
<1>3. Filling'
  <2>1. CASE traceEnabled
    BY <1>0, <1>1, <2>1 DEF IInv, TypeOK, Filling, Strict, Loose, EndsWith
  <2>2. CASE ~traceEnabled
    BY <1>0, <1>1, <2>2 DEF IInv, TypeOK, Filling, Strict, Loose, EndsWith
  <2> QED
    BY <2>1, <2>2, Zenon
<1>4. Capturing'
  BY <1>1 DEF IInv, TypeOK, Cycles, Filling, Capturing, Arming, Straying, Strict, EndsWith, StartGuest
<1>5. Arming'
  BY DEF IInv, TypeOK, Cycles, Filling, Capturing, Arming, StartGuest
<1> QED
  BY <1>1, <1>2, <1>3, <1>4, <1>5 DEF IInv

LEMMA QRiseKeeps ==
    ASSUME IInv, NEW vector \in BOOLEAN, NEW outermost \in BOOLEAN, QRise(vector, outermost)
    PROVE  IInv'
<1> USE TraceAssumption DEF state, guest, clock
<1>0. /\ half = "Q" /\ half' = "E" /\ capture = "idle" /\ capture' = "idle"
      /\ UNCHANGED <<trace, trigger, reset, number, pos, console>>
      /\ eIrqOn' = traceEnabled' /\ countdown' = RtiTicked
      /\ running' = (~reset \/ (countdown = 1 /\ outermost))
      /\ strays' = strays \cup (IF reset /\ running' THEN {number} ELSE {})
      /\ \/ tracePos' = 0 /\ traceFull' \in BOOLEAN /\ traceEnabled' \in BOOLEAN /\ torn' \in BOOLEAN
         \/ UNCHANGED <<tracePos, traceFull, traceEnabled, torn>>
  BY Zenon DEF QRise, TraceArm
<1>1. TypeOK'
  <2>1. /\ traceFull' \in BOOLEAN /\ traceEnabled' \in BOOLEAN /\ torn' \in BOOLEAN
        /\ eIrqOn' \in BOOLEAN /\ tracePos' \in {0, tracePos} /\ running' \in BOOLEAN
    BY <1>0, Zenon DEF IInv, TypeOK
  <2>2. countdown' \in 0 .. RtiCycles /\ strays' \subseteq 1 .. MaxCycles
    BY <1>0 DEF IInv, TypeOK, RtiTicked
  <2> QED
    BY <1>0, <2>1, <2>2 DEF IInv, TypeOK
<1>2. Cycles'
  BY DEF IInv, TypeOK, Cycles, Straying, QRise, TraceArm, RtiTicked
<1>3. Filling'
  <2>1. traceEnabled' => eIrqOn'
    BY <1>0, Zenon
  <2>2. CASE tracePos' = 0
    BY <1>0, <1>1, <2>1, <2>2 DEF IInv, TypeOK, Filling, Strict, Loose, EndsWith
  <2>3. CASE UNCHANGED <<tracePos, traceEnabled, torn>>
    <3>1. number \notin strays /\ (countdown' > 0 => countdown > 0)
      BY <1>0 DEF IInv, TypeOK, Cycles, RtiTicked
    <3>2. running' => ~reset \/ countdown = 1
      BY <1>0, Zenon
    <3>3. reset /\ running' => number \in strays'
      BY <1>0
    <3>4. ~torn => Loose(tracePos)'
      BY <1>0, <2>3 DEF IInv, TypeOK, Filling, Loose
    <3>5. ~torn /\ traceEnabled /\ (countdown' > 0 \/ ~reset \/ running') => Strict(tracePos)'
      BY <1>0, <2>3, <3>1, <3>2 DEF IInv, TypeOK, Filling, Strict
    <3>6. ~torn /\ traceEnabled /\ running' /\ number \notin strays' => EndsWith(tracePos, number - 1)'
      BY <1>0, <2>3, <3>1, <3>3 DEF IInv, TypeOK, Filling, EndsWith
    <3>7. ~torn => tracePos <= TraceSize /\ (traceEnabled => tracePos < TraceSize)
                   /\ (traceEnabled /\ ~reset /\ ~running' => FALSE)
      BY <1>0 DEF IInv, TypeOK, Filling
    <3> QED
      BY <1>0, <2>1, <2>3, <3>4, <3>5, <3>6, <3>7 DEF Filling
  <2> QED
    BY <1>0, <2>2, <2>3, Zenon
<1>4. Capturing'
  BY <1>1 DEF IInv, TypeOK, Cycles, Filling, Capturing, Arming, Straying, Strict, EndsWith, QRise, TraceArm, RtiTicked
<1>5. Arming'
  BY DEF IInv, TypeOK, Cycles, Filling, Capturing, Arming, QRise, TraceArm, RtiTicked
<1> QED
  BY <1>1, <1>2, <1>3, <1>4, <1>5 DEF IInv

LEMMA IInvStep == IInv /\ [Next]_vars => IInv'
<1> SUFFICES ASSUME IInv, [Next]_vars PROVE IInv'
  OBVIOUS
<1>1. ASSUME UNCHANGED vars PROVE IInv'
  BY <1>1 DEF vars, state, guest, clock, IInv, TypeOK, Cycles, Filling, Capturing, Arming,
     Straying, Strict, Loose, EndsWith
<1> QED
  BY <1>1, EFallKeeps, CaptureLoadKeeps, CaptureStoreKeeps, CaptureTestKeeps,
     CaptureDisableKeeps, CaptureFullKeeps, GuestArmsKeeps, GuestStopsKeeps,
     GuestReturnsKeeps, ConsoleArmsKeeps, ConsoleStoresKeeps, ConsoleClearsKeeps,
     ConsoleTriggersKeeps, StopGuestKeeps, StartGuestKeeps, QRiseKeeps, Zenon
     DEF Next, Capture, Core0

(* For every size of the buffer and every countdown, whether a trace is      *)
(* armed, stopped or cleared while one is active and wherever its guest is  *)
(* reset: until an arm or a clear meets a capture or one another, no        *)
(* capture stores beyond the buffer, the words are of consecutive cycles,   *)
(* up to a stray at the end, and a buffer said to be full is.               *)
THEOREM TraceIsSound ==
    Spec => [](TypeOK /\ OneShot /\ TraceIsContiguous /\ FullIsComplete)
<1>1. IInv => TypeOK /\ OneShot /\ TraceIsContiguous /\ FullIsComplete
  BY DEF IInv, Filling, Arming, Loose, OneShot, TraceIsContiguous, FullIsComplete
<1> QED
  BY <1>1, IInvInit, IInvStep, PTL DEF Spec
=============================================================================
