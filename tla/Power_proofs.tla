----------------------------- MODULE Power_proofs -----------------------------
(***************************************************************************)
(* Proofs about powering the guest up and down (module Power).             *)
(*                                                                         *)
(* What Core 0 has still to do is always the rest of one of seven scripts. *)
(* The inductive invariant names the script and the place in it, and says  *)
(* for each place what is claimed, what Core 1 is at, and whether a guest  *)
(* may be out of RESET.                                                    *)
(***************************************************************************)
EXTENDS Power, TLAPS

-----------------------------------------------------------------------------
(* The scripts, and the places in them.                                    *)

Plans == {"boot", "up", "down", "go", "run", "stop", "resample"}
Boot == SetPower \o <<"wait">> \o Run \o <<"console">>
Text(n) == CASE n = "boot"     -> Boot
             [] n = "up"       -> SetPower \o <<"resample">>
             [] n = "down"     -> ResetPower \o <<"resample">>
             [] n = "go"       -> Go \o <<"resample">>
             [] n = "run"      -> Run \o <<"resample">>
             [] n = "stop"     -> Stop \o <<"resample">>
             [] n = "resample" -> <<"resample">>
Rest(n, i) == SubSeq(Text(n), i, Len(Text(n)))

-----------------------------------------------------------------------------
(* What holds at a place.                                                  *)

Both == {"read_dma", "write_dma"}
Holding(a, b, c, claimed) ==
    machines[0] = a /\ machines[1] = b /\ machines[2] = c /\ channels = claimed

\* Timer and flag are Core 1's to set; only a patient user lets it come to that.
Silent == Patient => ~ticking /\ ~initialised

Off == /\ ~power /\ reset /\ runState = "UNPOWERED" /\ core1 = "off" /\ Silent
       /\ Holding(0, 0, 0, {})
On  == power /\ runState # "UNPOWERED" /\ core1 # "off" /\ Holding(2, 2, 1, Both)
Guarded == Patient /\ ~reset => up = Done
Idle == Off \/ (On /\ Guarded)
Ready == On /\ (Patient => up = Done)

\* Before statement i of SetPower.
Building(i) ==
    /\ i = 1 => Off
    /\ i > 1 => power /\ reset /\ runState = "RESET" /\ core1 = "off" /\ Silent
    /\ i = 2 => Holding(0, 0, 0, {})
    /\ i = 3 => Holding(1, 0, 0, {})
    /\ i = 4 => Holding(1, 0, 0, {"read_dma"})
    /\ i = 5 => Holding(2, 0, 0, {"read_dma"})
    /\ i = 6 => Holding(2, 1, 0, {"read_dma"})
    /\ i = 7 => Holding(2, 1, 0, Both)
    /\ i = 8 => Holding(2, 1, 1, Both)
    /\ i = 9 => Holding(2, 2, 1, Both)

\* Before statement i of ResetPower.
Razing(i) ==
    /\ power /\ runState # "UNPOWERED"
    /\ i <= 3 => /\ core1 # "off" /\ Holding(2, 2, 1, Both)
                 /\ Patient => core1 # "starting" /\ up = Done
    /\ i > 3 => core1 = "off"
    /\ Patient => (i > 1 => ~ticking) /\ (i > 2 => ~initialised)
    /\ i = 4 => Holding(2, 2, 1, Both)
    /\ i = 5 => Holding(2, 1, 1, Both)
    /\ i = 6 => Holding(2, 1, 0, Both)
    /\ i = 7 => Holding(2, 0, 0, {"read_dma"})
    /\ i = 8 => Holding(1, 0, 0, {})
    /\ i > 8 => Holding(0, 0, 0, {})

\* Before statement i of script n.
Claim(n, i) ==
    /\ n = "boot" => /\ i <= 9 => Building(i) /\ loops = 0
                     /\ i >= 10 => On /\ Guarded /\ (loops > 0 => up = Done)
                     /\ i >= 11 => up = Done
    /\ n = "up" => /\ i <= 9 => Building(i)
                   /\ i >= 10 => On /\ Guarded
    /\ n = "down" => /\ i <= 11 => Razing(i)
                     /\ i >= 12 => Off
    /\ n \in {"go", "run", "stop"} => /\ i = 1 => Off \/ Ready
                                      /\ i >= 2 => Ready
    /\ n = "resample" => Idle

Placed == \E n \in Plans : \E i \in 1 .. Len(Text(n)) + 1 : script = Rest(n, i) /\ Claim(n, i)

StateOK ==
    /\ power \in BOOLEAN /\ reset \in BOOLEAN /\ panicked \in BOOLEAN /\ ticking \in BOOLEAN
    /\ initialised \in BOOLEAN /\ moved \in BOOLEAN /\ stalled \in BOOLEAN
    /\ runState \in {"UNPOWERED", "RESET", "RUNNING"}
    /\ channels \subseteq {"read_dma", "write_dma"}
    /\ machines \in [0 .. 2 -> 0 .. MachinesPerPio]
    /\ core1 \in {"off", "starting", "loop", "stuck"} /\ up \in 0 .. Done
    /\ loops \in 0 .. Settled /\ missed \in 0 .. Threshold

\* Core 1 is in its loop only after its bring-up, and says so only there.
LoopOK ==
    /\ core1 \in {"loop", "stuck"} => up = Done
    /\ Patient /\ initialised => core1 \in {"loop", "stuck"}

IInv == StateOK /\ LoopOK /\ ~panicked /\ Placed

-----------------------------------------------------------------------------
(* The scripts, statement by statement.                                    *)

LEMMA BootText ==
    /\ Text("boot") \in Seq(Ops) /\ Len(Text("boot")) = 16
    /\ \A i \in 1 .. 16 : LET op == Text("boot")[i] IN
        \/ (i = 1 /\ op = "init") \/ (i = 2 /\ op = "clock") \/ (i = 3 /\ op = "read_dma")
        \/ (i = 4 /\ op = "read") \/ (i = 5 /\ op = "write") \/ (i = 6 /\ op = "write_dma")
        \/ (i = 7 /\ op = "task") \/ (i = 8 /\ op = "rti") \/ (i = 9 /\ op = "launch")
        \/ (i = 10 /\ op = "wait") \/ (i = 11 /\ op = "stopped")
        \/ (i = 12 /\ op = "setup") \/ (i = 13 /\ op = "release")
        \/ (i = 14 /\ op = "assert") \/ (i = 15 /\ op = "hold")
        \/ (i = 16 /\ op = "console")
<1> DEFINE s == Boot
<1>1. s \in Seq(Ops) /\ Len(s) = 16
    BY DEF Boot, SetPower, Run, Go, Ops
<1>2. /\ s[1] = "init" /\ s[2] = "clock" /\ s[3] = "read_dma" /\ s[4] = "read"
      /\ s[5] = "write" /\ s[6] = "write_dma" /\ s[7] = "task" /\ s[8] = "rti"
      /\ s[9] = "launch" /\ s[10] = "wait" /\ s[11] = "stopped" /\ s[12] = "setup"
      /\ s[13] = "release" /\ s[14] = "assert" /\ s[15] = "hold"
      /\ s[16] = "console"
    BY DEF Boot, SetPower, Run, Go, Ops
<1>3. Text("boot") = s
    BY Zenon DEF Text
<1> HIDE DEF s
<1> QED
    BY <1>1, <1>2, <1>3

LEMMA UpText ==
    /\ Text("up") \in Seq(Ops) /\ Len(Text("up")) = 10
    /\ \A i \in 1 .. 10 : LET op == Text("up")[i] IN
        \/ (i = 1 /\ op = "init") \/ (i = 2 /\ op = "clock") \/ (i = 3 /\ op = "read_dma")
        \/ (i = 4 /\ op = "read") \/ (i = 5 /\ op = "write") \/ (i = 6 /\ op = "write_dma")
        \/ (i = 7 /\ op = "task") \/ (i = 8 /\ op = "rti") \/ (i = 9 /\ op = "launch")
        \/ (i = 10 /\ op = "resample")
<1> DEFINE s == SetPower \o <<"resample">>
<1>1. s \in Seq(Ops) /\ Len(s) = 10
    BY DEF SetPower, Ops
<1>2. /\ s[1] = "init" /\ s[2] = "clock" /\ s[3] = "read_dma" /\ s[4] = "read"
      /\ s[5] = "write" /\ s[6] = "write_dma" /\ s[7] = "task" /\ s[8] = "rti"
      /\ s[9] = "launch" /\ s[10] = "resample"
    BY DEF SetPower, Ops
<1>3. Text("up") = s
    BY Zenon DEF Text
<1> HIDE DEF s
<1> QED
    BY <1>1, <1>2, <1>3

LEMMA DownText ==
    /\ Text("down") \in Seq(Ops) /\ Len(Text("down")) = 12
    /\ \A i \in 1 .. 12 : LET op == Text("down")[i] IN
        \/ (i = 1 /\ op = "tick_off") \/ (i = 2 /\ op = "flag_off")
        \/ (i = 3 /\ op = "kill") \/ (i = 4 /\ op = "free_rti")
        \/ (i = 5 /\ op = "free_task") \/ (i = 6 /\ op = "free_write")
        \/ (i = 7 /\ op = "free_read") \/ (i = 8 /\ op = "free_clock")
        \/ (i = 9 /\ op = "assert") \/ (i = 10 /\ op = "hold") \/ (i = 11 /\ op = "deinit")
        \/ (i = 12 /\ op = "resample")
<1> DEFINE s == ResetPower \o <<"resample">>
<1>1. s \in Seq(Ops) /\ Len(s) = 12
    BY DEF ResetPower, Ops
<1>2. /\ s[1] = "tick_off" /\ s[2] = "flag_off" /\ s[3] = "kill"
      /\ s[4] = "free_rti" /\ s[5] = "free_task" /\ s[6] = "free_write"
      /\ s[7] = "free_read" /\ s[8] = "free_clock" /\ s[9] = "assert"
      /\ s[10] = "hold" /\ s[11] = "deinit" /\ s[12] = "resample"
    BY DEF ResetPower, Ops
<1>3. Text("down") = s
    BY Zenon DEF Text
<1> HIDE DEF s
<1> QED
    BY <1>1, <1>2, <1>3

LEMMA GoText ==
    /\ Text("go") \in Seq(Ops) /\ Len(Text("go")) = 4
    /\ \A i \in 1 .. 4 : LET op == Text("go")[i] IN
        \/ (i = 1 /\ op = "stopped") \/ (i = 2 /\ op = "setup")
        \/ (i = 3 /\ op = "release") \/ (i = 4 /\ op = "resample")
<1> DEFINE s == Go \o <<"resample">>
<1>1. s \in Seq(Ops) /\ Len(s) = 4
    BY DEF Go, Ops
<1>2. /\ s[1] = "stopped" /\ s[2] = "setup" /\ s[3] = "release"
      /\ s[4] = "resample"
    BY DEF Go, Ops
<1>3. Text("go") = s
    BY Zenon DEF Text
<1> HIDE DEF s
<1> QED
    BY <1>1, <1>2, <1>3

LEMMA RunText ==
    /\ Text("run") \in Seq(Ops) /\ Len(Text("run")) = 6
    /\ \A i \in 1 .. 6 : LET op == Text("run")[i] IN
        \/ (i = 1 /\ op = "stopped") \/ (i = 2 /\ op = "setup")
        \/ (i = 3 /\ op = "release") \/ (i = 4 /\ op = "assert") \/ (i = 5 /\ op = "hold")
        \/ (i = 6 /\ op = "resample")
<1> DEFINE s == Run \o <<"resample">>
<1>1. s \in Seq(Ops) /\ Len(s) = 6
    BY DEF Run, Go, Ops
<1>2. /\ s[1] = "stopped" /\ s[2] = "setup" /\ s[3] = "release" /\ s[4] = "assert"
      /\ s[5] = "hold" /\ s[6] = "resample"
    BY DEF Run, Go, Ops
<1>3. Text("run") = s
    BY Zenon DEF Text
<1> HIDE DEF s
<1> QED
    BY <1>1, <1>2, <1>3

LEMMA StopText ==
    /\ Text("stop") \in Seq(Ops) /\ Len(Text("stop")) = 4
    /\ \A i \in 1 .. 4 : LET op == Text("stop")[i] IN
        \/ (i = 1 /\ op = "powered") \/ (i = 2 /\ op = "assert") \/ (i = 3 /\ op = "hold")
        \/ (i = 4 /\ op = "resample")
<1> DEFINE s == Stop \o <<"resample">>
<1>1. s \in Seq(Ops) /\ Len(s) = 4
    BY DEF Stop, Ops
<1>2. /\ s[1] = "powered" /\ s[2] = "assert" /\ s[3] = "hold" /\ s[4] = "resample"
    BY DEF Stop, Ops
<1>3. Text("stop") = s
    BY Zenon DEF Text
<1> HIDE DEF s
<1> QED
    BY <1>1, <1>2, <1>3

LEMMA ResampleText ==
    /\ Text("resample") \in Seq(Ops) /\ Len(Text("resample")) = 1
    /\ \A i \in 1 .. 1 : LET op == Text("resample")[i] IN
        i = 1 /\ op = "resample"
<1> DEFINE s == <<"resample">>
<1>1. s \in Seq(Ops) /\ Len(s) = 1
    BY DEF Ops
<1>2. /\ s[1] = "resample"
    BY DEF Ops
<1>3. Text("resample") = s
    BY Zenon DEF Text
<1> HIDE DEF s
<1> QED
    BY <1>1, <1>2, <1>3

\* Where a statement stands.
LEMMA Where ==
    ASSUME NEW n \in Plans, NEW i \in 1 .. Len(Text(n)), NEW op, op = Text(n)[i]
    PROVE  /\ op = "init" => (n = "boot" /\ i = 1) \/ (n = "up" /\ i = 1)
           /\ op = "clock" => (n = "boot" /\ i = 2) \/ (n = "up" /\ i = 2)
           /\ op = "read_dma" => (n = "boot" /\ i = 3) \/ (n = "up" /\ i = 3)
           /\ op = "read" => (n = "boot" /\ i = 4) \/ (n = "up" /\ i = 4)
           /\ op = "write" => (n = "boot" /\ i = 5) \/ (n = "up" /\ i = 5)
           /\ op = "write_dma" => (n = "boot" /\ i = 6) \/ (n = "up" /\ i = 6)
           /\ op = "task" => (n = "boot" /\ i = 7) \/ (n = "up" /\ i = 7)
           /\ op = "rti" => (n = "boot" /\ i = 8) \/ (n = "up" /\ i = 8)
           /\ op = "launch" => (n = "boot" /\ i = 9) \/ (n = "up" /\ i = 9)
           /\ op = "wait" => n = "boot" /\ i = 10
           /\ op = "console" => n = "boot" /\ i = 16
           /\ op = "tick_off" => n = "down" /\ i = 1
           /\ op = "flag_off" => n = "down" /\ i = 2
           /\ op = "kill" => n = "down" /\ i = 3
           /\ op = "free_rti" => n = "down" /\ i = 4
           /\ op = "free_task" => n = "down" /\ i = 5
           /\ op = "free_write" => n = "down" /\ i = 6
           /\ op = "free_read" => n = "down" /\ i = 7
           /\ op = "free_clock" => n = "down" /\ i = 8
           /\ op = "deinit" => n = "down" /\ i = 11
           /\ op = "stopped" => \/ n = "boot" /\ i = 11
                                \/ n = "go" /\ i = 1
                                \/ n = "run" /\ i = 1
           /\ op = "powered" => n = "stop" /\ i = 1
           /\ op = "setup" => (n = "boot" /\ i = 12) \/ (n = "go" /\ i = 2) \/ (n = "run" /\ i = 2)
           /\ op = "release" => \/ n = "boot" /\ i = 13
                                \/ n = "go" /\ i = 3
                                \/ n = "run" /\ i = 3
           /\ op = "assert" => \/ n = "boot" /\ i = 14
                               \/ n = "down" /\ i = 9
                               \/ n = "run" /\ i = 4
                               \/ n = "stop" /\ i = 2
           /\ op = "hold" => \/ n = "boot" /\ i = 15
                             \/ n = "down" /\ i = 10
                             \/ n = "run" /\ i = 5
                             \/ n = "stop" /\ i = 3
           /\ op = "resample" => \/ n = "up" /\ i = 10
                                 \/ n = "down" /\ i = 12
                                 \/ n = "go" /\ i = 4
                                 \/ n = "run" /\ i = 6
                                 \/ n = "stop" /\ i = 4
                                 \/ n = "resample" /\ i = 1
           /\ op \in Ops /\ Text(n) \in Seq(Ops)
<1>1. CASE n = "boot"
    <2>0. i \in 1 .. 16 /\ op = Text("boot")[i]
        BY <1>1, BootText
    <2>1. \/ (i = 1 /\ op = "init") \/ (i = 2 /\ op = "clock") \/ (i = 3 /\ op = "read_dma")
          \/ (i = 4 /\ op = "read") \/ (i = 5 /\ op = "write") \/ (i = 6 /\ op = "write_dma")
          \/ (i = 7 /\ op = "task") \/ (i = 8 /\ op = "rti") \/ (i = 9 /\ op = "launch")
          \/ (i = 10 /\ op = "wait") \/ (i = 11 /\ op = "stopped")
          \/ (i = 12 /\ op = "setup") \/ (i = 13 /\ op = "release")
          \/ (i = 14 /\ op = "assert") \/ (i = 15 /\ op = "hold")
          \/ (i = 16 /\ op = "console")
        BY <2>0, BootText
    <2>2. op \in Ops /\ Text(n) \in Seq(Ops)
        BY <2>1, <1>1, BootText DEF Ops
    <2> QED
        BY <2>1, <2>2, <1>1
<1>2. CASE n = "up"
    <2>0. i \in 1 .. 10 /\ op = Text("up")[i]
        BY <1>2, UpText
    <2>1. \/ (i = 1 /\ op = "init") \/ (i = 2 /\ op = "clock") \/ (i = 3 /\ op = "read_dma")
          \/ (i = 4 /\ op = "read") \/ (i = 5 /\ op = "write") \/ (i = 6 /\ op = "write_dma")
          \/ (i = 7 /\ op = "task") \/ (i = 8 /\ op = "rti") \/ (i = 9 /\ op = "launch")
          \/ (i = 10 /\ op = "resample")
        BY <2>0, UpText
    <2>2. op \in Ops /\ Text(n) \in Seq(Ops)
        BY <2>1, <1>2, UpText DEF Ops
    <2> QED
        BY <2>1, <2>2, <1>2
<1>3. CASE n = "down"
    <2>0. i \in 1 .. 12 /\ op = Text("down")[i]
        BY <1>3, DownText
    <2>1. \/ (i = 1 /\ op = "tick_off") \/ (i = 2 /\ op = "flag_off")
          \/ (i = 3 /\ op = "kill") \/ (i = 4 /\ op = "free_rti")
          \/ (i = 5 /\ op = "free_task") \/ (i = 6 /\ op = "free_write")
          \/ (i = 7 /\ op = "free_read") \/ (i = 8 /\ op = "free_clock")
          \/ (i = 9 /\ op = "assert") \/ (i = 10 /\ op = "hold") \/ (i = 11 /\ op = "deinit")
          \/ (i = 12 /\ op = "resample")
        BY <2>0, DownText
    <2>2. op \in Ops /\ Text(n) \in Seq(Ops)
        BY <2>1, <1>3, DownText DEF Ops
    <2> QED
        BY <2>1, <2>2, <1>3
<1>4. CASE n = "go"
    <2>0. i \in 1 .. 4 /\ op = Text("go")[i]
        BY <1>4, GoText
    <2>1. \/ (i = 1 /\ op = "stopped") \/ (i = 2 /\ op = "setup")
          \/ (i = 3 /\ op = "release") \/ (i = 4 /\ op = "resample")
        BY <2>0, GoText
    <2>2. op \in Ops /\ Text(n) \in Seq(Ops)
        BY <2>1, <1>4, GoText DEF Ops
    <2> QED
        BY <2>1, <2>2, <1>4
<1>5. CASE n = "run"
    <2>0. i \in 1 .. 6 /\ op = Text("run")[i]
        BY <1>5, RunText
    <2>1. \/ (i = 1 /\ op = "stopped") \/ (i = 2 /\ op = "setup")
          \/ (i = 3 /\ op = "release") \/ (i = 4 /\ op = "assert") \/ (i = 5 /\ op = "hold")
          \/ (i = 6 /\ op = "resample")
        BY <2>0, RunText
    <2>2. op \in Ops /\ Text(n) \in Seq(Ops)
        BY <2>1, <1>5, RunText DEF Ops
    <2> QED
        BY <2>1, <2>2, <1>5
<1>6. CASE n = "stop"
    <2>0. i \in 1 .. 4 /\ op = Text("stop")[i]
        BY <1>6, StopText
    <2>1. \/ (i = 1 /\ op = "powered") \/ (i = 2 /\ op = "assert") \/ (i = 3 /\ op = "hold")
          \/ (i = 4 /\ op = "resample")
        BY <2>0, StopText
    <2>2. op \in Ops /\ Text(n) \in Seq(Ops)
        BY <2>1, <1>6, StopText DEF Ops
    <2> QED
        BY <2>1, <2>2, <1>6
<1>7. CASE n = "resample"
    <2>0. i \in 1 .. 1 /\ op = Text("resample")[i]
        BY <1>7, ResampleText
    <2>1. i = 1 /\ op = "resample"
        BY <2>0, ResampleText
    <2>2. op \in Ops /\ Text(n) \in Seq(Ops)
        BY <2>1, <1>7, ResampleText DEF Ops
    <2> QED
        BY <2>1, <2>2, <1>7
<1> QED
    BY <1>1, <1>2, <1>3, <1>4, <1>5, <1>6, <1>7 DEF Plans

LEMMA Suffix ==
    ASSUME NEW S, NEW s \in Seq(S), NEW i \in 1 .. Len(s)
    PROVE  /\ Head(SubSeq(s, i, Len(s))) = s[i]
           /\ Tail(SubSeq(s, i, Len(s))) = SubSeq(s, i + 1, Len(s))
OBVIOUS

LEMMA Place ==
    ASSUME NEW n \in Plans, NEW i \in 1 .. Len(Text(n)) + 1, script = Rest(n, i)
    PROVE  /\ script = <<>> <=> i = Len(Text(n)) + 1
           /\ script # <<>> => /\ i \in 1 .. Len(Text(n))
                               /\ Head(script) = Text(n)[i] /\ Tail(script) = Rest(n, i + 1)
<1>1. Text(n) \in Seq(Ops)
    BY BootText, UpText, DownText, GoText, RunText, StopText, ResampleText DEF Plans
<1> DEFINE s == Text(n)
<1> HIDE DEF s
<1>2. s \in Seq(Ops) /\ i \in 1 .. Len(s) + 1 /\ script = SubSeq(s, i, Len(s))
    BY <1>1 DEF s, Rest
<1>3. script = <<>> <=> i = Len(s) + 1
    <2>1. Len(s) \in Nat /\ Len(script) = Len(s) - i + 1 /\ script \in Seq(Ops)
        BY <1>2
    <2>2. script = <<>> <=> Len(script) = 0
        BY <2>1
    <2> QED
        BY <1>2, <2>1, <2>2
<1>4. ASSUME i \in 1 .. Len(s)
      PROVE  Head(script) = s[i] /\ Tail(script) = SubSeq(s, i + 1, Len(s))
    <2>1. /\ Head(SubSeq(s, i, Len(s))) = s[i]
          /\ Tail(SubSeq(s, i, Len(s))) = SubSeq(s, i + 1, Len(s))
        BY <1>2, <1>4, Suffix
    <2>2. script = SubSeq(s, i, Len(s))
        BY <1>2
    <2> QED
        BY <2>1, <2>2, Zenon
<1>5. i # Len(s) + 1 => i \in 1 .. Len(s)
    BY <1>2
<1> QED
    BY <1>3, <1>4, <1>5 DEF s, Rest

LEMMA Lengths ==
    ASSUME NEW n \in Plans
    PROVE  Text(n) \in Seq(Ops) /\ Len(Text(n)) \in 1 .. 16
<1>1. CASE n = "boot"
    BY <1>1, BootText
<1>2. CASE n = "up"
    BY <1>2, UpText
<1>3. CASE n = "down"
    BY <1>3, DownText
<1>4. CASE n = "go"
    BY <1>4, GoText
<1>5. CASE n = "run"
    BY <1>5, RunText
<1>6. CASE n = "stop"
    BY <1>6, StopText
<1>7. CASE n = "resample"
    BY <1>7, ResampleText
<1> QED
    BY <1>1, <1>2, <1>3, <1>4, <1>5, <1>6, <1>7 DEF Plans

\* A statement executed: what it makes true is what the next place claims.
LEMMA Advance ==
    ASSUME Placed, NEW op, At(op), script' = Tail(script),
           \A n \in Plans : \A i \in 1 .. Len(Text(n)) :
               Text(n)[i] = op /\ Claim(n, i) => Claim(n, i + 1)'
    PROVE  Placed'
<1>0. PICK n \in Plans : \E i \in 1 .. Len(Text(n)) + 1 : script = Rest(n, i) /\ Claim(n, i)
    BY Zenon DEF Placed
<1>1. PICK i \in 1 .. Len(Text(n)) + 1 : script = Rest(n, i) /\ Claim(n, i)
    BY <1>0
<1>2. /\ i \in 1 .. Len(Text(n)) /\ Text(n)[i] = op /\ script' = Rest(n, i + 1)
    BY <1>1, Place, Zenon DEF At
<1>3. i + 1 \in 1 .. Len(Text(n)) + 1
    BY <1>2, Lengths
<1>4. Claim(n, i + 1)'
    BY <1>1, <1>2, Zenon
<1> QED
    BY <1>2, <1>3, <1>4, Zenon DEF Placed

\* Before a statement the claim of one of its places holds.
LEMMA PlaceBefore ==
    ASSUME Placed, NEW op, At(op)
    PROVE  \E n \in Plans : \E i \in 1 .. Len(Text(n)) : Text(n)[i] = op /\ Claim(n, i)
<1>0. PICK n \in Plans : \E i \in 1 .. Len(Text(n)) + 1 : script = Rest(n, i) /\ Claim(n, i)
    BY Zenon DEF Placed
<1>1. PICK i \in 1 .. Len(Text(n)) + 1 : script = Rest(n, i) /\ Claim(n, i)
    BY <1>0
<1>2. i \in 1 .. Len(Text(n)) /\ Text(n)[i] = op
    BY <1>1, Place, Zenon DEF At
<1> QED
    BY <1>1, <1>2, Zenon

LEMMA Meanwhile ==
    ASSUME Placed, script' = script,
           \A n \in Plans : \A i \in 1 .. Len(Text(n)) + 1 : Claim(n, i) => Claim(n, i)'
    PROVE  Placed'
BY Zenon DEF Placed

\* A command begins with its first statement.
LEMMA Starting ==
    ASSUME NEW n \in Plans, script' = Text(n), Claim(n, 1)'
    PROVE  Placed'
<1>1. 1 \in 1 .. Len(Text(n)) + 1
    BY Lengths
<1>2. Rest(n, 1) = Text(n)
    <2> DEFINE s == Text(n)
    <2>1. s \in Seq(Ops)
        BY Lengths
    <2> HIDE DEF s
    <2>2. SubSeq(s, 1, Len(s)) = s
        BY <2>1
    <2> QED
        BY <2>2 DEF s, Rest
<1> QED
    BY <1>1, <1>2, Zenon DEF Placed

LEMMA Resampling ==
    ASSUME script' = <<"resample">>, Idle'
    PROVE  Placed'
<1>1. Text("resample") = <<"resample">>
    BY Zenon DEF Text
<1>2. Claim("resample", 1)'
    BY DEF Claim
<1> QED
    BY <1>1, <1>2, Starting, Zenon DEF Plans

\* Between commands the guest is off, or up and served.
LEMMA Ended ==
    ASSUME Placed, script = <<>>
    PROVE  Idle
<1>0. PICK n \in Plans : \E i \in 1 .. Len(Text(n)) + 1 : script = Rest(n, i) /\ Claim(n, i)
    BY Zenon DEF Placed
<1>1. PICK i \in 1 .. Len(Text(n)) + 1 : script = Rest(n, i) /\ Claim(n, i)
    BY <1>0
<1>2. i = Len(Text(n)) + 1
    BY <1>1, Place, Zenon
<1>3. Ready => Idle
    BY DEF Ready, Idle, Guarded
<1>4. CASE n = "boot"
    BY <1>4, <1>1, <1>2, <1>3, BootText DEF Claim, Idle
<1>5. CASE n = "up"
    BY <1>5, <1>1, <1>2, <1>3, UpText DEF Claim, Idle
<1>6. CASE n = "down"
    BY <1>6, <1>1, <1>2, <1>3, DownText DEF Claim, Idle
<1>7. CASE n = "go"
    BY <1>7, <1>1, <1>2, <1>3, GoText DEF Claim, Idle
<1>8. CASE n = "run"
    BY <1>8, <1>1, <1>2, <1>3, RunText DEF Claim, Idle
<1>9. CASE n = "stop"
    BY <1>9, <1>1, <1>2, <1>3, StopText DEF Claim, Idle
<1>10. CASE n = "resample"
    BY <1>10, <1>1, <1>2, <1>3, ResampleText DEF Claim, Idle
<1> QED
    BY <1>4, <1>5, <1>6, <1>7, <1>8, <1>9, <1>10 DEF Plans

-----------------------------------------------------------------------------
(* What Core 1, the handler and the watchdog do meanwhile.                 *)

LEMMA DoneIsNat == Done \in Nat \ {0}
BY DEF Done, BringUp

LEMMA StageKeeps ==
    ASSUME IInv, Stage
    PROVE  IInv'
<1> USE DEF pins, claims, watchdog
<1>1. /\ core1 = "starting"
      /\ UNCHANGED <<script, power, reset, runState, channels, machines, panicked, loops, moved,
                     missed, stalled>>
    BY Zenon DEF Stage
<1>2. \/ up < Done /\ up' = up + 1 /\ core1' = core1 /\ initialised' = initialised
      \/ ~(up < Done) /\ core1' = "loop" /\ up' = up
    BY Zenon DEF Stage
<1>3. ticking' \in BOOLEAN /\ initialised' \in BOOLEAN
    <2>1. up < Done => ticking' = (ticking \/ BringUp[up'] = "tick")
        BY Zenon DEF Stage
    <2>2. ~(up < Done) => ticking' = ticking /\ initialised' = TRUE
        BY Zenon DEF Stage
    <2>3. up < Done => initialised' = initialised
        BY Zenon DEF Stage
    <2> QED
        BY <2>1, <2>2, <2>3, Zenon DEF IInv, StateOK
<1>4. StateOK'
    BY <1>1, <1>2, <1>3, DoneIsNat DEF IInv, StateOK
<1>5. LoopOK'
    <2>1. Patient /\ initialised => core1 \in {"loop", "stuck"}
        BY DEF IInv, LoopOK
    <2>2. CASE up < Done
        BY <1>1, <1>2, <2>1, <2>2 DEF LoopOK
    <2>3. CASE ~(up < Done)
        <3>1. up = Done
            BY <2>3, DoneIsNat DEF IInv, StateOK
        <3> QED
            BY <1>2, <2>3, <3>1 DEF LoopOK
    <2> QED
        BY <2>2, <2>3
<1>6. ~panicked'
    BY <1>1 DEF IInv
<1>7. ASSUME NEW n \in Plans, NEW i \in 1 .. Len(Text(n)) + 1, Claim(n, i)
      PROVE  Claim(n, i)'
    <2>1. ~Off /\ (i < 10 => ~Building(i))
        BY <1>1, DoneIsNat DEF Off, Building
    <2>2. core1' # "off" /\ (up = Done => up' = Done)
        BY <1>1, <1>2, DoneIsNat DEF IInv, StateOK
    <2>3. /\ On => On'
          /\ Guarded => Guarded'
          /\ Ready => Ready'
        BY <1>1, <2>2 DEF On, Guarded, Ready, Holding
    <2>4. Razing(i) => Razing(i)'
        BY <1>1, <2>2 DEF Razing, Holding
    <2>5. i \in Int
        BY Lengths
    <2> QED
        BY <1>1, <1>7, <2>1, <2>2, <2>3, <2>4, <2>5 DEF Claim, Idle
<1>8. Placed'
    BY <1>1, <1>7, Meanwhile, Zenon DEF IInv
<1> QED
    BY <1>4, <1>5, <1>6, <1>8, Zenon DEF IInv

LEMMA PassKeeps ==
    ASSUME IInv, Pass
    PROVE  IInv'
<1> USE DEF pins, claims, watchdog
<1>1. /\ core1 = "loop" /\ loops' = (IF loops < Settled THEN loops + 1 ELSE loops)
      /\ UNCHANGED <<script, power, reset, runState, channels, machines, panicked, core1, up,
                     ticking, initialised, missed, stalled>>
    BY Zenon DEF Pass
<1>2. moved' \in BOOLEAN
    BY Zenon DEF Pass
<1>3. StateOK'
    BY <1>1, <1>2, PowerAssumption DEF IInv, StateOK
<1>4. LoopOK' /\ ~panicked'
    BY <1>1 DEF IInv, LoopOK
<1>5. ASSUME NEW n \in Plans, NEW i \in 1 .. Len(Text(n)) + 1, Claim(n, i)
      PROVE  Claim(n, i)'
    <2>1. ~Off /\ (i < 10 => ~Building(i))
        BY <1>1, DoneIsNat DEF Off, Building
    <2>2. up = Done
        BY <1>1 DEF IInv, LoopOK
    <2>3. /\ On => On'
          /\ Guarded => Guarded'
          /\ Ready => Ready'
          /\ Razing(i) => Razing(i)'
        BY <1>1 DEF On, Guarded, Ready, Holding, Razing
    <2>4. i \in Int
        BY Lengths
    <2> QED
        BY <1>1, <1>5, <2>1, <2>2, <2>3, <2>4 DEF Claim, Idle
<1>6. Placed'
    BY <1>1, <1>5, Meanwhile, Zenon DEF IInv
<1> QED
    BY <1>3, <1>4, <1>6, Zenon DEF IInv

LEMMA StarveKeeps ==
    ASSUME IInv, Starve
    PROVE  IInv'
<1> USE DEF pins, claims, watchdog
<1>1. /\ core1 \in {"loop", "stuck"} /\ core1' \in {"loop", "stuck"}
      /\ UNCHANGED <<script, power, reset, runState, channels, machines, panicked, up, ticking,
                     initialised, loops, moved, missed, stalled>>
    BY Zenon DEF Starve
<1>2. StateOK' /\ LoopOK' /\ ~panicked'
    BY <1>1 DEF IInv, StateOK, LoopOK
<1>3. ASSUME NEW n \in Plans, NEW i \in 1 .. Len(Text(n)) + 1, Claim(n, i)
      PROVE  Claim(n, i)'
    <2>1. ~Off /\ (i < 10 => ~Building(i))
        BY <1>1, DoneIsNat DEF Off, Building
    <2>2. /\ On => On'
          /\ Guarded => Guarded'
          /\ Ready => Ready'
          /\ Razing(i) => Razing(i)'
        BY <1>1 DEF On, Guarded, Ready, Holding, Razing
    <2>3. i \in Int
        BY Lengths
    <2> QED
        BY <1>1, <1>3, <2>1, <2>2, <2>3 DEF Claim, Idle
<1>4. Placed'
    BY <1>1, <1>3, Meanwhile, Zenon DEF IInv
<1> QED
    BY <1>2, <1>4, Zenon DEF IInv

LEMMA ObserveKeeps ==
    ASSUME IInv, Observe
    PROVE  IInv'
<1> USE DEF pins, claims, core1Vars, watchdog
<1>1. /\ core1 # "off" /\ runState' \in {"RESET", "RUNNING"}
      /\ UNCHANGED <<script, power, reset, channels, machines, panicked, core1, up, ticking,
                     initialised, loops, moved, missed, stalled>>
    BY Zenon DEF Observe, Observing
<1>2. StateOK' /\ LoopOK' /\ ~panicked'
    BY <1>1 DEF IInv, StateOK, LoopOK
<1>3. ASSUME NEW n \in Plans, NEW i \in 1 .. Len(Text(n)) + 1, Claim(n, i)
      PROVE  Claim(n, i)'
    <2>1. ~Off /\ (i < 10 => ~Building(i))
        BY <1>1, DoneIsNat DEF Off, Building
    <2>2. /\ On => On'
          /\ Guarded => Guarded'
          /\ Ready => Ready'
          /\ Razing(i) => Razing(i)'
        BY <1>1 DEF On, Guarded, Ready, Holding, Razing
    <2>3. i \in Int
        BY Lengths
    <2> QED
        BY <1>1, <1>3, <2>1, <2>2, <2>3 DEF Claim, Idle
<1>4. Placed'
    BY <1>1, <1>3, Meanwhile, Zenon DEF IInv
<1> QED
    BY <1>2, <1>4, Zenon DEF IInv

\* A step of what no claim speaks of.
LEMMA Aside ==
    ASSUME UNCHANGED <<power, reset, runState, channels, machines, core1, up, ticking, initialised,
                       loops>>,
           NEW n, NEW i
    PROVE  Claim(n, i)' <=> Claim(n, i)
<1>1. /\ Off' <=> Off
      /\ On' <=> On
      /\ Guarded' <=> Guarded
      /\ Ready' <=> Ready
      /\ Idle' <=> Idle
      /\ Razing(i)' <=> Razing(i)
    BY DEF Off, On, Guarded, Ready, Idle, Holding, Razing, Silent
<1>2. Building(i)' <=> Building(i)
    BY DEF Building, Off, Holding, Silent
<1> QED
    BY <1>1, <1>2 DEF Claim

LEMMA SampleKeeps ==
    ASSUME IInv, Sample
    PROVE  IInv'
<1> USE DEF pins, claims, core1Vars
<1>1. UNCHANGED <<script, power, reset, runState, channels, machines, panicked, core1, up, ticking,
                  initialised, loops>>
    BY Zenon DEF Sample
<1>2. moved' \in BOOLEAN
    BY Zenon DEF Sample
<1>3. missed' = 0 \/ missed' = (IF missed < Threshold THEN missed + 1 ELSE missed)
    BY Zenon DEF Sample
<1>4. stalled' \in BOOLEAN
    <2>1. stalled' = FALSE \/ stalled' = (stalled \/ missed' >= Threshold)
        BY Zenon DEF Sample
    <2> QED
        BY <2>1, Zenon DEF IInv, StateOK
<1>5. StateOK' /\ LoopOK' /\ ~panicked'
    <2>1. missed' \in 0 .. Threshold
        BY <1>3, PowerAssumption DEF IInv, StateOK
    <2> QED
        BY <1>1, <1>2, <1>4, <2>1 DEF IInv, StateOK, LoopOK
<1>6. Placed'
    BY <1>1, Aside, Meanwhile, Zenon DEF IInv
<1> QED
    BY <1>5, <1>6, Zenon DEF IInv

-----------------------------------------------------------------------------
(* Core 0's statements.                                                    *)

LEMMA PowerUpKeeps ==
    ASSUME IInv, PowerUp
    PROVE  IInv'
<1> USE DEF pins, claims, core1Vars, watchdog
<1>1. /\ At("init") /\ script' = Tail(script) /\ runState' = "RESET"
      /\ UNCHANGED <<channels, machines, panicked, core1, up, ticking, initialised, loops, moved,
                     missed, stalled>>
    BY Zenon DEF PowerUp, Continue
<1>2. power' = TRUE /\ reset' = TRUE
    BY Zenon DEF PowerUp
<1>3. power' \in BOOLEAN /\ reset' \in BOOLEAN /\ power' /\ reset'
    BY <1>2, Zenon
<1>4. StateOK' /\ LoopOK' /\ ~panicked'
    BY <1>1, <1>3 DEF IInv, StateOK, LoopOK
<1>5. ASSUME NEW n \in Plans, NEW i \in 1 .. Len(Text(n)), Text(n)[i] = "init", Claim(n, i)
      PROVE  Claim(n, i + 1)'
    <2>1. i = 1 /\ (n = "boot" \/ n = "up")
        BY <1>5, Where, Zenon
    <2>2. Off /\ (n = "boot" => loops = 0)
        BY <1>5, <2>1 DEF Claim, Building
    <2>3. Building(2)'
        BY <1>1, <1>3, <2>2 DEF Building, Off, Holding, Silent
    <2> QED
        BY <1>1, <2>1, <2>2, <2>3 DEF Claim
<1>6. Placed'
    BY <1>1, <1>5, Advance DEF IInv
<1> QED
    BY <1>4, <1>6, Zenon DEF IInv

LEMMA ClaimMachineKeeps ==
    ASSUME IInv, ClaimMachine
    PROVE  IInv'
<1> USE DEF pins, claims, core1Vars, watchdog
<1>1. PICK m \in DOMAIN Pio :
        /\ At(m)
        /\ panicked' = (machines[Pio[m]] >= MachinesPerPio)
        /\ machines' = [machines EXCEPT ![Pio[m]] = @ + IF panicked' THEN 0 ELSE 1]
    BY Zenon DEF ClaimMachine
<1>2. UNCHANGED <<power, reset, runState, channels, core1, up, ticking, initialised, loops, moved,
                  missed, stalled>>
    BY Zenon DEF ClaimMachine
<1>3. m \in {"clock", "read", "write", "task", "rti"}
    BY DEF Pio
<1>4. Pio["clock"] = 0 /\ Pio["read"] = 0 /\ Pio["write"] = 1 /\ Pio["rti"] = 1 /\ Pio["task"] = 2
    BY DEF Pio
<1>5. ASSUME NEW n \in Plans, NEW i \in 1 .. Len(Text(n)), Text(n)[i] = m, Claim(n, i)
      PROVE  /\ n \in {"boot", "up"} /\ Building(i) /\ (n = "boot" => loops = 0)
             /\ \/ (m = "clock" /\ i = 2) \/ (m = "read" /\ i = 4) \/ (m = "write" /\ i = 5)
                \/ (m = "task" /\ i = 7) \/ (m = "rti" /\ i = 8)
    <2>1. /\ n \in {"boot", "up"}
          /\ \/ (m = "clock" /\ i = 2) \/ (m = "read" /\ i = 4) \/ (m = "write" /\ i = 5)
             \/ (m = "task" /\ i = 7) \/ (m = "rti" /\ i = 8)
        <3>1. CASE m = "clock"
            <4>1. Text(n)[i] = "clock"
                BY <3>1, <1>5
            <4>2. n \in {"boot", "up"} /\ i = 2
                BY <4>1, Where, Zenon
            <4> QED
                BY <3>1, <4>2
        <3>2. CASE m = "read"
            <4>1. Text(n)[i] = "read"
                BY <3>2, <1>5
            <4>2. n \in {"boot", "up"} /\ i = 4
                BY <4>1, Where, Zenon
            <4> QED
                BY <3>2, <4>2
        <3>3. CASE m = "write"
            <4>1. Text(n)[i] = "write"
                BY <3>3, <1>5
            <4>2. n \in {"boot", "up"} /\ i = 5
                BY <4>1, Where, Zenon
            <4> QED
                BY <3>3, <4>2
        <3>4. CASE m = "task"
            <4>1. Text(n)[i] = "task"
                BY <3>4, <1>5
            <4>2. n \in {"boot", "up"} /\ i = 7
                BY <4>1, Where, Zenon
            <4> QED
                BY <3>4, <4>2
        <3>5. CASE m = "rti"
            <4>1. Text(n)[i] = "rti"
                BY <3>5, <1>5
            <4>2. n \in {"boot", "up"} /\ i = 8
                BY <4>1, Where, Zenon
            <4> QED
                BY <3>5, <4>2
        <3> QED
            BY <1>3, <3>1, <3>2, <3>3, <3>4, <3>5
    <2> QED
        BY <1>5, <2>1 DEF Claim
<1>6. /\ Pio[m] \in 0 .. 2 /\ machines[Pio[m]] \in 0 .. 1
    <2>1. PICK n \in Plans : \E i \in 1 .. Len(Text(n)) : Text(n)[i] = m /\ Claim(n, i)
        BY <1>1, PlaceBefore DEF IInv
    <2>2. PICK i \in 1 .. Len(Text(n)) : Text(n)[i] = m /\ Claim(n, i)
        BY <2>1
    <2>3. /\ Building(i)
          /\ \/ (m = "clock" /\ i = 2) \/ (m = "read" /\ i = 4) \/ (m = "write" /\ i = 5)
             \/ (m = "task" /\ i = 7) \/ (m = "rti" /\ i = 8)
        BY <1>5, <2>2
    <2> HIDE DEF Pio
    <2> QED
        BY <1>4, <2>3 DEF Building, Holding
<1>7. ~panicked' /\ panicked' \in BOOLEAN
    <2>1. ~(machines[Pio[m]] >= MachinesPerPio)
        BY <1>6 DEF MachinesPerPio
    <2>2. (machines[Pio[m]] >= MachinesPerPio) = FALSE
        BY <2>1
    <2>3. panicked' = FALSE
        BY <1>1, <2>2
    <2> QED
        BY <2>3, Zenon
<1>8. script' = Tail(script) /\ machines' = [machines EXCEPT ![Pio[m]] = @ + 1]
    <2>1. script' = Tail(script)
        BY <1>7, Zenon DEF ClaimMachine, Continue
    <2> QED
        BY <1>1, <1>7, <2>1
<1>9. StateOK' /\ LoopOK'
    <2>1. machines' \in [0 .. 2 -> 0 .. MachinesPerPio]
        BY <1>6, <1>8 DEF IInv, StateOK, MachinesPerPio
    <2> QED
        BY <1>2, <1>7, <2>1 DEF IInv, StateOK, LoopOK
<1>10. ASSUME NEW n \in Plans, NEW i \in 1 .. Len(Text(n)), Text(n)[i] = m, Claim(n, i)
       PROVE  Claim(n, i + 1)'
    <2>1. /\ n \in {"boot", "up"} /\ Building(i) /\ (n = "boot" => loops = 0)
          /\ \/ (m = "clock" /\ i = 2) \/ (m = "read" /\ i = 4) \/ (m = "write" /\ i = 5)
             \/ (m = "task" /\ i = 7) \/ (m = "rti" /\ i = 8)
        BY <1>5, <1>10
    <2>2. machines \in [0 .. 2 -> 0 .. MachinesPerPio]
        BY DEF IInv, StateOK
    <2>3. Building(i + 1)'
        BY <1>2, <1>4, <1>8, <2>1, <2>2 DEF Building, Holding, Silent
    <2> QED
        BY <1>2, <2>1, <2>3 DEF Claim
<1>11. Placed'
    BY <1>1, <1>8, <1>10, Advance DEF IInv
<1> QED
    BY <1>7, <1>9, <1>11, Zenon DEF IInv

LEMMA ClaimChannelsKeeps ==
    ASSUME IInv, ClaimChannels
    PROVE  IInv'
<1> USE DEF pins, claims, core1Vars, watchdog
<1>1. PICK c \in {"read_dma", "write_dma"} :
        At(c) /\ panicked' = (c \in channels) /\ channels' = channels \cup {c}
    BY Zenon DEF ClaimChannels
<1>2. UNCHANGED <<power, reset, runState, machines, core1, up, ticking, initialised, loops, moved,
                  missed, stalled>>
    BY Zenon DEF ClaimChannels
<1>3. ASSUME NEW n \in Plans, NEW i \in 1 .. Len(Text(n)), Text(n)[i] = c, Claim(n, i)
      PROVE  /\ n \in {"boot", "up"} /\ Building(i) /\ (n = "boot" => loops = 0)
             /\ (c = "read_dma" /\ i = 3) \/ (c = "write_dma" /\ i = 6)
    <2>1. /\ n \in {"boot", "up"}
          /\ (c = "read_dma" /\ i = 3) \/ (c = "write_dma" /\ i = 6)
        BY <1>3, Where
    <2> QED
        BY <1>3, <2>1 DEF Claim
<1>4. c \notin channels
    <2>1. PICK n \in Plans : \E i \in 1 .. Len(Text(n)) : Text(n)[i] = c /\ Claim(n, i)
        BY <1>1, PlaceBefore DEF IInv
    <2>2. PICK i \in 1 .. Len(Text(n)) : Text(n)[i] = c /\ Claim(n, i)
        BY <2>1
    <2>3. Building(i) /\ ((c = "read_dma" /\ i = 3) \/ (c = "write_dma" /\ i = 6))
        BY <1>3, <2>2
    <2> QED
        BY <2>3 DEF Building, Holding
<1>5. ~panicked' /\ panicked' \in BOOLEAN
    <2>1. (c \in channels) = FALSE
        BY <1>4
    <2>2. panicked' = FALSE
        BY <1>1, <2>1
    <2> QED
        BY <2>2, Zenon
<1>6. script' = Tail(script)
    BY <1>5, Zenon DEF ClaimChannels, Continue
<1>7. StateOK' /\ LoopOK'
    BY <1>1, <1>2, <1>5 DEF IInv, StateOK, LoopOK
<1>8. ASSUME NEW n \in Plans, NEW i \in 1 .. Len(Text(n)), Text(n)[i] = c, Claim(n, i)
      PROVE  Claim(n, i + 1)'
    <2>1. /\ n \in {"boot", "up"} /\ Building(i) /\ (n = "boot" => loops = 0)
          /\ (c = "read_dma" /\ i = 3) \/ (c = "write_dma" /\ i = 6)
        BY <1>3, <1>8
    <2>2. Building(i + 1)'
        BY <1>1, <1>2, <2>1 DEF Building, Holding, Silent, Both
    <2> QED
        BY <1>2, <2>1, <2>2 DEF Claim
<1>9. Placed'
    BY <1>1, <1>6, <1>8, Advance DEF IInv
<1> QED
    BY <1>5, <1>7, <1>9, Zenon DEF IInv

LEMMA LaunchKeeps ==
    ASSUME IInv, Launch
    PROVE  IInv'
<1> USE DEF pins, claims, watchdog
<1>1. /\ At("launch") /\ script' = Tail(script) /\ core1' = "starting" /\ up' = 0
      /\ UNCHANGED <<power, reset, runState, channels, machines, panicked, ticking, initialised,
                     loops, moved, missed, stalled>>
    BY Zenon DEF Launch, Continue
<1>2. ASSUME NEW n \in Plans, NEW i \in 1 .. Len(Text(n)), Text(n)[i] = "launch", Claim(n, i)
      PROVE  n \in {"boot", "up"} /\ i = 9 /\ Building(9) /\ (n = "boot" => loops = 0)
    <2>1. n \in {"boot", "up"} /\ i = 9
        BY <1>2, Where, Zenon
    <2> QED
        BY <1>2, <2>1 DEF Claim
<1>3. Building(9)
    BY <1>1, <1>2, PlaceBefore, Zenon DEF IInv
<1>4. StateOK' /\ LoopOK' /\ ~panicked'
    <2>1. Patient => ~initialised
        BY <1>3 DEF Building, Silent
    <2> QED
        BY <1>1, <2>1, DoneIsNat DEF IInv, StateOK, LoopOK
<1>5. ASSUME NEW n \in Plans, NEW i \in 1 .. Len(Text(n)), Text(n)[i] = "launch", Claim(n, i)
      PROVE  Claim(n, i + 1)'
    <2>1. n \in {"boot", "up"} /\ i = 9 /\ (n = "boot" => loops = 0)
        BY <1>2, <1>5
    <2>2. On' /\ Guarded'
        BY <1>1, <1>3 DEF Building, On, Guarded, Holding
    <2> QED
        BY <1>1, <2>1, <2>2 DEF Claim
<1>6. Placed'
    BY <1>1, <1>5, Advance DEF IInv
<1> QED
    BY <1>4, <1>6, Zenon DEF IInv

LEMMA StopTickKeeps ==
    ASSUME IInv, StopTick
    PROVE  IInv'
<1> USE DEF pins, claims, watchdog
<1>1. /\ At("tick_off") /\ script' = Tail(script)
      /\ UNCHANGED <<power, reset, runState, channels, machines, panicked, core1, up, initialised,
                     loops, moved, missed, stalled>>
    BY Zenon DEF StopTick, Continue
<1>2. ticking' \in BOOLEAN /\ ~ticking'
    <2>1. ticking' = FALSE
        BY Zenon DEF StopTick
    <2> QED
        BY <2>1, Zenon
<1>3. StateOK' /\ LoopOK' /\ ~panicked'
    BY <1>1, <1>2 DEF IInv, StateOK, LoopOK
<1>4. ASSUME NEW n \in Plans, NEW i \in 1 .. Len(Text(n)), Text(n)[i] = "tick_off", Claim(n, i)
      PROVE  Claim(n, i + 1)'
    <2>1. n = "down" /\ i = 1
        BY <1>4, Where, Zenon
    <2>2. Razing(1)
        BY <1>4, <2>1 DEF Claim
    <2>3. Razing(2)'
        BY <1>1, <1>2, <2>2 DEF Razing, Holding
    <2> QED
        BY <2>1, <2>3 DEF Claim
<1>5. Placed'
    BY <1>1, <1>4, Advance DEF IInv
<1> QED
    BY <1>3, <1>5, Zenon DEF IInv

LEMMA KillKeeps ==
    ASSUME IInv, Kill
    PROVE  IInv'
<1> USE DEF pins, claims, watchdog
<1>1. /\ script' = Tail(script)
      /\ UNCHANGED <<power, reset, runState, channels, machines, panicked, ticking,
                     loops, moved, missed, stalled>>
    BY Zenon DEF Kill, Continue
<1>2. CASE At("flag_off") /\ initialised' = FALSE /\ UNCHANGED <<core1, up>>
    <2>1. initialised' \in BOOLEAN /\ ~initialised'
        BY <1>2, Zenon
    <2>2. StateOK' /\ LoopOK' /\ ~panicked'
        BY <1>1, <1>2, <2>1 DEF IInv, StateOK, LoopOK
    <2>3. ASSUME NEW n \in Plans, NEW i \in 1 .. Len(Text(n)), Text(n)[i] = "flag_off", Claim(n, i)
          PROVE  Claim(n, i + 1)'
        <3>1. n = "down" /\ i = 2
            BY <2>3, Where, Zenon
        <3>2. Razing(2)
            BY <2>3, <3>1 DEF Claim
        <3>3. Razing(3)'
            BY <1>1, <1>2, <2>1, <3>2 DEF Razing, Holding
        <3> QED
            BY <3>1, <3>3 DEF Claim
    <2>4. Placed'
        BY <1>1, <1>2, <2>3, Advance DEF IInv
    <2> QED
        BY <2>2, <2>4, Zenon DEF IInv
<1>3. CASE At("kill") /\ core1' = "off" /\ up' = 0 /\ UNCHANGED initialised
    <2>1. ASSUME NEW n \in Plans, NEW i \in 1 .. Len(Text(n)), Text(n)[i] = "kill", Claim(n, i)
          PROVE  n = "down" /\ i = 3 /\ Razing(3)
        <3>1. n = "down" /\ i = 3
            BY <2>1, Where, Zenon
        <3> QED
            BY <2>1, <3>1 DEF Claim
    <2>2. Razing(3)
        BY <1>3, <2>1, PlaceBefore, Zenon DEF IInv
    <2>3. Razing(4)'
        BY <1>1, <1>3, <2>2 DEF Razing, Holding
    <2>4. StateOK' /\ LoopOK' /\ ~panicked'
        BY <1>1, <1>3, <2>2, DoneIsNat DEF IInv, StateOK, LoopOK, Razing
    <2>5. ASSUME NEW n \in Plans, NEW i \in 1 .. Len(Text(n)), Text(n)[i] = "kill", Claim(n, i)
          PROVE  Claim(n, i + 1)'
        <3>1. n = "down" /\ i = 3
            BY <2>1, <2>5
        <3> QED
            BY <2>3, <3>1 DEF Claim
    <2>6. Placed'
        BY <1>1, <1>3, <2>5, Advance DEF IInv
    <2> QED
        BY <2>4, <2>6, Zenon DEF IInv
<1>4. \/ At("flag_off") /\ initialised' = FALSE /\ UNCHANGED <<core1, up>>
      \/ At("kill") /\ core1' = "off" /\ up' = 0 /\ UNCHANGED initialised
    BY Zenon DEF Kill
<1> QED
    BY <1>2, <1>3, <1>4, Zenon

LEMMA FreeKeeps ==
    ASSUME IInv, Free
    PROVE  IInv'
<1> USE DEF pins, claims, core1Vars, watchdog
<1>1. PICK m \in DOMAIN Pio :
        /\ At(FreeOf[m])
        /\ machines' = [machines EXCEPT ![Pio[m]] = @ - 1]
        /\ channels' = channels \ Dma[m]
    BY Zenon DEF Free
<1>2. /\ script' = Tail(script)
      /\ UNCHANGED <<power, reset, runState, panicked, core1, up, ticking, initialised, loops, moved,
                     missed, stalled>>
    BY Zenon DEF Free, Continue
<1>3. m \in {"clock", "read", "write", "task", "rti"}
    BY DEF Pio
<1> DEFINE piece == /\ Pio[m] \in 0 .. 2
                    /\ \/ /\ m = "rti" /\ FreeOf[m] = "free_rti" /\ Pio[m] = 1 /\ Dma[m] = {}
                       \/ /\ m = "task" /\ FreeOf[m] = "free_task" /\ Pio[m] = 2 /\ Dma[m] = {}
                       \/ /\ m = "write" /\ FreeOf[m] = "free_write" /\ Pio[m] = 1
                          /\ Dma[m] = {"write_dma"}
                       \/ /\ m = "read" /\ FreeOf[m] = "free_read" /\ Pio[m] = 0
                          /\ Dma[m] = {"read_dma"}
                       \/ /\ m = "clock" /\ FreeOf[m] = "free_clock" /\ Pio[m] = 0 /\ Dma[m] = {}
<1>4. piece
    BY <1>3 DEF Pio, FreeOf, Dma
<1> DEFINE op == FreeOf[m]
           a == Pio[m]
           d == Dma[m]
<1>5. \/ op = "free_rti" /\ a = 1 /\ d = {}
      \/ op = "free_task" /\ a = 2 /\ d = {}
      \/ op = "free_write" /\ a = 1 /\ d = {"write_dma"}
      \/ op = "free_read" /\ a = 0 /\ d = {"read_dma"}
      \/ op = "free_clock" /\ a = 0 /\ d = {}
    BY <1>4
<1>6. At(op) /\ machines' = [machines EXCEPT ![a] = @ - 1] /\ channels' = channels \ d
    BY <1>1
<1> HIDE DEF op, a, d, piece
<1>7. ASSUME NEW n \in Plans, NEW i \in 1 .. Len(Text(n)), Text(n)[i] = op, Claim(n, i)
      PROVE  /\ n = "down" /\ Razing(i)
             /\ \/ op = "free_rti" /\ i = 4
                \/ op = "free_task" /\ i = 5
                \/ op = "free_write" /\ i = 6
                \/ op = "free_read" /\ i = 7
                \/ op = "free_clock" /\ i = 8
    <2>1. /\ op = "free_rti" => n = "down" /\ i = 4
          /\ op = "free_task" => n = "down" /\ i = 5
          /\ op = "free_write" => n = "down" /\ i = 6
          /\ op = "free_read" => n = "down" /\ i = 7
          /\ op = "free_clock" => n = "down" /\ i = 8
        BY <1>7, Where, Zenon
    <2>2. n = "down" /\ i \in 4 .. 8
        BY <1>5, <2>1
    <2>3. Razing(i)
        BY <1>7, <2>2 DEF Claim
    <2> QED
        BY <1>5, <2>1, <2>3
<1>8. machines \in [0 .. 2 -> 0 .. MachinesPerPio]
    BY DEF IInv, StateOK
<1>9. StateOK' /\ LoopOK' /\ ~panicked'
    <2>1. machines[a] \in 1 .. MachinesPerPio
        <3>1. PICK n \in Plans : \E i \in 1 .. Len(Text(n)) : Text(n)[i] = op /\ Claim(n, i)
            BY <1>6, PlaceBefore DEF IInv
        <3>2. PICK i \in 1 .. Len(Text(n)) : Text(n)[i] = op /\ Claim(n, i)
            BY <3>1
        <3> QED
            BY <1>5, <1>7, <3>2 DEF Razing, Holding, MachinesPerPio
    <2>2. machines' \in [0 .. 2 -> 0 .. MachinesPerPio]
        BY <1>5, <1>6, <1>8, <2>1 DEF MachinesPerPio
    <2>3. channels' \subseteq {"read_dma", "write_dma"}
        BY <1>6 DEF IInv, StateOK
    <2> QED
        BY <1>2, <2>2, <2>3 DEF IInv, StateOK, LoopOK
<1>10. ASSUME NEW n \in Plans, NEW i \in 1 .. Len(Text(n)), Text(n)[i] = op, Claim(n, i)
       PROVE  Claim(n, i + 1)'
    <2>1. /\ n = "down" /\ Razing(i)
          /\ \/ op = "free_rti" /\ i = 4
             \/ op = "free_task" /\ i = 5
             \/ op = "free_write" /\ i = 6
             \/ op = "free_read" /\ i = 7
             \/ op = "free_clock" /\ i = 8
        BY <1>7, <1>10
    <2>2. Razing(i + 1)'
        BY <1>2, <1>5, <1>6, <1>8, <2>1 DEF Razing, Holding, Both
    <2> QED
        BY <2>1, <2>2 DEF Claim
<1>11. Placed'
    BY <1>2, <1>6, <1>10, Advance DEF IInv
<1> QED
    BY <1>9, <1>11, Zenon DEF IInv

LEMMA PowerDownKeeps ==
    ASSUME IInv, PowerDown
    PROVE  IInv'
<1> USE DEF pins, claims, core1Vars, watchdog
<1>1. /\ At("deinit") /\ script' = Tail(script) /\ runState' = "UNPOWERED"
      /\ UNCHANGED <<channels, machines, panicked, core1, up, ticking, initialised, loops, moved,
                     missed, stalled>>
    BY Zenon DEF PowerDown, Continue
<1>2. power' = FALSE /\ reset' = TRUE
    BY Zenon DEF PowerDown
<1>3. power' \in BOOLEAN /\ reset' \in BOOLEAN /\ ~power' /\ reset'
    BY <1>2, Zenon
<1>4. StateOK' /\ LoopOK' /\ ~panicked'
    BY <1>1, <1>3 DEF IInv, StateOK, LoopOK
<1>5. ASSUME NEW n \in Plans, NEW i \in 1 .. Len(Text(n)), Text(n)[i] = "deinit", Claim(n, i)
      PROVE  Claim(n, i + 1)'
    <2>1. n = "down" /\ i = 11
        BY <1>5, Where, Zenon
    <2>2. Razing(11)
        BY <1>5, <2>1 DEF Claim
    <2>3. Off'
        BY <1>1, <1>3, <2>2 DEF Razing, Off, Holding, Silent
    <2> QED
        BY <2>1, <2>3 DEF Claim
<1>6. Placed'
    BY <1>1, <1>5, Advance DEF IInv
<1> QED
    BY <1>4, <1>6, Zenon DEF IInv

LEMMA AssertedKeeps ==
    ASSUME IInv, Asserted
    PROVE  IInv'
<1> USE DEF pins, claims, core1Vars, watchdog
<1>1. /\ At("powered") \/ At("stopped")
      /\ UNCHANGED <<power, reset, runState, channels, machines, panicked, core1, up, ticking,
                     initialised, loops, moved, missed, stalled>>
    BY Zenon DEF Asserted
<1>2. script' = <<"resample">> \/ (runState # "UNPOWERED" /\ script' = Tail(script))
    BY Zenon DEF Asserted, Continue
<1>3. StateOK' /\ LoopOK' /\ ~panicked'
    BY <1>1 DEF IInv, StateOK, LoopOK
<1>4. PICK op \in {"powered", "stopped"} : At(op)
    BY <1>1
<1>5. ASSUME NEW n \in Plans, NEW i \in 1 .. Len(Text(n)), Text(n)[i] = op, Claim(n, i)
      PROVE  /\ (n = "boot" /\ i = 11) \/ (n \in {"go", "run", "stop"} /\ i = 1)
             /\ Idle /\ (Off \/ Ready)
    <2>1. /\ op = "powered" => n = "stop" /\ i = 1
          /\ op = "stopped" => (n = "boot" /\ i = 11) \/ (n = "go" /\ i = 1) \/ (n = "run" /\ i = 1)
        BY <1>5, Where, Zenon
    <2>2. (n = "boot" /\ i = 11) \/ (n \in {"go", "run", "stop"} /\ i = 1)
        BY <1>4, <2>1
    <2>3. Off \/ Ready
        BY <1>5, <2>2 DEF Claim, Ready
    <2> QED
        BY <2>2, <2>3 DEF Idle, Ready, Guarded
<1>6. Placed'
    <2>1. CASE script' = <<"resample">>
        <3>1. Idle
            BY <1>4, <1>5, PlaceBefore, Zenon DEF IInv
        <3>2. Idle'
            BY <3>1, <1>1 DEF Idle, Off, On, Guarded, Holding, Silent
        <3> QED
            BY <2>1, <3>2, Resampling
    <2>2. CASE runState # "UNPOWERED" /\ script' = Tail(script)
        <3>1. ASSUME NEW n \in Plans, NEW i \in 1 .. Len(Text(n)), Text(n)[i] = op, Claim(n, i)
              PROVE  Claim(n, i + 1)'
            <4>1. /\ (n = "boot" /\ i = 11) \/ (n \in {"go", "run", "stop"} /\ i = 1)
                  /\ Ready
                BY <1>5, <2>2, <3>1 DEF Off
            <4>2. Claim(n, i + 1)
                BY <3>1, <4>1 DEF Claim, Ready, Guarded
            <4> QED
                BY <1>1, <4>2, Aside, Zenon
        <3> QED
            BY <1>4, <2>2, <3>1, Advance DEF IInv
    <2> QED
        BY <1>2, <2>1, <2>2
<1> QED
    BY <1>3, <1>6, Zenon DEF IInv

LEMMA DriveResetKeeps ==
    ASSUME IInv, DriveReset
    PROVE  IInv'
<1> USE DEF claims, core1Vars, watchdog
<1>1. /\ script' = Tail(script)
      /\ UNCHANGED <<power, channels, machines, panicked, core1, up, ticking, initialised, loops,
                     moved, missed, stalled>>
    BY Zenon DEF DriveReset, Continue
<1>2. PICK op \in {"setup", "release", "assert", "hold"} :
        /\ At(op)
        /\ op = "setup" => runState' = "RESET" /\ reset' = reset
        /\ op = "release" => reset' = FALSE /\ runState' = runState
        /\ op = "assert" => reset' = TRUE /\ runState' = runState
        /\ op = "hold" => reset' = reset /\ runState' = runState
    BY DEF DriveReset
<1>3. /\ reset' \in BOOLEAN
      /\ op = "assert" => reset'
      /\ op \in {"setup", "hold"} => (reset' <=> reset)
    <2>1. CASE op = "setup"
        BY <1>2, <2>1 DEF IInv, StateOK
    <2>2. CASE op = "release"
        BY <1>2, <2>2
    <2>3. CASE op = "assert"
        BY <1>2, <2>3
    <2>4. CASE op = "hold"
        BY <1>2, <2>4 DEF IInv, StateOK
    <2> QED
        BY <2>1, <2>2, <2>3, <2>4
<1>4. runState' = runState \/ (op = "setup" /\ runState' = "RESET")
    BY <1>2
<1>5. StateOK' /\ LoopOK' /\ ~panicked'
    BY <1>1, <1>3, <1>4 DEF IInv, StateOK, LoopOK
<1>6. ASSUME NEW n \in Plans, NEW i \in 1 .. Len(Text(n)), Text(n)[i] = op, Claim(n, i)
      PROVE  Claim(n, i + 1)'
    <2>1. \/ n = "boot" /\ i \in 12 .. 15
          \/ n \in {"go", "run"} /\ i \in 2 .. 5
          \/ n = "stop" /\ i \in 2 .. 3
          \/ n = "down" /\ i \in 9 .. 10 /\ op \in {"assert", "hold"}
        <3>1. CASE op = "setup"
            <4>1. Text(n)[i] = "setup"
                BY <3>1, <1>6
            <4>2. (n = "boot" /\ i = 12) \/ (n = "go" /\ i = 2) \/ (n = "run" /\ i = 2)
                BY <4>1, Where, Zenon
            <4> QED
                BY <4>2
        <3>2. CASE op = "release"
            <4>1. Text(n)[i] = "release"
                BY <3>2, <1>6
            <4>2. (n = "boot" /\ i = 13) \/ (n = "go" /\ i = 3) \/ (n = "run" /\ i = 3)
                BY <4>1, Where, Zenon
            <4> QED
                BY <4>2
        <3>3. CASE op = "assert"
            <4>1. Text(n)[i] = "assert"
                BY <3>3, <1>6
            <4>2. \/ (n = "boot" /\ i = 14) \/ (n = "down" /\ i = 9) \/ (n = "run" /\ i = 4)
                  \/ (n = "stop" /\ i = 2)
                BY <4>1, Where, Zenon
            <4> QED
                BY <3>3, <4>2
        <3>4. CASE op = "hold"
            <4>1. Text(n)[i] = "hold"
                BY <3>4, <1>6
            <4>2. \/ (n = "boot" /\ i = 15) \/ (n = "down" /\ i = 10) \/ (n = "run" /\ i = 5)
                  \/ (n = "stop" /\ i = 3)
                BY <4>1, Where, Zenon
            <4> QED
                BY <3>4, <4>2
        <3> QED
            BY <3>1, <3>2, <3>3, <3>4
    <2>2. CASE n = "down"
        <3>1. Razing(i) /\ i \in 9 .. 10 /\ runState' = runState
            BY <1>4, <1>6, <2>1, <2>2 DEF Claim
        <3>2. Razing(i + 1)'
            BY <1>1, <3>1 DEF Razing, Holding
        <3> QED
            BY <2>2, <3>1, <3>2 DEF Claim
    <2>3. CASE n # "down"
        <3>1. On /\ (Patient => up = Done) /\ (n = "boot" => up = Done)
            BY <1>6, <2>1, <2>3 DEF Claim, Ready
        <3>2. On' /\ (Patient => up' = Done) /\ (n = "boot" => up' = Done)
            BY <1>1, <1>4, <3>1 DEF On, Holding
        <3>3. On' /\ Guarded' /\ Ready'
            BY <3>2 DEF Guarded, Ready
        <3> QED
            BY <2>1, <2>3, <3>2, <3>3 DEF Claim
    <2> QED
        BY <2>2, <2>3
<1>7. Placed'
    BY <1>1, <1>2, <1>6, Advance DEF IInv
<1> QED
    BY <1>5, <1>7, Zenon DEF IInv

LEMMA WaitForLoopKeeps ==
    ASSUME IInv, WaitForLoop
    PROVE  IInv'
<1> USE DEF pins, claims, core1Vars, watchdog
<1>1. /\ At("wait") /\ script' = Tail(script) /\ loops >= Settled
      /\ UNCHANGED <<power, reset, runState, channels, machines, panicked, core1, up, ticking,
                     initialised, loops, moved, missed, stalled>>
    BY Zenon DEF WaitForLoop, Continue
<1>2. StateOK' /\ LoopOK' /\ ~panicked'
    BY <1>1 DEF IInv, StateOK, LoopOK
<1>3. ASSUME NEW n \in Plans, NEW i \in 1 .. Len(Text(n)), Text(n)[i] = "wait", Claim(n, i)
      PROVE  Claim(n, i + 1)'
    <2>1. n = "boot" /\ i = 10
        BY <1>3, Where, Zenon
    <2>2. loops > 0
        BY <1>1, PowerAssumption DEF IInv, StateOK
    <2>3. Claim(n, i + 1)
        BY <1>3, <2>1, <2>2 DEF Claim
    <2> QED
        BY <1>1, <2>3, Aside, Zenon
<1>4. Placed'
    BY <1>1, <1>3, Advance DEF IInv
<1> QED
    BY <1>2, <1>4, Zenon DEF IInv

LEMMA ResampleKeeps ==
    ASSUME IInv, Resample
    PROVE  IInv'
<1> USE DEF pins, claims, core1Vars, watchdog
<1>1. /\ script' = Tail(script)
      /\ UNCHANGED <<power, reset, runState, channels, machines, panicked, core1, up, ticking,
                     initialised, loops, missed, stalled>>
    BY Zenon DEF Resample, Continue
<1>2. PICK op \in {"console", "resample"} : At(op)
    BY DEF Resample
<1>3. moved' \in BOOLEAN
    BY Zenon DEF Resample
<1>4. StateOK' /\ LoopOK' /\ ~panicked'
    BY <1>1, <1>3 DEF IInv, StateOK, LoopOK
<1>5. ASSUME NEW n \in Plans, NEW i \in 1 .. Len(Text(n)), Text(n)[i] = op, Claim(n, i)
      PROVE  Claim(n, i + 1)'
    <2>1. \/ n = "boot" /\ i = 16
          \/ n = "up" /\ i = 10
          \/ n = "down" /\ i = 12
          \/ n \in {"go", "run", "stop"} /\ i >= 2
          \/ n = "resample"
        <3>1. CASE op = "console"
            <4>1. Text(n)[i] = "console"
                BY <3>1, <1>5
            <4>2. n = "boot" /\ i = 16
                BY <4>1, Where, Zenon
            <4> QED
                BY <4>2
        <3>2. CASE op = "resample"
            <4>1. Text(n)[i] = "resample"
                BY <3>2, <1>5
            <4>2. \/ (n = "up" /\ i = 10) \/ (n = "down" /\ i = 12) \/ (n = "go" /\ i = 4)
                  \/ (n = "run" /\ i = 6) \/ (n = "stop" /\ i = 4) \/ (n = "resample" /\ i = 1)
                BY <4>1, Where, Zenon
            <4> QED
                BY <4>2
        <3> QED
            BY <3>1, <3>2
    <2>2. Claim(n, i + 1)
        BY <1>5, <2>1 DEF Claim
    <2> QED
        BY <1>1, <2>2, Aside, Zenon
<1>6. Placed'
    BY <1>1, <1>2, <1>5, Advance DEF IInv
<1> QED
    BY <1>4, <1>6, Zenon DEF IInv

LEMMA CommandKeeps ==
    ASSUME IInv, Command
    PROVE  IInv'
<1> USE DEF pins, claims, core1Vars, watchdog
<1>1. /\ script = <<>> /\ (Patient => (power => initialised))
      /\ UNCHANGED <<power, reset, runState, channels, machines, panicked, core1, up, ticking,
                     initialised, loops, moved, missed, stalled>>
    BY Zenon DEF Command
<1>2. \/ ~power /\ script' = Text("up")
      \/ power /\ script' = Text("down")
      \/ script' = Text("go") \/ script' = Text("run") \/ script' = Text("stop")
    <2>1. /\ Text("up") = SetPower \o <<"resample">> /\ Text("down") = ResetPower \o <<"resample">>
          /\ Text("go") = Go \o <<"resample">> /\ Text("run") = Run \o <<"resample">>
          /\ Text("stop") = Stop \o <<"resample">>
        BY Zenon DEF Text
    <2>2. \/ ~power /\ script' = SetPower \o <<"resample">>
          \/ power /\ script' = ResetPower \o <<"resample">>
          \/ script' = Go \o <<"resample">> \/ script' = Run \o <<"resample">>
          \/ script' = Stop \o <<"resample">>
        BY Zenon DEF Command
    <2> QED
        BY <2>1, <2>2, Zenon
<1>3. StateOK' /\ LoopOK' /\ ~panicked'
    BY <1>1 DEF IInv, StateOK, LoopOK
<1>4. Off \/ (On /\ (Patient => up = Done /\ core1 \in {"loop", "stuck"}))
    <2>1. Idle
        BY <1>1, Ended DEF IInv
    <2>2. Patient /\ initialised => core1 \in {"loop", "stuck"} /\ up = Done
        BY DEF IInv, LoopOK
    <2> QED
        BY <1>1, <2>1, <2>2 DEF Idle, On
<1>5. Off \/ Ready
    BY <1>4 DEF Ready
<1>6. Placed'
    <2>1. CASE ~power /\ script' = Text("up")
        <3>1. Claim("up", 1)
            BY <1>4, <2>1 DEF Claim, Building, On
        <3>2. Claim("up", 1)'
            BY <1>1, <3>1, Aside, Zenon
        <3> QED
            BY <2>1, <3>2, Starting DEF Plans
    <2>2. CASE power /\ script' = Text("down")
        <3>1. Razing(1)
            BY <1>4, <2>2 DEF Off, On, Razing
        <3>2. Claim("down", 1)
            BY <3>1 DEF Claim
        <3>3. Claim("down", 1)'
            BY <1>1, <3>2, Aside, Zenon
        <3> QED
            BY <2>2, <3>3, Starting DEF Plans
    <2>3. ASSUME NEW n \in {"go", "run", "stop"}, script' = Text(n)
          PROVE  Placed'
        <3>1. Claim(n, 1)
            BY <1>5, <2>3 DEF Claim
        <3>2. Claim(n, 1)'
            BY <1>1, <3>1, Aside, Zenon
        <3> QED
            BY <2>3, <3>2, Starting DEF Plans
    <2> QED
        BY <1>2, <2>1, <2>2, <2>3
<1> QED
    BY <1>3, <1>6, Zenon DEF IInv

-----------------------------------------------------------------------------
(* The invariant, and what follows from it.                                *)

LEMMA IInvInit == Init => IInv
<1> SUFFICES ASSUME Init PROVE IInv
    OBVIOUS
<1>1. /\ script = Boot /\ runState = "UNPOWERED"
      /\ channels = {} /\ machines = [p \in 0 .. 2 |-> 0]
      /\ core1 = "off" /\ up = 0 /\ loops = 0 /\ missed = 0
    BY Zenon DEF Init, Boot
<1>2. /\ ~power /\ reset /\ ~panicked /\ ~ticking /\ ~initialised
      /\ power \in BOOLEAN /\ reset \in BOOLEAN /\ panicked \in BOOLEAN
      /\ ticking \in BOOLEAN /\ initialised \in BOOLEAN /\ moved \in BOOLEAN
      /\ stalled \in BOOLEAN
    BY Zenon DEF Init
<1>3. StateOK
    BY <1>1, <1>2, DoneIsNat, PowerAssumption DEF StateOK, MachinesPerPio
<1>4. LoopOK
    BY <1>1, <1>2 DEF LoopOK
<1>5. Off
    BY <1>1, <1>2 DEF Off, Silent, Holding
<1>6. Claim("boot", 1)
    BY <1>1, <1>5 DEF Claim, Building
<1>7. Text("boot") = Boot
    BY Zenon DEF Text
<1>8. Placed
    <2>1. 1 \in 1 .. Len(Text("boot")) + 1
        BY BootText
    <2>2. Rest("boot", 1) = Text("boot")
        <3> DEFINE s == Text("boot")
        <3>1. s \in Seq(Ops)
            BY BootText
        <3> HIDE DEF s
        <3>2. SubSeq(s, 1, Len(s)) = s
            BY <3>1
        <3> QED
            BY <3>2 DEF s, Rest
    <2>3. "boot" \in Plans
        BY DEF Plans
    <2> QED
        BY <1>1, <1>6, <1>7, <2>1, <2>2, <2>3, Zenon DEF Placed
<1> QED
    BY <1>2, <1>3, <1>4, <1>8, Zenon DEF IInv

LEMMA StutterKeeps ==
    ASSUME IInv, UNCHANGED vars
    PROVE  IInv'
<1>1. UNCHANGED <<script, power, reset, runState, channels, machines, panicked, core1, up, ticking,
                  initialised, loops, moved, missed, stalled>>
    BY Zenon DEF vars, pins, claims, core1Vars, watchdog
<1>2. StateOK' /\ LoopOK' /\ ~panicked'
    BY <1>1 DEF IInv, StateOK, LoopOK
<1>3. Placed'
    BY <1>1, Aside, Meanwhile, Zenon DEF IInv
<1> QED
    BY <1>2, <1>3, Zenon DEF IInv

LEMMA IInvStep == IInv /\ [Next]_vars => IInv'
<1> SUFFICES ASSUME IInv, [Next]_vars PROVE IInv'
    OBVIOUS
<1>1. CASE Core0
    BY <1>1, PowerUpKeeps, ClaimMachineKeeps, ClaimChannelsKeeps, LaunchKeeps, StopTickKeeps,
       KillKeeps, FreeKeeps, PowerDownKeeps, AssertedKeeps, DriveResetKeeps, WaitForLoopKeeps,
       ResampleKeeps, Zenon DEF Core0
<1>2. CASE Sample \/ Command
    BY <1>2, SampleKeeps, CommandKeeps, Zenon
<1>3. CASE Stage \/ Pass \/ Starve \/ Observe
    BY <1>3, StageKeeps, PassKeeps, StarveKeeps, ObserveKeeps, Zenon
<1>4. CASE UNCHANGED vars
    BY <1>4, StutterKeeps
<1> QED
    BY <1>1, <1>2, <1>3, <1>4, Zenon DEF Next

\* In every state Core 0 is at a place of one of its scripts, and what is claimed of the
\* place holds of the claims, of Core 1 and of RESET.
THEOREM Invariance == Spec => []IInv
BY IInvInit, IInvStep, PTL DEF Spec

\* Every variable keeps its type, and the script is one of known statements.
THEOREM TypeCorrect == Spec => []PowerTypeOK
<1>1. IInv => PowerTypeOK
    <2> SUFFICES ASSUME IInv PROVE PowerTypeOK
        OBVIOUS
    <2>0. PICK n \in Plans : \E i \in 1 .. Len(Text(n)) + 1 : script = Rest(n, i)
        BY Zenon DEF IInv, Placed
    <2>1. PICK i \in 1 .. Len(Text(n)) + 1 : script = Rest(n, i)
        BY <2>0
    <2>2. script \in Seq(Ops)
        <3> DEFINE s == Text(n)
        <3>1. s \in Seq(Ops) /\ i \in 1 .. Len(s) + 1 /\ script = SubSeq(s, i, Len(s))
            BY <2>1, Lengths DEF Rest
        <3> HIDE DEF s
        <3> QED
            BY <3>1
    <2>3. {power, reset, panicked, ticking, initialised, moved, stalled} \subseteq BOOLEAN
        BY Zenon DEF IInv, StateOK
    <2> QED
        BY <2>2, <2>3, Zenon DEF IInv, StateOK, PowerTypeOK
<1> QED
    BY <1>1, Invariance, PTL

\* Without power no claim is left and, for a patient user, Core 1's timer and flag are off.
LEMMA UnpoweredIsOff ==
    ASSUME IInv, runState = "UNPOWERED"
    PROVE  Off
<1>0. PICK n \in Plans : \E i \in 1 .. Len(Text(n)) + 1 : Claim(n, i)
    BY Zenon DEF IInv, Placed
<1>1. PICK i \in 1 .. Len(Text(n)) + 1 : Claim(n, i)
    BY <1>0
<1>2. i \in Nat \ {0}
    BY Lengths
<1>3. ~On /\ ~Razing(i) /\ ~Ready /\ (Building(i) => Off \/ i \notin 1 .. 9)
    BY <1>2 DEF On, Razing, Ready, Building
<1> QED
    BY <1>1, <1>2, <1>3 DEF Claim, Plans, Idle

\* Whatever the user types and whenever: nothing is found taken when it is claimed, and with
\* the power off no channel and no state machine is claimed.
THEOREM NothingIsTaken ==
    Spec => [](~panicked /\ (runState = "UNPOWERED" =>
                             channels = {} /\ machines = [p \in 0 .. 2 |-> 0]))
<1>1. IInv => ~panicked /\ (runState = "UNPOWERED" =>
                            channels = {} /\ machines = [p \in 0 .. 2 |-> 0])
    BY UnpoweredIsOff DEF IInv, StateOK, Off, Holding
<1> QED
    BY <1>1, Invariance, PTL

\* For a user who waits for Core 1: the guest can be powered down and up for ever, and powering
\* down leaves no claim, no alarm and no flag.
THEOREM PowersDownWhole == Patient /\ Spec => []OffIsOff
<1>1. Patient /\ IInv => OffIsOff
    BY UnpoweredIsOff DEF IInv, StateOK, Off, Holding, Silent, OffIsOff
<1>2. CASE Patient
    BY <1>1, <1>2, Invariance, PTL
<1>3. CASE ~Patient
    BY <1>3
<1> QED
    BY <1>2, <1>3

\* For a user who waits for Core 1: a guest is out of RESET only where Core 1 answers its bus
\* accesses, or reset_power() is taking the answering down.
THEOREM RunningIsServed == Patient /\ Spec => []GuestIsServed
<1>1. Patient /\ IInv => GuestIsServed
    <2> SUFFICES ASSUME Patient, IInv, ~reset, up # Done
                 PROVE  Contains(script, "deinit")
        BY DEF GuestIsServed
    <2>0. PICK n \in Plans : \E i \in 1 .. Len(Text(n)) + 1 : script = Rest(n, i) /\ Claim(n, i)
        BY Zenon DEF IInv, Placed
    <2>1. PICK i \in 1 .. Len(Text(n)) + 1 : script = Rest(n, i) /\ Claim(n, i)
        BY <2>0
    <2>2. i \in Nat \ {0}
        BY Lengths
    <2>3. ~Off /\ ~Guarded /\ ~Ready /\ ~Idle /\ (Building(i) => i \notin 1 .. 9)
        BY <2>2 DEF Off, Guarded, Ready, Idle, Building
    <2>4. n = "down" /\ i <= 11
        BY <2>1, <2>2, <2>3 DEF Claim, Plans
    <2> DEFINE s == Text("down")
    <2>5. s \in Seq(Ops) /\ Len(s) = 12 /\ s[11] = "deinit" /\ script = SubSeq(s, i, Len(s))
        BY <2>1, <2>4, DownText DEF Rest
    <2> HIDE DEF s
    <2>6. 12 - i \in 1 .. Len(script) /\ script[12 - i] = "deinit"
        BY <2>2, <2>4, <2>5
    <2> QED
        BY <2>6 DEF Contains
<1>2. CASE Patient
    BY <1>1, <1>2, Invariance, PTL
<1>3. CASE ~Patient
    BY <1>3
<1> QED
    BY <1>2, <1>3

=============================================================================
