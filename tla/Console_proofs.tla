---------------------------- MODULE Console_proofs ----------------------------
(***************************************************************************)
(* Proofs about Core 0's commands (module Console, with RunControl).       *)
(*                                                                         *)
(* A command is a script, so its correctness is argued as a program's is,  *)
(* by a proof outline: a phase before each statement and after the last,   *)
(* related by the statements' rules.  A phase claims something of the      *)
(* state.  The inductive invariant says that what Core 0 has still to do   *)
(* has an outline, and that the claim of its first phase holds.  Three     *)
(* things are shown: every command's script has an outline; a statement    *)
(* executed by its rule makes the next phase's claim true; and what Core 1 *)
(* and the guest may do meanwhile leaves the claim true.                   *)
(***************************************************************************)
EXTENDS Console, SequenceTheorems, TLAPS

-----------------------------------------------------------------------------
(* Phases.                                                                 *)

Kinds == {"any", "active", "break", "ready", "quiet", "set", "run", "over"}

\* What Core 0 knows: the code that RESET leads to, for a copy out its block and the
\* buffer, and the contents of guest memory that it has put there.
Phase ==
    [k : Kinds, code : Ending \cup {"memory", "none"}, at : Block \cup {0}, data : Content,
     has : [Block -> Content \cup {"unknown"}]]

Nothing == [b \in Block |-> "unknown"]
Known(k, code, at, data, has) ==
    [k |-> k, code |-> code, at |-> at, data |-> data, has |-> has]
Bare(k) == Known(k, "none", 0, "zero", Nothing)
As(k, p) == Known(k, p.code, p.at, p.data, p.has)
Forgetting(k, p) == Known(k, "none", 0, "zero", p.has)

Quiet == reset /\ runState = "RESET" /\ ring = <<>> /\ lpc = "idle"

Leads(code) ==
    \/ code = "memory" /\ resetVec = "memory" /\ snippet.code # "TEST"
    \/ code # "memory" /\ resetVec = "snippet" /\ snippet.code = code
Knows(p) ==
    /\ p.code # "none" => Leads(p.code)
    /\ p.code = "COPY_OUT" /\ p.at # 0 => snippet.at = p.at /\ shared = p.data
Has(p) == \A b \in Block : p.has[b] # "unknown" => memory[b] = p.has[b]

\* A snippet that runs to its SYNC: nothing else happens.
SnippetRuns(p) ==
    /\ ring = <<>> /\ lpc = "idle" /\ ~armed
    /\ guest \in {"held", "run", "sync"}
    /\ guest # "held" => prog = "block"
    /\ guest = "sync" =>
        /\ reached = p.code
        /\ p.code = "COPY_OUT" => memory[snippet.at] = shared
    /\ runState = "SYNCED" => guest = "sync"
    /\ p.code = "COPY_OUT" => p.at \in Block /\ p.has[p.at] = "unknown"
\* A program in guest memory.
MemoryRuns ==
    /\ snippet.code # "TEST"
    /\ guest = "held" => resetVec = "memory" /\ ring = <<>> /\ lpc = "idle" /\ ~armed
    /\ guest # "held" => prog = "memory"
    /\ guest = "sync" \/ runState = "SYNCED" => reached = "memory"

\* The watchpoint's vector is in use.
Trapped == lpc = "armed" \/ (armed /\ lpc \notin {"restore", "disarm"})

\* The claim of a phase.
Holds(p) ==
    /\ p.k = "active" => breakActive
    /\ p.k = "break" /\ Waits /\ ~meddled /\ (Trapped \/ lpc = "vector") => snippet.code = "BREAK"
    /\ p.k = "ready" => IF reset THEN Quiet ELSE runState # "RESET"
    /\ p.k \in {"quiet", "set"} => Quiet /\ Knows(p) /\ Has(p)
    /\ p.k = "set" => ~armed /\ reached = "none"
    /\ p.k = "run" => ~reset /\ p.code # "none"
    /\ p.k = "run" /\ p.code # "memory" => SnippetRuns(p) /\ Knows(p) /\ Has(p)
    /\ p.k = "run" /\ p.code = "memory" => MemoryRuns
    /\ p.k = "over" => reset /\ Has(p)
    /\ p.k = "over" /\ p.code # "none" => ring = <<>> /\ lpc = "idle" /\ Knows(p)

-----------------------------------------------------------------------------
(* The statements' rules.  Want is the image that the command must have    *)
(* loaded before it releases the guest on it, or "none".                   *)

WantOf(c) == IF c = "NITROS9" THEN "boot"
             ELSE IF c \in {"RUN_CHUNK", "RUN_NOWAIT"} THEN "chunk" ELSE "none"
Want == WantOf(cmd)

\* What a timed run leaves known when it was in time.
Ran(p) ==
    IF p.code = "memory" THEN Bare("quiet")
    ELSE Known("quiet", p.code, p.at, p.data,
               IF p.code = "COPY_OUT" THEN [p.has EXCEPT ![p.at] = p.data] ELSE p.has)

RunRule(want, p, st, q) ==
    \/ st.op = "check" /\ p.k \in {"ready", "quiet"} /\ q = Bare("quiet")
    \/ st.op = "stopped" /\ p.k = "quiet" /\ q = p
    \/ st.op = "setup" /\ p.k = "quiet" /\ q = As("set", p)
    \/ /\ st.op = "release" /\ p.k = "set"
       /\ \/ want = "none"
          \/ p.code \in Ending
          \/ p.code = "memory" /\ p.has = [b \in Block |-> want]
       /\ \/ q = Bare("any")
          \/ /\ p.code # "none" /\ q = As("run", p)
             /\ p.code = "COPY_OUT" => p.at \in Block /\ p.has[p.at] = "unknown"
    \/ /\ st.op = "judge" /\ p.k = "run" /\ p.code = st.code
       /\ q = As("over", Ran(p))
    \/ st.op = "assert" /\ q = Bare("over")
    \/ st.op = "hold" /\ p.k = "over" /\ q = As("quiet", p)

LoadRule(p, st, q) ==
    \/ /\ st.op = "load" /\ p.k = "quiet" /\ st.code \in Code
       /\ q = Known("quiet", IF st.code \in Ending THEN st.code ELSE "none", 0, "zero", p.has)
    \/ /\ st.op = "load" /\ p.k \in {"any", "break"} /\ st.code \in Code
       /\ q = IF st.code = "BREAK" THEN Bare("break") ELSE Bare("any")
    \/ /\ st.op = "operands" /\ st.code \in {"COPY_OUT", "COPY_IN"} /\ st.at \in Block
       /\ p.k = "quiet" /\ p.code = st.code
       /\ q = Known("quiet", st.code, st.at, st.data, [p.has EXCEPT ![st.at] = "unknown"])
    \/ st.op = "reset_vector" /\ p.k = "quiet" /\ p.code = "COPY_OUT"
       /\ q = Known("quiet", "memory", 0, "zero", p.has)
    \/ st.op \in {"buffer", "vectors", "nmi_vector"} /\ p.k = "quiet" /\ q = Forgetting("quiet", p)
    \/ st.op = "load" /\ p.k = "ready" /\ st.code \in Code /\ q = p
    \/ st.op = "reset_vector" /\ p.k = "ready" /\ q = p
    \/ st.op \in {"buffer", "nmi_vector"} /\ p.k = "break" /\ q = p
    \/ st.op \in {"buffer", "vectors", "nmi_vector", "reset_vector", "clear", "push"}
       /\ q = Bare("any")

OtherRule(p, st, q) ==
    \/ st.op \in {"await", "signal", "halt", "go_on", "line_on", "line_off", "catch"} /\ q = p
    \/ st.op = "active" /\ p.k = "break" /\ q = Bare("any")
    \/ st.op = "return" /\ p.k = "active" /\ q = Bare("any")

Rule(want, p, st, q) == RunRule(want, p, st, q) \/ LoadRule(p, st, q) \/ OtherRule(p, st, q)

\* A proof outline of a script, from phase p to phase q.
Annotates(f, want, s) ==
    /\ f \in [0 .. Len(s) -> Phase]
    /\ \A i \in 1 .. Len(s) : Rule(want, f[i - 1], s[i], f[i])
Outline(want, s, p, q) ==
    /\ s \in Seq(Statement)
    /\ \E f : Annotates(f, want, s) /\ f[0] = p /\ f[Len(s)] = q

Outlined == \E p, q \in Phase : Outline(Want, script, p, q) /\ Holds(p)

-----------------------------------------------------------------------------
(* The rest of the invariant.                                              *)

ConsoleTypeOK ==
    /\ cmd \in CommandNames \cup {"none"}
    /\ polled \in BOOLEAN /\ breakActive \in BOOLEAN /\ ignore \in BOOLEAN

\* Whatever the watchpoint is at, it was asked for.
Requested == armed \/ ring # <<>> \/ lpc # "idle" => asked

\* From Arm's copy on, the block has BREAK, or what BREAK RETURN makes of it.
Baited ==
    Waits /\ ~meddled =>
        /\ Trapped => nmiVec = "snippet"
        /\ Trapped \/ lpc = "vector" =>
            \/ snippet.code = "BREAK"
            \/ snippet.code = "RETURNED" /\ ~breakActive

IInv == StateOK /\ ConsoleTypeOK /\ Requested /\ Baited /\ Outlined

-----------------------------------------------------------------------------
(* Outlines are put together as the scripts are.                           *)

LEMMA OutlineNone ==
    ASSUME NEW want, NEW p \in Phase
    PROVE  Outline(want, <<>>, p, p)
<1> DEFINE f == [i \in 0 .. 0 |-> p]
<1>1. Annotates(f, want, <<>>) /\ f[0] = p /\ Len(<<>>) = 0
    BY DEF Annotates
<1>2. <<>> \in Seq(Statement)
    OBVIOUS
<1> QED
    BY <1>1, <1>2 DEF Outline

LEMMA OutlineOne ==
    ASSUME NEW want, NEW st \in Statement, NEW p \in Phase, NEW q \in Phase,
           Rule(want, p, st, q)
    PROVE  Outline(want, <<st>>, p, q)
<1> DEFINE f == [i \in 0 .. 1 |-> IF i = 0 THEN p ELSE q]
<1>1. <<st>> \in Seq(Statement) /\ Len(<<st>>) = 1 /\ <<st>>[1] = st
    OBVIOUS
<1>2. f \in [0 .. 1 -> Phase] /\ f[0] = p /\ f[1] = q
    OBVIOUS
<1>3. \A i \in 1 .. 1 : Rule(want, f[i - 1], <<st>>[i], f[i])
    <2> HIDE DEF f
    <2> SUFFICES ASSUME NEW i \in 1 .. 1 PROVE Rule(want, f[i - 1], <<st>>[i], f[i])
        OBVIOUS
    <2>1. i = 1 /\ i - 1 = 0
        OBVIOUS
    <2> QED
        BY <2>1, <1>1, <1>2
<1> QED
    BY <1>1, <1>2, <1>3, Zenon DEF Outline, Annotates

LEMMA RuleAt ==
    ASSUME NEW f, NEW want, NEW s, Annotates(f, want, s), NEW i \in 1 .. Len(s)
    PROVE  Rule(want, f[i - 1], s[i], f[i])
BY Zenon DEF Annotates

LEMMA OutlineConcat ==
    ASSUME NEW want, NEW s, NEW t, NEW p, NEW q, NEW r,
           Outline(want, s, p, q), Outline(want, t, q, r)
    PROVE  Outline(want, s \o t, p, r)
<1>1. s \in Seq(Statement) /\ t \in Seq(Statement)
    BY Zenon DEF Outline
<1>2. PICK f : Annotates(f, want, s) /\ f[0] = p /\ f[Len(s)] = q
    BY Zenon DEF Outline
<1>3. PICK g : Annotates(g, want, t) /\ g[0] = q /\ g[Len(t)] = r
    BY Zenon DEF Outline
<1> DEFINE m == Len(s)
           n == Len(t)
           h == [i \in 0 .. m + n |-> IF i <= m THEN f[i] ELSE g[i - m]]
<1>4. m \in Nat /\ n \in Nat
    BY <1>1, LenProperties
<1>5. /\ s \o t \in Seq(Statement) /\ Len(s \o t) = m + n
      /\ \A i \in 1 .. m + n : (s \o t)[i] = IF i <= m THEN s[i] ELSE t[i - m]
    BY <1>1, ConcatProperties
<1>6. f \in [0 .. m -> Phase] /\ g \in [0 .. n -> Phase]
    BY <1>2, <1>3, Zenon DEF Annotates
<1>7. h \in [0 .. m + n -> Phase] /\ h[0] = p /\ h[m + n] = r
    <2>1. ASSUME NEW i \in 0 .. m + n
          PROVE  (IF i <= m THEN f[i] ELSE g[i - m]) \in Phase
        <3>1. CASE i <= m
            BY <3>1, <1>4, <1>6
        <3>2. CASE i > m
            <4>1. i - m \in 0 .. n /\ ~(i <= m)
                BY <3>2, <1>4
            <4> QED
                BY <4>1, <1>6
        <3> QED
            BY <3>1, <3>2, <1>4
    <2>2. h[0] = p
        BY <1>2, <1>4
    <2>3. h[m + n] = r
        <3>1. CASE n = 0
            BY <3>1, <1>2, <1>3, <1>4
        <3>2. CASE n > 0
            BY <3>2, <1>3, <1>4
        <3> QED
            BY <3>1, <3>2, <1>4
    <2> QED
        BY <2>1, <2>2, <2>3
<1>8. ASSUME NEW i \in 1 .. m + n
      PROVE  Rule(want, h[i - 1], (s \o t)[i], h[i])
    <2>1. CASE i <= m
        <3>1. h[i - 1] = f[i - 1] /\ h[i] = f[i] /\ (s \o t)[i] = s[i] /\ i \in 1 .. m
            BY <2>1, <1>4, <1>5
        <3> QED
            BY <3>1, <1>2, Zenon DEF Annotates
    <2>2. CASE i > m
        <3>1. h[i - 1] = g[i - m - 1]
            <4>1. CASE i = m + 1
                BY <4>1, <2>2, <1>2, <1>3, <1>4
            <4>2. CASE i # m + 1
                BY <4>2, <2>2, <1>4
            <4> QED
                BY <4>1, <4>2
        <3>3. h[i] = g[i - m] /\ (s \o t)[i] = t[i - m]
            BY <2>2, <1>4, <1>5
        <3>2. i - m \in 1 .. n
            BY <2>2, <1>4
        <3> HIDE DEF h
        <3> QED
            BY <3>1, <3>2, <3>3, <1>3, RuleAt, Zenon
    <2> QED
        BY <2>1, <2>2, <1>4
<1> HIDE DEF h
<1>9. Annotates(h, want, s \o t)
    BY <1>5, <1>7, <1>8, Zenon DEF Annotates
<1>10. h[Len(s \o t)] = r /\ h[0] = p
    BY <1>5, <1>7
<1> QED
    BY <1>5, <1>9, <1>10, Zenon DEF Outline

LEMMA OutlineTail ==
    ASSUME NEW want, NEW s, NEW p, NEW q,
           Outline(want, s, p, q), s # <<>>
    PROVE  /\ Head(s) \in Statement
           /\ \E r \in Phase : Rule(want, p, Head(s), r) /\ Outline(want, Tail(s), r, q)
<1>1. s \in Seq(Statement)
    BY Zenon DEF Outline
<1>2. PICK f : Annotates(f, want, s) /\ f[0] = p /\ f[Len(s)] = q
    BY Zenon DEF Outline
<1> DEFINE n == Len(s)
           h == [i \in 0 .. n - 1 |-> f[i + 1]]
<1>3. n \in Nat /\ n >= 1 /\ Head(s) = s[1] /\ Head(s) \in Statement
    BY <1>1, EmptySeq, LenProperties, ElementOfSeq
<1>4. /\ Tail(s) \in Seq(Statement) /\ Len(Tail(s)) = n - 1
      /\ \A i \in 1 .. n - 1 : Tail(s)[i] = s[i + 1]
    BY <1>1, <1>3
<1>5. f \in [0 .. n -> Phase]
    BY <1>2, Zenon DEF Annotates
<1>6. h \in [0 .. n - 1 -> Phase] /\ h[0] = f[1] /\ h[n - 1] = q /\ f[1] \in Phase
    BY <1>2, <1>3, <1>5
<1>7. Rule(want, p, Head(s), f[1])
    <2>1. 1 \in 1 .. n /\ 1 - 1 = 0
        BY <1>3
    <2>2. Rule(want, f[1 - 1], s[1], f[1])
        BY <2>1, <1>2, Zenon DEF Annotates
    <2> QED
        BY <2>1, <2>2, <1>2, <1>3, Zenon
<1>8. ASSUME NEW i \in 1 .. n - 1
      PROVE  Rule(want, h[i - 1], Tail(s)[i], h[i])
    <2>1. i + 1 \in 1 .. n /\ i + 1 - 1 = i
        BY <1>3
    <2>2. Rule(want, f[i], s[i + 1], f[i + 1])
        BY <2>1, <1>2, RuleAt
    <2>3. h[i - 1] = f[i] /\ h[i] = f[i + 1] /\ Tail(s)[i] = s[i + 1]
        BY <1>3, <1>4
    <2> HIDE DEF h
    <2> QED
        BY <2>1, <2>2, <2>3, Zenon
<1> HIDE DEF h
<1>9. Annotates(h, want, Tail(s)) /\ h[Len(Tail(s))] = q
    BY <1>4, <1>6, <1>8, Zenon DEF Annotates
<1>10. Outline(want, Tail(s), f[1], q)
    BY <1>4, <1>6, <1>9, Zenon DEF Outline
<1> QED
    BY <1>3, <1>6, <1>7, <1>10

LEMMA OutlineTwo ==
    ASSUME NEW want,
           NEW a \in Statement, NEW b \in Statement,
           NEW p0 \in Phase, NEW p1 \in Phase, NEW p2 \in Phase,
           Rule(want, p0, a, p1), Rule(want, p1, b, p2)
    PROVE  Outline(want, <<a, b>>, p0, p2)
<1> DEFINE s == <<a, b>>
           ann == [i \in 0 .. 2 |-> IF i = 0 THEN p0 ELSE IF i = 1 THEN p1 ELSE p2]
<1>1. s \in Seq(Statement) /\ Len(s) = 2
    OBVIOUS
<1>2. s[1] = a /\ s[2] = b
    OBVIOUS
<1>3. ann \in [0 .. 2 -> Phase]
    OBVIOUS
<1>4. ann[0] = p0 /\ ann[1] = p1 /\ ann[2] = p2
    OBVIOUS
<1> HIDE DEF s, ann
<1>5. ASSUME NEW i \in 1 .. 2
      PROVE  Rule(want, ann[i - 1], s[i], ann[i])
    <2>1. (i = 1 /\ i - 1 = 0) \/ (i = 2 /\ i - 1 = 1)
        OBVIOUS
    <2> QED
        BY <2>1, <1>2, <1>4, Zenon
<1>6. Annotates(ann, want, s)
    BY <1>1, <1>3, <1>5, Zenon DEF Annotates
<1>7. Outline(want, s, p0, p2)
    BY <1>1, <1>4, <1>6, Zenon DEF Outline
<1> QED
    BY <1>7 DEF s

LEMMA OutlineThree ==
    ASSUME NEW want,
           NEW a \in Statement, NEW b \in Statement, NEW c \in Statement,
           NEW p0 \in Phase, NEW p1 \in Phase, NEW p2 \in Phase, NEW p3 \in Phase,
           Rule(want, p0, a, p1), Rule(want, p1, b, p2), Rule(want, p2, c, p3)
    PROVE  Outline(want, <<a, b, c>>, p0, p3)
<1> DEFINE s == <<a, b, c>>
           ann == [i \in 0 .. 3 |-> IF i = 0 THEN p0 ELSE IF i = 1 THEN p1 ELSE IF i = 2 THEN p2 ELSE p3]
<1>1. s \in Seq(Statement) /\ Len(s) = 3
    OBVIOUS
<1>2. s[1] = a /\ s[2] = b /\ s[3] = c
    OBVIOUS
<1>3. ann \in [0 .. 3 -> Phase]
    OBVIOUS
<1>4. ann[0] = p0 /\ ann[1] = p1 /\ ann[2] = p2 /\ ann[3] = p3
    OBVIOUS
<1> HIDE DEF s, ann
<1>5. ASSUME NEW i \in 1 .. 3
      PROVE  Rule(want, ann[i - 1], s[i], ann[i])
    <2>1. (i = 1 /\ i - 1 = 0) \/ (i = 2 /\ i - 1 = 1) \/ (i = 3 /\ i - 1 = 2)
        OBVIOUS
    <2> QED
        BY <2>1, <1>2, <1>4, Zenon
<1>6. Annotates(ann, want, s)
    BY <1>1, <1>3, <1>5, Zenon DEF Annotates
<1>7. Outline(want, s, p0, p3)
    BY <1>1, <1>4, <1>6, Zenon DEF Outline
<1> QED
    BY <1>7 DEF s

LEMMA OutlineFour ==
    ASSUME NEW want,
           NEW a \in Statement, NEW b \in Statement, NEW c \in Statement, NEW d \in Statement,
           NEW p0 \in Phase, NEW p1 \in Phase, NEW p2 \in Phase, NEW p3 \in Phase,
           NEW p4 \in Phase,
           Rule(want, p0, a, p1), Rule(want, p1, b, p2), Rule(want, p2, c, p3),
           Rule(want, p3, d, p4)
    PROVE  Outline(want, <<a, b, c, d>>, p0, p4)
<1> DEFINE s == <<a, b, c, d>>
           ann == [i \in 0 .. 4 |-> IF i = 0 THEN p0 ELSE IF i = 1 THEN p1 ELSE IF i = 2 THEN p2
                      ELSE IF i = 3 THEN p3 ELSE p4]
<1>1. s \in Seq(Statement) /\ Len(s) = 4
    OBVIOUS
<1>2. s[1] = a /\ s[2] = b /\ s[3] = c /\ s[4] = d
    OBVIOUS
<1>3. ann \in [0 .. 4 -> Phase]
    OBVIOUS
<1>4. ann[0] = p0 /\ ann[1] = p1 /\ ann[2] = p2 /\ ann[3] = p3 /\ ann[4] = p4
    OBVIOUS
<1> HIDE DEF s, ann
<1>5. ASSUME NEW i \in 1 .. 4
      PROVE  Rule(want, ann[i - 1], s[i], ann[i])
    <2>1. (i = 1 /\ i - 1 = 0) \/ (i = 2 /\ i - 1 = 1) \/ (i = 3 /\ i - 1 = 2)
          \/ (i = 4 /\ i - 1 = 3)
        OBVIOUS
    <2> QED
        BY <2>1, <1>2, <1>4, Zenon
<1>6. Annotates(ann, want, s)
    BY <1>1, <1>3, <1>5, Zenon DEF Annotates
<1>7. Outline(want, s, p0, p4)
    BY <1>1, <1>4, <1>6, Zenon DEF Outline
<1> QED
    BY <1>7 DEF s

LEMMA OutlineSix ==
    ASSUME NEW want,
           NEW a \in Statement, NEW b \in Statement, NEW c \in Statement, NEW d \in Statement,
           NEW e \in Statement, NEW f \in Statement,
           NEW p0 \in Phase, NEW p1 \in Phase, NEW p2 \in Phase, NEW p3 \in Phase,
           NEW p4 \in Phase, NEW p5 \in Phase, NEW p6 \in Phase,
           Rule(want, p0, a, p1), Rule(want, p1, b, p2), Rule(want, p2, c, p3),
           Rule(want, p3, d, p4), Rule(want, p4, e, p5), Rule(want, p5, f, p6)
    PROVE  Outline(want, <<a, b, c, d, e, f>>, p0, p6)
<1> DEFINE s == <<a, b, c, d, e, f>>
           ann == [i \in 0 .. 6 |-> IF i = 0 THEN p0 ELSE IF i = 1 THEN p1 ELSE IF i = 2 THEN p2
                      ELSE IF i = 3 THEN p3
                      ELSE IF i = 4 THEN p4 ELSE IF i = 5 THEN p5 ELSE p6]
<1>1. s \in Seq(Statement) /\ Len(s) = 6
    OBVIOUS
<1>2. s[1] = a /\ s[2] = b /\ s[3] = c /\ s[4] = d /\ s[5] = e
      /\ s[6] = f
    OBVIOUS
<1>3. ann \in [0 .. 6 -> Phase]
    OBVIOUS
<1>4. ann[0] = p0 /\ ann[1] = p1 /\ ann[2] = p2 /\ ann[3] = p3 /\ ann[4] = p4
      /\ ann[5] = p5 /\ ann[6] = p6
    OBVIOUS
<1> HIDE DEF s, ann
<1>5. ASSUME NEW i \in 1 .. 6
      PROVE  Rule(want, ann[i - 1], s[i], ann[i])
    <2>1. (i = 1 /\ i - 1 = 0) \/ (i = 2 /\ i - 1 = 1) \/ (i = 3 /\ i - 1 = 2)
          \/ (i = 4 /\ i - 1 = 3) \/ (i = 5 /\ i - 1 = 4) \/ (i = 6 /\ i - 1 = 5)
        OBVIOUS
    <2> QED
        BY <2>1, <1>2, <1>4, Zenon
<1>6. Annotates(ann, want, s)
    BY <1>1, <1>3, <1>5, Zenon DEF Annotates
<1>7. Outline(want, s, p0, p6)
    BY <1>1, <1>4, <1>6, Zenon DEF Outline
<1> QED
    BY <1>7 DEF s

LEMMA OutlineSeven ==
    ASSUME NEW want,
           NEW a \in Statement, NEW b \in Statement, NEW c \in Statement, NEW d \in Statement,
           NEW e \in Statement, NEW f \in Statement, NEW g \in Statement,
           NEW p0 \in Phase, NEW p1 \in Phase, NEW p2 \in Phase, NEW p3 \in Phase,
           NEW p4 \in Phase, NEW p5 \in Phase, NEW p6 \in Phase, NEW p7 \in Phase,
           Rule(want, p0, a, p1), Rule(want, p1, b, p2), Rule(want, p2, c, p3),
           Rule(want, p3, d, p4), Rule(want, p4, e, p5), Rule(want, p5, f, p6),
           Rule(want, p6, g, p7)
    PROVE  Outline(want, <<a, b, c, d, e, f, g>>, p0, p7)
<1> DEFINE s == <<a, b, c, d, e, f, g>>
           ann == [i \in 0 .. 7 |-> IF i = 0 THEN p0 ELSE IF i = 1 THEN p1 ELSE IF i = 2 THEN p2
                      ELSE IF i = 3 THEN p3
                      ELSE IF i = 4 THEN p4 ELSE IF i = 5 THEN p5 ELSE IF i = 6 THEN p6 ELSE p7]
<1>1. s \in Seq(Statement) /\ Len(s) = 7
    OBVIOUS
<1>2. s[1] = a /\ s[2] = b /\ s[3] = c /\ s[4] = d /\ s[5] = e
      /\ s[6] = f /\ s[7] = g
    OBVIOUS
<1>3. ann \in [0 .. 7 -> Phase]
    OBVIOUS
<1>4. ann[0] = p0 /\ ann[1] = p1 /\ ann[2] = p2 /\ ann[3] = p3 /\ ann[4] = p4
      /\ ann[5] = p5 /\ ann[6] = p6 /\ ann[7] = p7
    OBVIOUS
<1> HIDE DEF s, ann
<1>5. ASSUME NEW i \in 1 .. 7
      PROVE  Rule(want, ann[i - 1], s[i], ann[i])
    <2>1. (i = 1 /\ i - 1 = 0) \/ (i = 2 /\ i - 1 = 1) \/ (i = 3 /\ i - 1 = 2)
          \/ (i = 4 /\ i - 1 = 3) \/ (i = 5 /\ i - 1 = 4) \/ (i = 6 /\ i - 1 = 5)
          \/ (i = 7 /\ i - 1 = 6)
        OBVIOUS
    <2> QED
        BY <2>1, <1>2, <1>4, Zenon
<1>6. Annotates(ann, want, s)
    BY <1>1, <1>3, <1>5, Zenon DEF Annotates
<1>7. Outline(want, s, p0, p7)
    BY <1>1, <1>4, <1>6, Zenon DEF Outline
<1> QED
    BY <1>7 DEF s

-----------------------------------------------------------------------------
(* The outlines of the parts that scripts are made of.                     *)

LEMMA Statements ==
    /\ \A op \in Ops : Do(op) \in Statement /\ Do(op).op = op
    /\ \A c \in Code \cup {"memory"} : /\ Load(c) \in Statement /\ Judge(c) \in Statement
                                       /\ Load(c).op = "load" /\ Load(c).code = c
                                       /\ Judge(c).op = "judge" /\ Judge(c).code = c
    /\ \A d \in Content : Put(d) \in Statement /\ Put(d).op = "buffer"
<1>1. "USER" \in Code \cup {"memory"} /\ "zero" \in Content /\ 0 \in Block \cup {0}
    BY DEF Code, Content
<1>2. ASSUME NEW op \in Ops
      PROVE  Do(op) \in Statement /\ Do(op).op = op
    BY <1>1 DEF Statement, Do
<1>3. ASSUME NEW c \in Code \cup {"memory"}
      PROVE  /\ Load(c) \in Statement /\ Judge(c) \in Statement
             /\ Load(c).op = "load" /\ Load(c).code = c
             /\ Judge(c).op = "judge" /\ Judge(c).code = c
    <2> DEFINE l == [op |-> "load", code |-> c, at |-> 0, data |-> "zero"]
               j == [op |-> "judge", code |-> c, at |-> 0, data |-> "zero"]
    <2>1. Load(c) = l /\ Judge(c) = j
        BY DEF Load, Judge, Do
    <2>2. l \in Statement /\ j \in Statement
        BY <1>1 DEF Statement, Ops
    <2> QED
        BY <2>1, <2>2
<1>4. ASSUME NEW d \in Content
      PROVE  Put(d) \in Statement /\ Put(d).op = "buffer"
    <2> DEFINE b == [op |-> "buffer", code |-> "USER", at |-> 0, data |-> d]
    <2>1. Put(d) = b
        BY DEF Put, Do
    <2>2. b \in Statement
        BY <1>1 DEF Statement, Ops
    <2> QED
        BY <2>1, <2>2
<1> QED
    BY <1>2, <1>3, <1>4, Zenon

LEMMA Phases ==
    /\ \A k \in Kinds, p \in Phase :
        /\ As(k, p) \in Phase /\ As(k, p).k = k /\ As(k, p).code = p.code
        /\ As(k, p).at = p.at /\ As(k, p).data = p.data /\ As(k, p).has = p.has
        /\ Forgetting(k, p) \in Phase /\ Forgetting(k, p).k = k
        /\ Forgetting(k, p).code = "none" /\ Forgetting(k, p).has = p.has
    /\ \A k \in Kinds : Bare(k) \in Phase /\ Bare(k).k = k /\ Bare(k).code = "none"
    /\ \A p \in Phase : p.at \in Block => Ran(p) \in Phase
    /\ \A p \in Phase : p.code # "COPY_OUT" => Ran(p) \in Phase
    /\ \A p \in Phase : Ran(p).k = "quiet"
BY DEF Phase, As, Bare, Forgetting, Known, Nothing, Ran, Content, Kinds

\* A run that is waited for.
LEMMA TimedRunOutline ==
    ASSUME NEW want, NEW p \in Phase, p.k = "quiet", p.code # "none",
           \/ want = "none"
           \/ p.code \in Ending
           \/ p.code = "memory" /\ p.has = [b \in Block |-> want],
           p.code = "COPY_OUT" => p.at \in Block /\ p.has[p.at] = "unknown"
    PROVE  Outline(want, TimedRun(p.code), p, Ran(p))
<1> DEFINE set  == As("set", p)
           run  == As("run", p)
           over == As("over", Ran(p))
           a == Do("stopped")
           b == Do("setup")
           c == Do("release")
           d == Do("await")
           e == Judge(p.code)
           f == Do("hold")
<1>1. /\ a \in Statement /\ b \in Statement /\ c \in Statement
      /\ d \in Statement /\ e \in Statement /\ f \in Statement
      /\ a.op = "stopped" /\ b.op = "setup" /\ c.op = "release" /\ d.op = "await"
      /\ e.op = "judge" /\ e.code = p.code /\ f.op = "hold"
    <2>1. p.code \in Code \cup {"memory"}
        BY DEF Phase, Code, Ending
    <2>2. Do("stopped") \in Statement /\ Do("setup") \in Statement /\ Do("release") \in Statement
          /\ Do("await") \in Statement /\ Do("hold") \in Statement
        BY Statements DEF Ops
    <2> QED
        BY <2>1, <2>2, Statements DEF Ops
<1>2. /\ set \in Phase /\ set.k = "set" /\ set.code = p.code /\ set.at = p.at /\ set.has = p.has
      /\ run \in Phase /\ run.k = "run" /\ run.code = p.code
      /\ Ran(p) \in Phase /\ over \in Phase /\ over.k = "over"
    BY Phases DEF Kinds
<1>3. run = As("run", set) /\ over = As("over", Ran(run)) /\ Ran(p) = As("quiet", over)
    BY DEF As, Known, Ran, Bare
<1> HIDE DEF a, b, c, d, e, f, set, run, over
<1>4. Rule(want, p, a, p) /\ Rule(want, p, b, set) /\ Rule(want, set, c, run)
    <2>1. Rule(want, p, a, p)
        BY <1>1 DEF Rule, RunRule
    <2>2. Rule(want, p, b, set)
        BY <1>1 DEF Rule, RunRule, set
    <2>3. Rule(want, set, c, run)
        BY <1>1, <1>2, <1>3 DEF Rule, RunRule
    <2> QED
        BY <2>1, <2>2, <2>3
<1>5. Rule(want, run, d, run) /\ Rule(want, run, e, over) /\ Rule(want, over, f, Ran(p))
    <2>1. Rule(want, run, d, run)
        BY <1>1 DEF Rule, OtherRule
    <2>2. Rule(want, run, e, over)
        BY <1>1, <1>2, <1>3 DEF Rule, RunRule
    <2>3. Rule(want, over, f, Ran(p))
        BY <1>1, <1>2, <1>3 DEF Rule, RunRule
    <2> QED
        BY <2>1, <2>2, <2>3
<1>6. Outline(want, <<a, b, c, d, e, f>>, p, Ran(p))
    BY <1>1, <1>2, <1>4, <1>5, OutlineSix, Zenon
<1> QED
    BY <1>6 DEF TimedRun, a, b, c, d, e, f

\* The block of p copied to b: what is known then.
Copied(p, b, d) == Known("quiet", "COPY_OUT", b, d, [p.has EXCEPT ![b] = d])

LEMMA MovedOutline ==
    ASSUME NEW want, NEW p \in Phase, p.k = "quiet",
           NEW c \in {"COPY_OUT", "COPY_IN"}, p.code = c, NEW b \in Block, NEW d \in Content
    PROVE  /\ \E q \in Phase : q.k = "quiet" /\ Outline(want, Moved(c, b, d), p, q)
           /\ c = "COPY_OUT" => /\ Copied(p, b, d) \in Phase
                                /\ Outline(want, Moved(c, b, d), p, Copied(p, b, d))
<1> DEFINE st == [op |-> "operands", code |-> c, at |-> b, data |-> d]
           r  == Known("quiet", c, b, d, [p.has EXCEPT ![b] = "unknown"])
<1>1. st \in Statement
    BY DEF Statement, Ops, Code
<1>2. r \in Phase
    BY DEF Phase, Known, Ending, Content, Kinds
<1>3. r.k = "quiet" /\ r.code = c /\ r.at = b /\ r.has[b] = "unknown"
    BY DEF Known, Phase
<1>4. Rule(want, p, st, r)
    BY DEF Rule, LoadRule
<1>5. Ran(r) \in Phase /\ Ran(r).k = "quiet"
    BY <1>2, <1>3, Phases
<1>6. Outline(want, <<st>>, p, r)
    BY <1>1, <1>2, <1>4, OutlineOne
<1>7. Outline(want, TimedRun(c), r, Ran(r))
    <2>1. r.code # "none" /\ r.code \in Ending
        BY <1>3 DEF Ending
    <2> HIDE DEF r
    <2> QED
        BY <2>1, <1>2, <1>3, TimedRunOutline
<1>8. Outline(want, Moved(c, b, d), p, Ran(r))
    BY <1>6, <1>7, OutlineConcat, Zenon DEF Moved
<1>9. c = "COPY_OUT" => Ran(r) = Copied(p, b, d)
    <2>1. [[p.has EXCEPT ![b] = "unknown"] EXCEPT ![b] = d] = [p.has EXCEPT ![b] = d]
        BY DEF Phase
    <2> QED
        BY <2>1 DEF Ran, Known, Copied
<1> QED
    BY <1>5, <1>8, <1>9

LEMMA LoadOutline ==
    ASSUME NEW want, NEW p \in Phase, p.k = "quiet", NEW c \in Ending
    PROVE  /\ Known("quiet", c, 0, "zero", p.has) \in Phase
           /\ Outline(want, <<Load(c)>>, p, Known("quiet", c, 0, "zero", p.has))
<1>1. Known("quiet", c, 0, "zero", p.has) \in Phase
    BY DEF Phase, Known, Kinds, Content
<1>2. Load(c) \in Statement /\ Load(c).op = "load" /\ Load(c).code = c
    BY Statements DEF Ending, Code
<1>3. Rule(want, p, Load(c), Known("quiet", c, 0, "zero", p.has))
    BY <1>2 DEF Rule, LoadRule, Ending, Code
<1> QED
    BY <1>1, <1>2, <1>3, OutlineOne

LEMMA CopyOutOutline ==
    ASSUME NEW want, NEW p \in Phase, p.k = "quiet", NEW b \in Block, NEW d \in Content
    PROVE  /\ Copied(p, b, d) \in Phase
           /\ Outline(want, CopyOut(b, d), p, Copied(p, b, d))
<1> DEFINE r == Known("quiet", "COPY_OUT", 0, "zero", p.has)
<1>1. r \in Phase /\ Outline(want, <<Load("COPY_OUT")>>, p, r)
    BY LoadOutline DEF Ending
<1>2. r.k = "quiet" /\ r.code = "COPY_OUT" /\ Copied(r, b, d) = Copied(p, b, d)
    BY DEF Known, Copied
<1> HIDE DEF r
<1>3. Copied(r, b, d) \in Phase /\ Outline(want, Moved("COPY_OUT", b, d), r, Copied(r, b, d))
    BY <1>1, <1>2, MovedOutline
<1> QED
    BY <1>1, <1>2, <1>3, OutlineConcat, Zenon DEF CopyOut

LEMMA CopyInOutline ==
    ASSUME NEW want, NEW p \in Phase, p.k = "quiet", NEW b \in Block
    PROVE  \E q \in Phase : q.k = "quiet" /\ Outline(want, CopyIn(b), p, q)
<1> DEFINE r == Known("quiet", "COPY_IN", 0, "zero", p.has)
<1>1. r \in Phase /\ Outline(want, <<Load("COPY_IN")>>, p, r)
    BY LoadOutline DEF Ending
<1>2. r.k = "quiet" /\ r.code = "COPY_IN" /\ "zero" \in Content
    BY DEF Known, Content
<1> HIDE DEF r
<1>3. PICK q \in Phase : q.k = "quiet" /\ Outline(want, Moved("COPY_IN", b, "zero"), r, q)
    BY <1>1, <1>2, MovedOutline
<1> QED
    BY <1>1, <1>3, OutlineConcat, Zenon DEF CopyIn

LEMMA SimpleOutline ==
    ASSUME NEW want, NEW p \in Phase, p.k = "quiet", NEW c \in Ending \ {"COPY_OUT"}
    PROVE  \E q \in Phase : q.k = "quiet" /\ Outline(want, Simple(c), p, q)
<1> DEFINE r == Known("quiet", c, 0, "zero", p.has)
<1>1. r \in Phase /\ Outline(want, <<Load(c)>>, p, r)
    BY LoadOutline
<1>2. r.k = "quiet" /\ r.code = c /\ r.code # "none" /\ r.code # "COPY_OUT" /\ r.code \in Ending
    BY DEF Known, Ending
<1> HIDE DEF r
<1>3. Outline(want, TimedRun(c), r, Ran(r))
    BY <1>1, <1>2, TimedRunOutline
<1>4. Ran(r) \in Phase /\ Ran(r).k = "quiet"
    BY <1>1, <1>2, Phases
<1> QED
    BY <1>1, <1>3, <1>4, OutlineConcat, Zenon DEF Simple

\* A run that is not waited for, after a statement that found the guest stopped.
LEMMA BeginOutline ==
    ASSUME NEW want, NEW p \in Phase, p.k = "quiet",
           want = "none" \/ (p.code = "memory" /\ p.has = [b \in Block |-> want])
    PROVE  Outline(want, Begin, p, Bare("any"))
<1> DEFINE set == As("set", p)
           any == Bare("any")
           a == Do("stopped")
           b == Do("setup")
           c == Do("release")
<1>1. /\ a \in Statement /\ b \in Statement /\ c \in Statement
      /\ a.op = "stopped" /\ b.op = "setup" /\ c.op = "release"
    BY Statements DEF Ops
<1>2. set \in Phase /\ set.k = "set" /\ set.code = p.code /\ set.has = p.has /\ any \in Phase
    BY Phases DEF Kinds
<1> HIDE DEF a, b, c
<1>3. Rule(want, p, a, p) /\ Rule(want, p, b, set)
    BY <1>1 DEF Rule, RunRule
<1> HIDE DEF set
<1>4. Rule(want, set, c, any)
    BY <1>1, <1>2 DEF Rule, RunRule
<1> HIDE DEF any
<1>5. Outline(want, <<a, b, c>>, p, any)
    BY <1>1, <1>2, <1>3, <1>4, OutlineThree, Zenon
<1> QED
    BY <1>5 DEF Begin, a, b, c, any

\* start() as a command's first check.
LEMMA StartedOutline ==
    ASSUME NEW p \in Phase, p.k \in {"ready", "quiet"}
    PROVE  Outline("none", Started, p, Bare("any"))
<1> DEFINE quiet == Bare("quiet")
           set == As("set", quiet)
           any == Bare("any")
           a == Do("check")
           b == Do("setup")
           c == Do("release")
<1>1. /\ a \in Statement /\ b \in Statement /\ c \in Statement
      /\ a.op = "check" /\ b.op = "setup" /\ c.op = "release"
    BY Statements DEF Ops
<1>2. quiet \in Phase /\ quiet.k = "quiet" /\ set \in Phase /\ set.k = "set" /\ any \in Phase
    BY Phases DEF Kinds
<1> HIDE DEF a, b, c
<1>3. Rule("none", p, a, quiet) /\ Rule("none", quiet, b, set) /\ Rule("none", set, c, any)
    <2>1. Rule("none", p, a, quiet)
        BY <1>1 DEF Rule, RunRule
    <2> HIDE DEF quiet
    <2>2. Rule("none", quiet, b, set)
        BY <1>1, <1>2 DEF Rule, RunRule
    <2> HIDE DEF set
    <2>3. Rule("none", set, c, any)
        BY <1>1, <1>2 DEF Rule, RunRule
    <2> QED
        BY <2>1, <2>2, <2>3
<1> HIDE DEF quiet, set, any
<1>4. Outline("none", <<a, b, c>>, p, any)
    BY <1>1, <1>2, <1>3, OutlineThree, Zenon
<1> QED
    BY <1>4 DEF Started, a, b, c, any

LEMMA StopOutline ==
    ASSUME NEW want, NEW p \in Phase
    PROVE  Outline(want, Stop, p, Bare("quiet"))
<1> DEFINE over == Bare("over")
           quiet == Bare("quiet")
           a == Do("assert")
           b == Do("hold")
<1>1. a \in Statement /\ b \in Statement /\ a.op = "assert" /\ b.op = "hold"
    BY Statements DEF Ops
<1>2. over \in Phase /\ quiet \in Phase /\ over.k = "over"
    BY Phases DEF Kinds
<1>3. quiet = As("quiet", over)
    BY DEF As, Bare, Known
<1> HIDE DEF a, b
<1>4. Rule(want, p, a, over)
    BY <1>1 DEF Rule, RunRule
<1> HIDE DEF over, quiet
<1>5. Rule(want, over, b, quiet)
    BY <1>1, <1>2, <1>3 DEF Rule, RunRule
<1>6. Outline(want, <<a, b>>, p, quiet)
    BY <1>1, <1>2, <1>4, <1>5, OutlineTwo, Zenon
<1> QED
    BY <1>6 DEF Stop, a, b, quiet

\* Statements that change nothing any phase speaks of.
Idle == {"await", "signal", "halt", "go_on", "line_on", "line_off", "catch"}
LEMMA IdleOutline ==
    ASSUME NEW want, NEW p \in Phase, NEW x \in Idle
    PROVE  Do(x) \in Statement /\ Rule(want, p, Do(x), p) /\ Outline(want, <<Do(x)>>, p, p)
<1>1. Do(x) \in Statement /\ Do(x).op = x
    BY Statements DEF Ops, Idle
<1>2. Rule(want, p, Do(x), p)
    BY <1>1 DEF Rule, OtherRule, Idle
<1> QED
    BY <1>1, <1>2, OutlineOne

LEMMA CheckedOutline ==
    ASSUME NEW want, NEW p \in Phase, p.k \in {"ready", "quiet"}
    PROVE  Outline(want, Checked, p, Bare("quiet"))
<1>1. Do("check") \in Statement /\ Do("check").op = "check" /\ Bare("quiet") \in Phase
    BY Statements, Phases DEF Ops, Kinds
<1>2. Rule(want, p, Do("check"), Bare("quiet"))
    BY <1>1 DEF Rule, RunRule
<1> QED
    BY <1>1, <1>2, OutlineOne DEF Checked

Data == {"boot", "chunk"}
LEMMA Constants ==
    Low \in Block /\ High \in Block /\ Data \subseteq Content /\ {"zero", "data"} \subseteq Content
BY ConsoleAssumption DEF Content, Data

\* An image in memory, and the vector that leads to it.
InMemory(d) == Known("quiet", "memory", 0, "zero", [b \in Block |-> d])

LEMMA ToChunkOutline ==
    ASSUME NEW want, NEW d \in Data,
           NEW p \in Phase, p.k = "quiet", p.code = "COPY_OUT", p.has = [b \in Block |-> d]
    PROVE  /\ Outline(want, ToChunk, p, InMemory(d))
           /\ InMemory(d) \in Phase /\ InMemory(d).k = "quiet" /\ InMemory(d).code = "memory"
           /\ InMemory(d).has = [b \in Block |-> d]
<1>1. InMemory(d) \in Phase
    BY Constants DEF InMemory, Known, Phase, Kinds, Content
<1>2. InMemory(d).k = "quiet" /\ InMemory(d).code = "memory" /\ InMemory(d).has = [b \in Block |-> d]
    BY DEF InMemory, Known
<1>3. Do("reset_vector") \in Statement /\ Do("reset_vector").op = "reset_vector"
    BY Statements DEF Ops
<1>4. InMemory(d) = Known("quiet", "memory", 0, "zero", p.has)
    BY DEF InMemory
<1>5. Rule(want, p, Do("reset_vector"), InMemory(d))
    BY <1>3, <1>4 DEF Rule, LoadRule
<1> QED
    BY <1>1, <1>2, <1>3, <1>5, OutlineOne DEF ToChunk

LEMMA LoadImageOutline ==
    ASSUME NEW want, NEW p \in Phase, p.k = "quiet", NEW d \in Data
    PROVE  \E q \in Phase :
              /\ q.k = "quiet" /\ q.code = "COPY_OUT" /\ q.has = [b \in Block |-> d]
              /\ Outline(want, LoadImage(d), p, q)
<1> DEFINE r == Copied(p, Low, d)
           q == Copied(r, High, d)
<1>1. d \in Content /\ Low \in Block /\ High \in Block
    BY Constants
<1>2. r \in Phase /\ Outline(want, CopyOut(Low, d), p, r)
    BY <1>1, CopyOutOutline
<1>3. r.k = "quiet" /\ r.code = "COPY_OUT" /\ r.has = [p.has EXCEPT ![Low] = d]
    BY DEF Copied, Known
<1>4. /\ q.k = "quiet" /\ q.code = "COPY_OUT"
      /\ q.has = [[p.has EXCEPT ![Low] = d] EXCEPT ![High] = d]
    BY DEF Copied, Known
<1> HIDE DEF r
<1>5. q \in Phase /\ Outline(want, Moved("COPY_OUT", High, d), r, q)
    BY <1>1, <1>2, <1>3, MovedOutline
<1>6. Outline(want, LoadImage(d), p, q)
    BY <1>2, <1>5, OutlineConcat, Zenon DEF LoadImage
<1> HIDE DEF q
<1>7. q.has = [b \in Block |-> d]
    <2>1. Block = {Low, High} /\ p.has \in [Block -> Content \cup {"unknown"}]
        BY ConsoleAssumption DEF Phase
    <2> QED
        BY <2>1, <1>4
<1> QED
    BY <1>4, <1>5, <1>6, <1>7

-----------------------------------------------------------------------------
(* Every command has an outline.                                           *)

Outlinable(want, s, p) == \E q \in Phase : Outline(want, s, p, q)

LEMMA Starts ==
    /\ Bare("ready") \in Phase /\ Bare("ready").k = "ready"
    /\ Bare("any") \in Phase /\ Bare("any").k = "any"
    /\ Bare("quiet") \in Phase /\ Bare("quiet").k = "quiet"
BY Phases DEF Kinds

\* Commands that check first, and then copy or wait for a run.
LEMMA WaitingOutlines ==
    ASSUME NEW want
    PROVE  /\ Outlinable(want, EXAMINE, Bare("ready"))
           /\ Outlinable(want, MODIFY, Bare("ready"))
           /\ Outlinable(want, FILL, Bare("ready"))
           /\ Outlinable(want, RUN, Bare("ready"))
<1>1. Outline(want, Checked, Bare("ready"), Bare("quiet"))
    BY Starts, CheckedOutline
<1>2. Outlinable(want, EXAMINE, Bare("ready"))
    <2>1. PICK q \in Phase : q.k = "quiet" /\ Outline(want, CopyIn(Low), Bare("quiet"), q)
        BY Starts, Constants, CopyInOutline
    <2>2. PICK r \in Phase : r.k = "quiet" /\ Outline(want, CopyIn(High), q, r)
        BY <2>1, Constants, CopyInOutline
    <2>3. Outline(want, Checked \o CopyIn(Low), Bare("ready"), q)
        BY <1>1, <2>1, OutlineConcat, Zenon
    <2> QED
        BY <2>2, <2>3, OutlineConcat, Zenon DEF EXAMINE, Outlinable
<1>3. Outlinable(want, MODIFY, Bare("ready"))
    <2>1. /\ Copied(Bare("quiet"), High, "boot") \in Phase
          /\ Outline(want, CopyOut(High, "boot"), Bare("quiet"), Copied(Bare("quiet"), High, "boot"))
        BY Starts, Constants, CopyOutOutline DEF Data
    <2> QED
        BY <1>1, <2>1, OutlineConcat, Zenon DEF MODIFY, Outlinable
<1>4. Outlinable(want, FILL, Bare("ready"))
    <2>1. PICK q \in Phase : q.k = "quiet" /\ Outline(want, Simple("FILL"), Bare("quiet"), q)
        BY Starts, SimpleOutline DEF Ending
    <2> QED
        BY <1>1, <2>1, OutlineConcat, Zenon DEF FILL, Outlinable
<1>5. Outlinable(want, RUN, Bare("ready"))
    <2>1. PICK q \in Phase : q.k = "quiet" /\ Outline(want, Simple("DAT_INIT"), Bare("quiet"), q)
        BY Starts, SimpleOutline DEF Ending
    <2> QED
        BY <1>1, <2>1, OutlineConcat, Zenon DEF RUN, Outlinable
<1> QED
    BY <1>2, <1>3, <1>4, <1>5

\* Commands that start a guest without waiting for it, or stop it.
LEMMA StartingOutlines ==
    /\ Outlinable("none", GO, Bare("ready"))
    /\ Outlinable("none", SNIPPET, Bare("ready"))
    /\ Outlinable("none", GO_ADDR, Bare("ready"))
    /\ Outlinable("none", STOP, Bare("any"))
<1>1. Outline("none", Started, Bare("ready"), Bare("any"))
    BY Starts, StartedOutline
<1>2. Outlinable("none", SNIPPET, Bare("ready"))
    <2>1. Load("USER") \in Statement /\ Load("USER").op = "load" /\ Load("USER").code \in Code
        BY Statements DEF Code
    <2>2. Rule("none", Bare("ready"), Load("USER"), Bare("ready"))
        BY <2>1, Starts DEF Rule, LoadRule
    <2>3. Outline("none", <<Load("USER")>>, Bare("ready"), Bare("ready"))
        BY <2>1, <2>2, Starts, OutlineOne
    <2> QED
        BY <1>1, <2>3, Starts, OutlineConcat, Zenon DEF SNIPPET, Outlinable
<1>3. Outlinable("none", GO_ADDR, Bare("ready"))
    <2>1. Do("reset_vector") \in Statement /\ Do("reset_vector").op = "reset_vector"
        BY Statements DEF Ops
    <2>2. Rule("none", Bare("ready"), Do("reset_vector"), Bare("ready"))
        BY <2>1, Starts DEF Rule, LoadRule
    <2>3. Outline("none", <<Do("reset_vector")>>, Bare("ready"), Bare("ready"))
        BY <2>1, <2>2, Starts, OutlineOne
    <2> QED
        BY <1>1, <2>3, Starts, OutlineConcat, Zenon DEF GO_ADDR, Outlinable
<1>4. Outlinable("none", GO, Bare("ready"))
    BY <1>1, Starts, Zenon DEF GO, Outlinable
<1>5. Outlinable("none", STOP, Bare("any"))
    BY StopOutline, Starts, Zenon DEF STOP, Outlinable
<1> QED
    BY <1>2, <1>3, <1>4, <1>5

\* Commands that load an image and start the guest on it.
LEMMA LoadingOutlines ==
    /\ Outlinable("chunk", RUN_CHUNK, Bare("ready"))
    /\ Outlinable("chunk", RUN_NOWAIT, Bare("ready"))
    /\ Outlinable("boot", NITROS9, Bare("ready"))
<1>1. ASSUME NEW d \in Data
      PROVE  /\ InMemory(d) \in Phase
             /\ Outline(d, Begin, InMemory(d), Bare("any"))
             /\ Outline(d, TimedRun("memory"), InMemory(d), Bare("quiet"))
             /\ Outline(d, Checked \o LoadImage(d) \o ToChunk, Bare("ready"), InMemory(d))
    <2>1. PICK q \in Phase :
              /\ q.k = "quiet" /\ q.code = "COPY_OUT" /\ q.has = [b \in Block |-> d]
              /\ Outline(d, LoadImage(d), Bare("quiet"), q)
        BY Starts, LoadImageOutline
    <2>2. /\ Outline(d, ToChunk, q, InMemory(d))
          /\ InMemory(d) \in Phase /\ InMemory(d).k = "quiet" /\ InMemory(d).code = "memory"
          /\ InMemory(d).has = [b \in Block |-> d]
        BY <2>1, ToChunkOutline
    <2>3. Outline(d, Begin, InMemory(d), Bare("any"))
        BY <2>2, BeginOutline
    <2>4. Outline(d, TimedRun(InMemory(d).code), InMemory(d), Ran(InMemory(d)))
        BY <2>2, TimedRunOutline
    <2>5. Ran(InMemory(d)) = Bare("quiet")
        BY <2>2 DEF Ran
    <2>6. Outline(d, Checked \o LoadImage(d), Bare("ready"), q)
        BY <2>1, Starts, CheckedOutline, OutlineConcat, Zenon
    <2>7. Outline(d, Checked \o LoadImage(d) \o ToChunk, Bare("ready"), InMemory(d))
        BY <2>6, <2>2, OutlineConcat, Zenon
    <2> QED
        BY <2>2, <2>3, <2>4, <2>5, <2>7
<1>2. "chunk" \in Data /\ "boot" \in Data
    BY DEF Data
<1>3. Outlinable("chunk", RUN_CHUNK, Bare("ready"))
    BY <1>1, <1>2, Starts, OutlineConcat, Zenon DEF RUN_CHUNK, Outlinable
<1>4. Outlinable("chunk", RUN_NOWAIT, Bare("ready"))
    BY <1>1, <1>2, Starts, OutlineConcat, Zenon DEF RUN_NOWAIT, Outlinable
<1>5. Outlinable("boot", NITROS9, Bare("ready"))
    <2>1. Outline("boot", Checked, Bare("ready"), Bare("quiet"))
        BY Starts, CheckedOutline
    <2>2. PICK p \in Phase : p.k = "quiet" /\ Outline("boot", Simple("DAT_INIT"), Bare("quiet"), p)
        BY Starts, SimpleOutline DEF Ending
    <2> DEFINE q == Copied(p, High, "boot")
               r == Copied(q, Low, "boot")
               u == Copied(r, Low, "boot")
    <2>3. "boot" \in Content /\ Low \in Block /\ High \in Block
        BY Constants DEF Data
    <2>4. q \in Phase /\ Outline("boot", CopyOut(High, "boot"), p, q)
        BY <2>2, <2>3, CopyOutOutline
    <2>5. q.k = "quiet" /\ q.has = [p.has EXCEPT ![High] = "boot"]
        BY DEF Copied, Known
    <2>6. r.k = "quiet" /\ r.has = [q.has EXCEPT ![Low] = "boot"]
        BY DEF Copied, Known
    <2>7. u.k = "quiet" /\ u.code = "COPY_OUT" /\ u.has = [r.has EXCEPT ![Low] = "boot"]
        BY DEF Copied, Known
    <2> HIDE DEF q
    <2>8. r \in Phase /\ Outline("boot", CopyOut(Low, "boot"), q, r)
        BY <2>3, <2>4, <2>5, CopyOutOutline
    <2> HIDE DEF r
    <2>9. u \in Phase /\ Outline("boot", CopyOut(Low, "boot"), r, u)
        BY <2>3, <2>8, <2>6, CopyOutOutline
    <2> HIDE DEF u
    <2>10. u.has = [b \in Block |-> "boot"]
        <3>1. Block = {Low, High} /\ p.has \in [Block -> Content \cup {"unknown"}]
            BY ConsoleAssumption DEF Phase
        <3> QED
            BY <3>1, <2>5, <2>6, <2>7
    <2>11. Outline("boot", ToChunk, u, InMemory("boot"))
        BY <2>7, <2>9, <2>10, <1>2, ToChunkOutline
    <2>12. Outline("boot", Checked \o Simple("DAT_INIT"), Bare("ready"), p)
        BY <2>1, <2>2, OutlineConcat, Zenon
    <2>13. Outline("boot", Checked \o Simple("DAT_INIT") \o CopyOut(High, "boot"), Bare("ready"), q)
        BY <2>12, <2>4, OutlineConcat, Zenon
    <2>14. Outline("boot", Checked \o Simple("DAT_INIT") \o CopyOut(High, "boot")
                           \o CopyOut(Low, "boot"), Bare("ready"), r)
        BY <2>13, <2>8, OutlineConcat, Zenon
    <2>15. Outline("boot", Checked \o Simple("DAT_INIT") \o CopyOut(High, "boot")
                           \o CopyOut(Low, "boot") \o CopyOut(Low, "boot"), Bare("ready"), u)
        BY <2>14, <2>9, OutlineConcat, Zenon
    <2>16. Outline("boot", Checked \o Simple("DAT_INIT") \o CopyOut(High, "boot")
                           \o CopyOut(Low, "boot") \o CopyOut(Low, "boot") \o ToChunk,
                   Bare("ready"), InMemory("boot"))
        BY <2>15, <2>11, OutlineConcat, Zenon
    <2> QED
        BY <2>16, <1>1, <1>2, Starts, OutlineConcat, Zenon DEF NITROS9, Outlinable
<1> QED
    BY <1>3, <1>4, <1>5

\* The tests of IRQ.
LEMMA PreambleOutline ==
    \E p \in Phase : p.k = "quiet" /\ Outline("none", Preamble, Bare("ready"), p)
<1> DEFINE q == Bare("quiet")
           a == Put("zero")
           b == Do("vectors")
<1>1. a \in Statement /\ b \in Statement /\ a.op = "buffer" /\ b.op = "vectors"
    BY Statements, Constants DEF Ops
<1>2. q = Forgetting("quiet", q)
    BY DEF Forgetting, Bare, Known
<1>3. q \in Phase /\ q.k = "quiet"
    BY Starts
<1> HIDE DEF q, a, b
<1>4. Rule("none", q, a, q) /\ Rule("none", q, b, q)
    BY <1>1, <1>2, <1>3 DEF Rule, LoadRule
<1>5. Outline("none", <<a, b>>, q, q)
    BY <1>1, <1>3, <1>4, OutlineTwo, Zenon
<1>6. Outline("none", Checked, Bare("ready"), q)
    BY Starts, CheckedOutline DEF q
<1>7. Outline("none", Checked \o <<a, b>>, Bare("ready"), q)
    BY <1>5, <1>6, OutlineConcat, Zenon
<1>8. PICK p \in Phase : p.k = "quiet" /\ Outline("none", Simple("ZERO"), q, p)
    BY <1>3, SimpleOutline DEF Ending
<1>9. Outline("none", Checked \o <<a, b>> \o Simple("ZERO"), Bare("ready"), p)
    BY <1>7, <1>8, OutlineConcat, Zenon
<1> QED
    BY <1>8, <1>9, Zenon DEF Preamble, a, b

LEMMA SelfOutline ==
    ASSUME NEW p \in Phase, p.k = "quiet"
    PROVE  Outline("none", Self, p, Bare("quiet"))
<1>1. Outline("none", Begin, p, Bare("any"))
    BY BeginOutline
<1>2. Outline("none", <<Do("await")>>, Bare("any"), Bare("any"))
    BY Starts, IdleOutline DEF Idle
<1>3. Outline("none", Stop, Bare("any"), Bare("quiet"))
    BY Starts, StopOutline
<1>4. Outline("none", Begin \o <<Do("await")>>, p, Bare("any"))
    BY <1>1, <1>2, OutlineConcat, Zenon
<1> QED
    BY <1>3, <1>4, OutlineConcat, Zenon DEF Self

LEMMA TestOutlines ==
    /\ Outlinable("none", IRQ_STROBE, Bare("ready"))
    /\ Outlinable("none", IRQ_SWI, Bare("ready"))
    /\ Outlinable("none", IRQ_RTI, Bare("ready"))
    /\ Outlinable("none", IRQ_NMI, Bare("ready"))
<1>1. PICK p \in Phase : p.k = "quiet" /\ Outline("none", Preamble, Bare("ready"), p)
    BY PreambleOutline
<1>2. Outlinable("none", IRQ_STROBE, Bare("ready"))
    <2>1. Outline("none", <<Do("line_on"), Do("line_off")>>, p, p)
        BY IdleOutline, OutlineTwo DEF Idle
    <2> QED
        BY <1>1, <2>1, OutlineConcat, Zenon DEF IRQ_STROBE, Outlinable
<1>3. Outlinable("none", IRQ_SWI, Bare("ready"))
    <2> DEFINE q == Known("quiet", "SELF", 0, "zero", p.has)
    <2>1. q \in Phase /\ q.k = "quiet" /\ Outline("none", <<Load("SELF")>>, p, q)
        BY <1>1, LoadOutline DEF Ending, Known
    <2> HIDE DEF q
    <2>2. Outline("none", Preamble \o <<Load("SELF")>>, Bare("ready"), q)
        BY <1>1, <2>1, OutlineConcat, Zenon
    <2>3. Outline("none", Self, q, Bare("quiet"))
        BY <2>1, SelfOutline
    <2> QED
        BY <2>2, <2>3, Starts, OutlineConcat, Zenon DEF IRQ_SWI, Outlinable
<1>4. Outlinable("none", IRQ_RTI, Bare("ready"))
    <2> DEFINE q == Forgetting("quiet", p)
               r == Known("quiet", "SELF", 0, "zero", q.has)
    <2>1. q \in Phase /\ q.k = "quiet"
        BY Phases DEF Kinds
    <2>2. Put("data") \in Statement /\ Put("data").op = "buffer"
        BY Statements, Constants
    <2>3. Rule("none", p, Put("data"), q)
        BY <1>1, <2>2 DEF Rule, LoadRule
    <2> HIDE DEF q
    <2>4. /\ Load("SELF") \in Statement /\ Load("SELF").op = "load" /\ Load("SELF").code = "SELF"
        BY Statements DEF Code
    <2>5. r \in Phase /\ r.k = "quiet"
        BY <2>1, LoadOutline DEF Ending, Known
    <2>6. Rule("none", q, Load("SELF"), r)
        BY <2>1, <2>4 DEF Rule, LoadRule, Ending, Code
    <2> HIDE DEF r
    <2>7. Outline("none", <<Put("data"), Load("SELF")>>, p, r)
        BY <2>1, <2>2, <2>3, <2>4, <2>5, <2>6, OutlineTwo, Zenon
    <2>8. Outline("none", Self, r, Bare("quiet"))
        BY <2>5, SelfOutline
    <2>9. Outline("none", Preamble \o <<Put("data"), Load("SELF")>>, Bare("ready"), r)
        BY <1>1, <2>5, <2>7, OutlineConcat, Zenon
    <2> QED
        BY <2>8, <2>9, Starts, OutlineConcat, Zenon DEF IRQ_RTI, Outlinable
<1>5. Outlinable("none", IRQ_NMI, Bare("ready"))
    <2> DEFINE q == Forgetting("quiet", p)
    <2>1. q \in Phase /\ q.k = "quiet" /\ q = Forgetting("quiet", q) /\ q = Known("quiet", "none", 0, "zero", p.has)
        BY Phases DEF Kinds, Forgetting, Known
    <2> HIDE DEF q
    <2>2. /\ Load("TEST") \in Statement /\ Load("TEST").op = "load" /\ Load("TEST").code = "TEST"
          /\ Do("nmi_vector") \in Statement /\ Do("nmi_vector").op = "nmi_vector"
        BY Statements DEF Code, Ops
    <2>3. Rule("none", p, Load("TEST"), q) /\ Rule("none", q, Do("nmi_vector"), q)
        BY <1>1, <2>1, <2>2 DEF Rule, LoadRule, Ending, Code
    <2>4. Outline("none", <<Load("TEST"), Do("nmi_vector")>>, p, q)
        BY <2>1, <2>2, <2>3, OutlineTwo, Zenon
    <2>5. Outline("none", Begin, q, Bare("any"))
        BY <2>1, BeginOutline
    <2>6. Outline("none", <<Do("line_on"), Do("await")>>, Bare("any"), Bare("any"))
        BY Starts, IdleOutline, OutlineTwo DEF Idle
    <2>7. Outline("none", Stop, Bare("any"), Bare("quiet"))
        BY Starts, StopOutline
    <2>8. Outline("none", <<Do("line_off")>>, Bare("quiet"), Bare("quiet"))
        BY Starts, IdleOutline DEF Idle
    <2>9. Outline("none", Preamble \o <<Load("TEST"), Do("nmi_vector")>>, Bare("ready"), q)
        BY <1>1, <2>1, <2>4, OutlineConcat, Zenon
    <2>10. Outline("none", Preamble \o <<Load("TEST"), Do("nmi_vector")>> \o Begin,
                   Bare("ready"), Bare("any"))
        BY <2>5, <2>9, OutlineConcat, Zenon
    <2>11. Outline("none", Preamble \o <<Load("TEST"), Do("nmi_vector")>> \o Begin
                           \o <<Do("line_on"), Do("await")>>, Bare("ready"), Bare("any"))
        BY <2>6, <2>10, OutlineConcat, Zenon
    <2>12. Outline("none", Preamble \o <<Load("TEST"), Do("nmi_vector")>> \o Begin
                           \o <<Do("line_on"), Do("await")>> \o Stop, Bare("ready"), Bare("quiet"))
        BY <2>7, <2>11, OutlineConcat, Zenon
    <2> QED
        BY <2>8, <2>12, Starts, OutlineConcat, Zenon DEF IRQ_NMI, Outlinable
<1> QED
    BY <1>2, <1>3, <1>4, <1>5

LEMMA ChunkTestOutline == Outlinable("none", IRQ_CHUNK, Bare("ready"))
<1>1. PICK p \in Phase :
          /\ p.k = "quiet" /\ p.code = "COPY_OUT" /\ p.has = [b \in Block |-> "chunk"]
          /\ Outline("none", LoadImage("chunk"), Bare("quiet"), p)
    BY Starts, LoadImageOutline DEF Data
<1>2. /\ InMemory("chunk") \in Phase /\ InMemory("chunk").k = "quiet"
      /\ Outline("none", ToChunk, p, InMemory("chunk"))
    BY <1>1, ToChunkOutline DEF Data
<1>3. Outline("none", Begin, InMemory("chunk"), Bare("any"))
    BY <1>2, BeginOutline
<1>4. Outline("none", <<Do("signal"), Do("signal"), Do("line_on"), Do("line_off")>>,
              Bare("any"), Bare("any"))
    <2>1. Do("signal") \in Statement /\ Do("line_on") \in Statement /\ Do("line_off") \in Statement
        BY Starts, IdleOutline DEF Idle
    <2>2. /\ Rule("none", Bare("any"), Do("signal"), Bare("any"))
          /\ Rule("none", Bare("any"), Do("line_on"), Bare("any"))
          /\ Rule("none", Bare("any"), Do("line_off"), Bare("any"))
        BY Starts, IdleOutline DEF Idle
    <2> QED
        BY <2>1, <2>2, Starts, OutlineFour, Zenon
<1>5. Outline("none", Stop, Bare("any"), Bare("quiet"))
    BY Starts, StopOutline
<1>6. Outline("none", Begin, Bare("quiet"), Bare("any"))
    BY Starts, BeginOutline
<1>7. Outline("none", <<Do("signal")>>, Bare("any"), Bare("any"))
    BY Starts, IdleOutline DEF Idle
<1>8. Outline("none", Checked \o LoadImage("chunk"), Bare("ready"), p)
    BY <1>1, Starts, CheckedOutline, OutlineConcat, Zenon
<1>9. Outline("none", Checked \o LoadImage("chunk") \o ToChunk \o Begin, Bare("ready"), Bare("any"))
    BY <1>2, <1>3, <1>8, OutlineConcat, Zenon
<1> DEFINE s == Checked \o LoadImage("chunk") \o ToChunk \o Begin
           t == <<Do("signal"), Do("signal"), Do("line_on"), Do("line_off")>>
<1> HIDE DEF s, t
<1>10. Outline("none", s \o t \o Stop, Bare("ready"), Bare("quiet"))
    BY <1>4, <1>5, <1>9, OutlineConcat, Zenon DEF s, t
<1>11. Outline("none", s \o t \o Stop \o Begin \o <<Do("signal")>>, Bare("ready"), Bare("any"))
    BY <1>6, <1>7, <1>10, OutlineConcat, Zenon
<1> QED
    BY <1>5, <1>11, Starts, OutlineConcat, Zenon DEF IRQ_CHUNK, Outlinable, s, t

\* Single statements, BREAK, and the S-records.
LEMMA SingleOutlines ==
    ASSUME NEW x \in {"vectors", "clear", "halt", "go_on", "push", "reset_vector"}
    PROVE  Outlinable("none", <<Do(x)>>, Bare("any"))
<1>1. Do(x) \in Statement /\ Do(x).op = x
    BY Statements DEF Ops
<1>2. Rule("none", Bare("any"), Do(x), Bare("any"))
    <2>1. CASE x \in {"halt", "go_on"}
        BY <2>1, <1>1 DEF Rule, OtherRule
    <2>2. CASE x \notin {"halt", "go_on"}
        BY <2>2, <1>1 DEF Rule, LoadRule
    <2> QED
        BY <2>1, <2>2
<1> QED
    BY <1>1, <1>2, Starts, OutlineOne DEF Outlinable

LEMMA BreakOutline ==
    Outlinable("none", BREAK, Bare("any")) /\ Outlinable("none", <<Do("return")>>, Bare("active"))
<1> DEFINE any == Bare("any")
           brk == Bare("break")
           a == Load("BREAK")
           b == Put("zero")
           c == Do("nmi_vector")
           d == Do("line_on")
           e == Do("catch")
           f == Do("line_off")
           g == Do("active")
<1>1. any \in Phase /\ brk \in Phase /\ any.k = "any" /\ brk.k = "break"
    BY Phases DEF Kinds
<1>2. /\ a \in Statement /\ a.op = "load" /\ a.code = "BREAK"
      /\ b \in Statement /\ b.op = "buffer" /\ c \in Statement /\ c.op = "nmi_vector"
    BY Statements, Constants DEF Ops, Code
<1>3. /\ d \in Statement /\ d.op = "line_on" /\ e \in Statement /\ e.op = "catch"
      /\ f \in Statement /\ f.op = "line_off" /\ g \in Statement /\ g.op = "active"
    BY Statements DEF Ops
<1>4. brk = Bare("break") /\ any = Bare("any")
    OBVIOUS
<1> HIDE DEF any, brk, a, b, c, d, e, f, g
<1>5. Rule("none", any, a, brk) /\ Rule("none", brk, b, brk) /\ Rule("none", brk, c, brk)
    BY <1>1, <1>2, <1>4 DEF Rule, LoadRule, Code
<1>6. Rule("none", brk, d, brk) /\ Rule("none", brk, e, brk) /\ Rule("none", brk, f, brk)
    BY <1>3 DEF Rule, OtherRule
<1>7. Rule("none", brk, g, any)
    BY <1>1, <1>3, <1>4 DEF Rule, OtherRule
<1>8. Outline("none", <<a, b, c, d, e, f, g>>, any, any)
    BY <1>1, <1>2, <1>3, <1>5, <1>6, <1>7, OutlineSeven, Zenon
<1>9. Outline("none", <<>>, any, any)
    BY <1>1, OutlineNone
<1>10. Outlinable("none", BREAK, Bare("any"))
    BY <1>1, <1>8, <1>9, Zenon DEF BREAK, Outlinable, any, a, b, c, d, e, f, g
<1>11. Outlinable("none", <<Do("return")>>, Bare("active"))
    <2>1. Bare("active") \in Phase /\ Bare("active").k = "active"
        BY Phases DEF Kinds
    <2>2. Do("return") \in Statement /\ Do("return").op = "return"
        BY Statements DEF Ops
    <2>3. Rule("none", Bare("active"), Do("return"), any)
        BY <1>4, <2>1, <2>2 DEF Rule, OtherRule
    <2> QED
        BY <1>1, <2>1, <2>2, <2>3, OutlineOne DEF Outlinable
<1> QED
    BY <1>10, <1>11

LEMMA RecordOutline ==
    ASSUME NEW b \in Block
    PROVE  /\ Outlinable("none", <<>>, Bare("any")) /\ Outlinable("none", <<>>, Bare("ready"))
           /\ Outlinable("none", CopyOut(b, "boot"), Bare("quiet"))
<1>1. Copied(Bare("quiet"), b, "boot") \in Phase
      /\ Outline("none", CopyOut(b, "boot"), Bare("quiet"), Copied(Bare("quiet"), b, "boot"))
    BY Starts, Constants, CopyOutOutline DEF Data
<1> QED
    BY <1>1, Starts, OutlineNone DEF Outlinable

\* Where a command starts.
Ready(p) == \/ p = Bare("ready") \/ p = Bare("any")
            \/ p = Bare("quiet") /\ runState = "RESET"
            \/ p = Bare("active") /\ breakActive

LEMMA ScriptOutline ==
    ASSUME NEW c \in CommandNames
    PROVE  \E p \in Phase : Ready(p) /\ Outlinable(WantOf(c), Script(c), p)
<1> USE DEF Ready
<1>1. ASSUME NEW s, Outlinable(WantOf(c), s, Bare("ready")), Script(c) = s
      PROVE  \E p \in Phase : Ready(p) /\ Outlinable(WantOf(c), Script(c), p)
    BY <1>1, Starts, Zenon
<1>2. ASSUME NEW s, Outlinable(WantOf(c), s, Bare("any")), Script(c) = s
      PROVE  \E p \in Phase : Ready(p) /\ Outlinable(WantOf(c), Script(c), p)
    BY <1>2, Starts, Zenon
<1>3. ASSUME NEW s, runState = "RESET", Outlinable(WantOf(c), s, Bare("quiet")), Script(c) = s
      PROVE  \E p \in Phase : Ready(p) /\ Outlinable(WantOf(c), Script(c), p)
    BY <1>3, Starts, Zenon
<1>10. CASE c = "EXAMINE"
    <2>1. Script(c) = EXAMINE /\ WantOf(c) = "none"
        BY <1>10, Zenon DEF Script, WantOf
    <2> QED
        BY <2>1, WaitingOutlines, <1>1, Zenon
<1>11. CASE c = "MODIFY"
    <2>1. Script(c) = MODIFY /\ WantOf(c) = "none"
        BY <1>11, Zenon DEF Script, WantOf
    <2> QED
        BY <2>1, WaitingOutlines, <1>1, Zenon
<1>12. CASE c = "FILL"
    <2>1. Script(c) = FILL /\ WantOf(c) = "none"
        BY <1>12, Zenon DEF Script, WantOf
    <2> QED
        BY <2>1, WaitingOutlines, <1>1, Zenon
<1>13. CASE c = "SNIPPET"
    <2>1. Script(c) = SNIPPET /\ WantOf(c) = "none"
        BY <1>13, Zenon DEF Script, WantOf
    <2> QED
        BY <2>1, StartingOutlines, <1>1, Zenon
<1>14. CASE c = "GO"
    <2>1. Script(c) = GO /\ WantOf(c) = "none"
        BY <1>14, Zenon DEF Script, WantOf
    <2> QED
        BY <2>1, StartingOutlines, <1>1, Zenon
<1>15. CASE c = "GO_ADDR"
    <2>1. Script(c) = GO_ADDR /\ WantOf(c) = "none"
        BY <1>15, Zenon DEF Script, WantOf
    <2> QED
        BY <2>1, StartingOutlines, <1>1, Zenon
<1>16. CASE c = "STOP"
    <2>1. Script(c) = STOP /\ WantOf(c) = "none"
        BY <1>16, Zenon DEF Script, WantOf
    <2> QED
        BY <2>1, StartingOutlines, <1>2, Zenon
<1>17. CASE c = "IRQ_STROBE"
    <2>1. Script(c) = IRQ_STROBE /\ WantOf(c) = "none"
        BY <1>17, Zenon DEF Script, WantOf
    <2> QED
        BY <2>1, TestOutlines, <1>1, Zenon
<1>18. CASE c = "IRQ_SWI"
    <2>1. Script(c) = IRQ_SWI /\ WantOf(c) = "none"
        BY <1>18, Zenon DEF Script, WantOf
    <2> QED
        BY <2>1, TestOutlines, <1>1, Zenon
<1>19. CASE c = "IRQ_RTI"
    <2>1. Script(c) = IRQ_RTI /\ WantOf(c) = "none"
        BY <1>19, Zenon DEF Script, WantOf
    <2> QED
        BY <2>1, TestOutlines, <1>1, Zenon
<1>20. CASE c = "IRQ_NMI"
    <2>1. Script(c) = IRQ_NMI /\ WantOf(c) = "none"
        BY <1>20, Zenon DEF Script, WantOf
    <2> QED
        BY <2>1, TestOutlines, <1>1, Zenon
<1>21. CASE c = "IRQ_CHUNK"
    <2>1. Script(c) = IRQ_CHUNK /\ WantOf(c) = "none"
        BY <1>21, Zenon DEF Script, WantOf
    <2> QED
        BY <2>1, ChunkTestOutline, <1>1, Zenon
<1>22. CASE c = "RUN"
    <2>1. Script(c) = RUN /\ WantOf(c) = "none"
        BY <1>22, Zenon DEF Script, WantOf
    <2> QED
        BY <2>1, WaitingOutlines, <1>1, Zenon
<1>23. CASE c = "RUN_CHUNK"
    <2>1. Script(c) = RUN_CHUNK /\ WantOf(c) = "chunk"
        BY <1>23, Zenon DEF Script, WantOf
    <2> QED
        BY <2>1, LoadingOutlines, <1>1, Zenon
<1>24. CASE c = "RUN_NOWAIT"
    <2>1. Script(c) = RUN_NOWAIT /\ WantOf(c) = "chunk"
        BY <1>24, Zenon DEF Script, WantOf
    <2> QED
        BY <2>1, LoadingOutlines, <1>1, Zenon
<1>25. CASE c = "NITROS9"
    <2>1. Script(c) = NITROS9 /\ WantOf(c) = "boot"
        BY <1>25, Zenon DEF Script, WantOf
    <2> QED
        BY <2>1, LoadingOutlines, <1>1, Zenon
<1>26. CASE c = "BREAK"
    <2>1. Script(c) = BREAK /\ WantOf(c) = "none"
        BY <1>26, Zenon DEF Script, WantOf
    <2> QED
        BY <2>1, BreakOutline, <1>2, Zenon
<1>27. CASE c = "VECTOR"
    <2>1. Script(c) = <<Do("vectors")>> /\ WantOf(c) = "none"
        BY <1>27, Zenon DEF Script, WantOf, VECTOR
    <2>2. Outlinable("none", <<Do("vectors")>>, Bare("any"))
        BY SingleOutlines
    <2> QED
        BY <2>1, <2>2, <1>2, Zenon
<1>28. CASE c = "RESET"
    <2>1. Script(c) = <<Do("clear")>> /\ WantOf(c) = "none"
        BY <1>28, Zenon DEF Script, WantOf, RESET
    <2>2. Outlinable("none", <<Do("clear")>>, Bare("any"))
        BY SingleOutlines
    <2> QED
        BY <2>1, <2>2, <1>2, Zenon
<1>29. CASE c = "HALT"
    <2>1. Script(c) = <<Do("halt")>> /\ WantOf(c) = "none"
        BY <1>29, Zenon DEF Script, WantOf, HALT
    <2>2. Outlinable("none", <<Do("halt")>>, Bare("any"))
        BY SingleOutlines
    <2> QED
        BY <2>1, <2>2, <1>2, Zenon
<1>30. CASE c = "RESTART"
    <2>1. Script(c) = <<Do("go_on")>> /\ WantOf(c) = "none"
        BY <1>30, Zenon DEF Script, WantOf, RESTART
    <2>2. Outlinable("none", <<Do("go_on")>>, Bare("any"))
        BY SingleOutlines
    <2> QED
        BY <2>1, <2>2, <1>2, Zenon
<1>31. CASE c = "ARM"
    <2>1. Script(c) = <<Do("push")>> /\ WantOf(c) = "none"
        BY <1>31, Zenon DEF Script, WantOf, ARM
    <2>2. Outlinable("none", <<Do("push")>>, Bare("any"))
        BY SingleOutlines
    <2> QED
        BY <2>1, <2>2, <1>2, Zenon
<1>32. CASE c = "S9"
    <2>1. Script(c) = <<Do("reset_vector")>> /\ WantOf(c) = "none"
        BY <1>32, Zenon DEF Script, WantOf, S9
    <2>2. Outlinable("none", <<Do("reset_vector")>>, Bare("any"))
        BY SingleOutlines
    <2> QED
        BY <2>1, <2>2, <1>2, Zenon
<1>33. CASE c = "BREAK_RETURN"
    <2>1. (breakActive /\ Script(c) = <<Do("return")>>) \/ Script(c) = <<>>
        BY <1>33, Zenon DEF Script, BREAK_RETURN
    <2>2. Outlinable("none", <<Do("return")>>, Bare("active")) /\ Outlinable("none", <<>>, Bare("any"))
        BY BreakOutline, RecordOutline, Constants
    <2>3. WantOf(c) = "none" /\ Bare("active") \in Phase
        BY <1>33, Phases DEF WantOf, Kinds
    <2> QED
        BY <2>1, <2>2, <2>3, <1>2, Zenon
<1>34. CASE c = "S0"
    <2>1. Script(c) = <<>> /\ WantOf(c) = "none"
        BY <1>34, Zenon DEF Script, WantOf
    <2>2. Outlinable("none", <<>>, Bare("any"))
        BY RecordOutline, Constants
    <2> QED
        BY <2>1, <2>2, <1>2, Zenon
<1>35. CASE c = "S1_low"
    <2>1. WantOf(c) = "none"
        BY <1>35, Zenon DEF WantOf
    <2>2. Script(c) = <<>> \/ (runState = "RESET" /\ Script(c) = CopyOut(Low, "boot"))
        BY <1>35, Zenon DEF Script, RECORD
    <2>3. Outlinable("none", <<>>, Bare("any")) /\ Outlinable("none", CopyOut(Low, "boot"), Bare("quiet"))
        BY RecordOutline, Constants
    <2> QED
        BY <2>1, <2>2, <2>3, <1>2, <1>3, Zenon
<1>36. CASE c = "S1_high"
    <2>1. WantOf(c) = "none"
        BY <1>36, Zenon DEF WantOf
    <2>2. Script(c) = <<>> \/ (runState = "RESET" /\ Script(c) = CopyOut(High, "boot"))
        BY <1>36, Zenon DEF Script, RECORD
    <2>3. Outlinable("none", <<>>, Bare("any")) /\ Outlinable("none", CopyOut(High, "boot"), Bare("quiet"))
        BY RecordOutline, Constants
    <2> QED
        BY <2>1, <2>2, <2>3, <1>2, <1>3, Zenon
<1>37. CASE c = "S1_vectors"
    <2>1. (Script(c) = <<Do("vectors")>> \/ Script(c) = <<>>) /\ WantOf(c) = "none"
        BY <1>37, Zenon DEF Script, WantOf, RECORD_VECTORS, VECTOR
    <2>2. Outlinable("none", <<Do("vectors")>>, Bare("any")) /\ Outlinable("none", <<>>, Bare("any"))
        BY SingleOutlines, RecordOutline, Constants
    <2> QED
        BY <2>1, <2>2, <1>2, Zenon
<1> QED
    BY <1>10, <1>11, <1>12, <1>13, <1>14, <1>15, <1>16, <1>17, <1>18,
       <1>19, <1>20, <1>21, <1>22, <1>23, <1>24, <1>25, <1>26, <1>27, <1>28,
       <1>29, <1>30, <1>31, <1>32, <1>33, <1>34, <1>35, <1>36, <1>37 DEF CommandNames

-----------------------------------------------------------------------------
(* What Core 1 and the guest do meanwhile.                                 *)

LEMMA Meanwhile ==
    ASSUME Outlined, script' = script, cmd' = cmd, \A p \in Phase : Holds(p) => Holds(p)'
    PROVE  Outlined'
<1>1. Want' = Want
    BY Zenon DEF Want
<1>2. PICK p \in Phase, q \in Phase : Outline(Want, script, p, q) /\ Holds(p)
    BY Zenon DEF Outlined
<1>3. Outline(Want', script', p, q) /\ Holds(p)'
    BY <1>1, <1>2, Zenon
<1> QED
    BY <1>3, Zenon DEF Outlined

LEMMA QuietIsStill ==
    ASSUME Quiet
    PROVE  ~Observe /\ ~Take /\ ~Arm /\ ~Disarm /\ ~Interrupt /\ ~Guest
BY DEF Quiet, Observe, Seen, Take, Arm, Disarm, Interrupt, Guest, Fetch, Finish, Leave, GuestSyncs,
       GuestStores, GuestAsks, GuestWrites, TakeInterrupt, Free, Runs

LEMMA ObserveKeeps ==
    ASSUME IInv, Observe, UNCHANGED consoleVars
    PROVE  IInv'
<1> USE DEF core0, pins, block, state, core1, guestVars, history, consoleVars
<1>1. StateOK' /\ ConsoleTypeOK'
    <2>1. runState' \in {"RESET", "RUNNING", "SYNCED", "HALTED"} /\ busState' \in {"run", "sync", "halt"}
        BY Zenon DEF IInv, StateOK, Observe, Bus, StateOf
    <2> QED
        BY <2>1 DEF IInv, StateOK, ConsoleTypeOK, Observe
<1>2. Requested' /\ Baited'
    BY DEF IInv, Observe, Requested, Baited, Trapped
<1>3. ASSUME NEW p \in Phase, Holds(p)
      PROVE  Holds(p)'
    <2>1. ~Quiet
        BY QuietIsStill
    <2>2. runState' = "SYNCED" => runState = "SYNCED" \/ guest = "sync"
        BY Zenon DEF Observe, Bus, StateOf
    <2>3. ~reset => runState' # "RESET"
        BY Zenon DEF Observe, Bus, StateOf
    <2>4. UNCHANGED <<reset, snippet, resetVec, nmiVec, shared, armed, ring, lpc, guest, prog, memory,
                      reached, meddled>>
        BY Zenon DEF Observe
    <2> QED
        BY <1>3, <2>1, <2>2, <2>3, <2>4
        DEF Holds, Quiet, Knows, Leads, Has, SnippetRuns, MemoryRuns, Trapped
<1>4. Outlined'
    BY <1>3, Meanwhile, Zenon DEF IInv, Observe
<1> QED
    BY <1>1, <1>2, <1>4, Zenon DEF IInv

LEMMA LoopKeeps ==
    ASSUME IInv, Take \/ Arm \/ Disarm \/ Interrupt, UNCHANGED consoleVars
    PROVE  IInv'
<1> USE DEF core0, pins, block, state, core1, guestVars, history, consoleVars
<1>1. StateOK' /\ ConsoleTypeOK'
    <2>1. CASE Take
        <3>1. lpc' \in {"idle", "copy", "vector", "armed", "restore", "disarm"}
            BY <2>1, Zenon DEF Take
        <3>2. ring' \in Seq({"arm", "disarm"}) /\ Len(ring') <= MaxRing
            BY <2>1, RunControlAssumption DEF Take, IInv, StateOK
        <3> QED
            BY <2>1, <3>1, <3>2 DEF Take, IInv, StateOK, ConsoleTypeOK
    <2>2. CASE Arm
        <3>1. snippet' \in [code : Code, at : Block \cup {0}]
            BY <2>2 DEF Arm, IInv, StateOK, Code
        <3>2. /\ resetVec' \in {"snippet", "memory"} /\ nmiVec' \in {"snippet", "memory"}
              /\ armed' \in BOOLEAN /\ prog' \in {"block", "memory"}
              /\ lpc' \in {"idle", "copy", "vector", "armed", "restore", "disarm"}
            BY <2>2, Zenon DEF Arm, IInv, StateOK, Derailed
        <3>3. UNCHANGED <<reset, halt, line, savedNmi, shared, runState, busState, ring, guest, nmi,
                          memory, reached, asked, meddled>>
            BY <2>2, Zenon DEF Arm
        <3> QED
            BY <3>1, <3>2, <3>3 DEF IInv, StateOK, ConsoleTypeOK
    <2>3. CASE Disarm
        <3>1. /\ nmiVec' \in {"snippet", "memory"} /\ armed' \in BOOLEAN
              /\ lpc' \in {"idle", "copy", "vector", "armed", "restore", "disarm"}
            BY <2>3, Zenon DEF Disarm, IInv, StateOK
        <3>2. UNCHANGED <<reset, halt, line, snippet, resetVec, savedNmi, shared, runState, busState,
                          ring, guest, prog, nmi, memory, reached, asked, meddled>>
            BY <2>3, Zenon DEF Disarm
        <3> QED
            BY <3>1, <3>2 DEF IInv, StateOK, ConsoleTypeOK
    <2>4. CASE Interrupt
        BY <2>4 DEF Interrupt, IInv, StateOK, ConsoleTypeOK
    <2> QED
        BY <2>1, <2>2, <2>3, <2>4
<1>2. Requested'
    BY DEF IInv, Requested, Take, Arm, Disarm, Interrupt
<1>3. Baited'
    <2>1. CASE Take
        <3>1. lpc' \in {"idle", "copy", "restore"} /\ lpc = "idle"
            BY <2>1, Zenon DEF Take
        <3> QED
            BY <2>1, <3>1 DEF IInv, Baited, Trapped, Take
    <2>2. CASE Arm
        BY <2>2 DEF IInv, Baited, Trapped, Arm
    <2>3. CASE Disarm
        BY <2>3 DEF IInv, Baited, Trapped, Disarm
    <2>4. CASE Interrupt
        BY <2>4 DEF IInv, Baited, Trapped, Interrupt
    <2> QED
        BY <2>1, <2>2, <2>3, <2>4
<1>4. ASSUME NEW p \in Phase, Holds(p)
      PROVE  Holds(p)'
    <2>1. ~Quiet
        BY QuietIsStill
    <2>2. CASE Take
        <3>1. lpc' \in {"idle", "copy", "restore"} /\ lpc = "idle" /\ ring # <<>>
            BY <2>2, Zenon DEF Take
        <3> QED
            BY <1>4, <2>1, <2>2, <3>1
            DEF Take, Holds, Quiet, Knows, Leads, Has, SnippetRuns, MemoryRuns, Trapped
    <2>3. CASE Arm
        <3>1. /\ lpc # "idle" /\ lpc' \notin {"restore", "disarm"}
              /\ UNCHANGED <<reset, runState, ring, guest, memory, reached, meddled, shared>>
            BY <2>3, Zenon DEF Arm
        <3>2. lpc = "copy" => snippet' = [code |-> "BREAK", at |-> 0] /\ prog' = Derailed
            BY <2>3, Zenon DEF Arm
        <3>3. lpc # "copy" => lpc \in {"vector", "armed"} /\ UNCHANGED <<snippet, prog>>
            BY <2>3, Zenon DEF Arm
        <3>4. prog = "memory" => prog' = "memory"
            BY <3>2, <3>3 DEF Derailed
        <3>5. lpc = "copy" \/ UNCHANGED snippet
            BY <3>3
        <3>6. snippet'.code = "BREAK" \/ UNCHANGED snippet
            BY <3>2, <3>5
        <3>7. CASE p.k = "break"
            <4>1. lpc = "copy" => snippet'.code = "BREAK"
                BY <3>2
            <4>2. lpc # "copy" => lpc \in {"vector", "armed"} /\ snippet' = snippet
                BY <3>3
            <4>3. lpc = "armed" => Trapped
                BY DEF Trapped
            <4> QED
                BY <1>4, <3>1, <3>7, <4>1, <4>2, <4>3 DEF Holds
        <3>8. CASE p.k # "break"
            BY <1>4, <2>1, <3>1, <3>4, <3>6, <3>8
            DEF Holds, Quiet, Knows, Leads, Has, SnippetRuns, MemoryRuns
        <3> QED
            BY <3>7, <3>8
    <2>4. CASE Disarm
        <3>1. /\ lpc \in {"restore", "disarm"} /\ (lpc' = "disarm" \/ (lpc' = "idle" /\ armed' = FALSE))
              /\ UNCHANGED <<reset, runState, ring, guest, memory, reached, meddled, shared, snippet,
                             prog, resetVec>>
            BY <2>4, Zenon DEF Disarm
        <3>2. ~(Trapped \/ lpc = "vector")'
            BY <3>1 DEF Trapped
        <3>3. CASE p.k = "break"
            BY <3>2, <3>3 DEF Holds
        <3>4. CASE p.k # "break"
            BY <1>4, <2>1, <3>1, <3>4
            DEF Holds, Quiet, Knows, Leads, Has, SnippetRuns, MemoryRuns
        <3> QED
            BY <3>3, <3>4
    <2>5. CASE Interrupt
        BY <1>4, <2>1, <2>5
        DEF Interrupt, Holds, Quiet, Knows, Leads, Has, SnippetRuns, MemoryRuns, Trapped
    <2> QED
        BY <2>2, <2>3, <2>4, <2>5
<1>5. Outlined'
    BY <1>4, Meanwhile, Zenon DEF IInv, Take, Arm, Disarm, Interrupt
<1> QED
    BY <1>1, <1>2, <1>3, <1>5, Zenon DEF IInv

\* A guest that moves is not held in RESET: only the phases of one that runs are at stake.
Running(p) == p.code \in Ending /\ SnippetRuns(p) /\ Knows(p) /\ Has(p)
LEMMA GuestMeanwhile ==
    ASSUME Runs, UNCHANGED <<script, cmd, reset, runState, meddled, armed, lpc, breakActive>>,
           Waits /\ (Trapped \/ lpc = "vector") => UNCHANGED snippet,
           \A p \in Phase : Running(p) => Running(p)',
           MemoryRuns => MemoryRuns',
           Outlined
    PROVE  Outlined'
<1>1. ASSUME NEW p \in Phase, Holds(p)
      PROVE  Holds(p)'
    <2>1. ~reset /\ runState # "RESET"
        BY Zenon DEF Runs, Seen
    <2>2. UNCHANGED <<reset, runState, meddled, armed, lpc, breakActive>>
        OBVIOUS
    <2>3. CASE p.k = "break"
        <3>1. Trapped' = Trapped
            BY <2>2 DEF Trapped
        <3> QED
            BY <1>1, <2>2, <2>3, <3>1 DEF Holds
    <2>4. CASE p.k = "run"
        <3>1. p.code # "none" /\ (p.code # "memory" => p.code \in Ending)
            BY <1>1, <2>4 DEF Holds, Phase
        <3>2. CASE p.code = "memory"
            BY <1>1, <2>1, <2>2, <2>4, <3>2 DEF Holds
        <3>3. CASE p.code # "memory"
            <4>1. Running(p)
                BY <1>1, <2>4, <3>1, <3>3 DEF Holds, Running
            <4>2. (SnippetRuns(p) /\ Knows(p) /\ Has(p))'
                BY <4>1 DEF Running
            <4> QED
                BY <2>1, <2>2, <2>4, <3>1, <3>3, <4>2 DEF Holds
        <3> QED
            BY <3>2, <3>3
    <2>5. CASE p.k \notin {"break", "run"}
        BY <1>1, <2>1, <2>2, <2>5 DEF Holds, Quiet
    <2> QED
        BY <2>3, <2>4, <2>5
<1> QED
    BY <1>1, Meanwhile, Zenon

LEMMA FetchKeeps ==
    ASSUME IInv, Fetch, UNCHANGED consoleVars
    PROVE  IInv'
<1> USE DEF core0, pins, block, state, core1, guestVars, history, consoleVars
<1>1. /\ Runs /\ guest = "held" /\ guest' = "run"
      /\ UNCHANGED <<script, line, reset, halt, snippet, resetVec, nmiVec, shared, runState, busState,
                     armed, ring, lpc, savedNmi, nmi, reached, asked, meddled, cmd, polled,
                     breakActive, ignore>>
    BY Zenon DEF Fetch
<1>2. prog' = IF resetVec = "snippet" THEN "block" ELSE "memory"
    BY Zenon DEF Fetch
<1>3. memory' = IF resetVec # "snippet" THEN Torn
                ELSE IF snippet.code = "COPY_OUT" THEN [memory EXCEPT ![snippet.at] = "torn"]
                ELSE memory
    BY Zenon DEF Fetch
<1>4. StateOK' /\ ConsoleTypeOK'
    <2>1. memory' \in [Block -> Content \cup {"torn"}]
        BY <1>3 DEF IInv, StateOK, Torn
    <2>2. ~reset
        BY <1>1, Zenon DEF Runs
    <2> QED
        BY <1>1, <1>2, <2>1, <2>2 DEF IInv, StateOK, ConsoleTypeOK
<1>5. Requested' /\ Baited'
    BY <1>1 DEF IInv, Requested, Baited, Trapped
<1>6. Outlined'
    <2>1. ASSUME NEW p \in Phase, Running(p)
          PROVE  Running(p)'
        <3>1. /\ p.code \in Ending /\ SnippetRuns(p) /\ Knows(p) /\ Has(p)
              /\ resetVec = "snippet" /\ snippet.code = p.code
            BY <2>1 DEF Running, Knows, Leads, Ending
        <3>2. SnippetRuns(p)' /\ Knows(p)'
            BY <3>1, <1>1, <1>2 DEF SnippetRuns, Knows, Leads
        <3>3. Has(p)'
            <4>1. CASE p.code = "COPY_OUT"
                <5>1. snippet.at = p.at /\ p.has[p.at] = "unknown"
                    BY <4>1, <3>1, RunControlAssumption, ConsoleAssumption
                    DEF SnippetRuns, Knows, Low, High
                <5>2. memory' = [memory EXCEPT ![snippet.at] = "torn"]
                    BY <4>1, <3>1, <1>3
                <5> QED
                    BY <3>1, <5>1, <5>2 DEF Has, IInv, StateOK
            <4>2. CASE p.code # "COPY_OUT"
                BY <4>2, <3>1, <1>3 DEF Has
            <4> QED
                BY <4>1, <4>2
        <3> QED
            BY <3>1, <3>2, <3>3 DEF Running
    <2>2. MemoryRuns => MemoryRuns'
        BY <1>1, <1>2 DEF MemoryRuns, Runs, Seen
    <2> QED
        BY <1>1, <2>1, <2>2, GuestMeanwhile, Zenon DEF IInv
<1> QED
    BY <1>4, <1>5, <1>6, Zenon DEF IInv

LEMMA FinishKeeps ==
    ASSUME IInv, Finish, UNCHANGED consoleVars
    PROVE  IInv'
<1> USE DEF core0, pins, block, state, core1, guestVars, history, consoleVars
<1>1. /\ Runs /\ guest = "run" /\ guest' = "sync" /\ prog = "block"
      /\ snippet.code \in Ending /\ reached' = snippet.code
      /\ UNCHANGED <<script, line, reset, halt, snippet, resetVec, nmiVec, runState, busState,
                     armed, ring, lpc, savedNmi, prog, nmi, asked, meddled, cmd, polled,
                     breakActive, ignore>>
    BY Zenon DEF Finish
<1>2. memory' = IF snippet.code = "COPY_OUT"
                THEN [memory EXCEPT ![snippet.at] = shared] ELSE memory
    BY Zenon DEF Finish
<1>3. shared' \in {"zero", "data", "frame"} \/ shared' = shared
    BY Zenon DEF Finish
<1>4. snippet.code = "COPY_OUT" => shared' = shared
    BY Zenon DEF Finish
<1>5. StateOK' /\ ConsoleTypeOK'
    <2>1. memory' \in [Block -> Content \cup {"torn"}]
        BY <1>2 DEF IInv, StateOK
    <2>2. shared' \in Content
        BY <1>3 DEF IInv, StateOK, Content
    <2>3. ~reset
        BY <1>1, Zenon DEF Runs
    <2> QED
        BY <1>1, <2>1, <2>2, <2>3 DEF IInv, StateOK, ConsoleTypeOK, Ending, Code
<1>6. Requested' /\ Baited'
    BY <1>1 DEF IInv, Requested, Baited, Trapped
<1>7. Outlined'
    <2>1. ASSUME NEW p \in Phase, Running(p)
          PROVE  Running(p)'
        <3>1. /\ p.code \in Ending /\ SnippetRuns(p) /\ Knows(p) /\ Has(p)
              /\ resetVec = "snippet" /\ snippet.code = p.code
            BY <2>1 DEF Running, Knows, Leads, Ending
        <3>2. p.code = "COPY_OUT" => snippet.at = p.at /\ p.at \in Block /\ p.has[p.at] = "unknown"
            BY <3>1, RunControlAssumption, ConsoleAssumption DEF SnippetRuns, Knows, Low, High
        <3>3. p.code = "COPY_OUT" => memory'[snippet.at] = shared'
            BY <3>1, <3>2, <1>2, <1>4 DEF IInv, StateOK
        <3>4. SnippetRuns(p)' /\ Knows(p)'
            BY <3>1, <3>2, <3>3, <1>1, <1>4 DEF SnippetRuns, Knows, Leads
        <3>5. Has(p)'
            <4>1. CASE p.code = "COPY_OUT"
                BY <4>1, <3>1, <3>2, <1>2 DEF Has, IInv, StateOK
            <4>2. CASE p.code # "COPY_OUT"
                BY <4>2, <3>1, <1>2 DEF Has
            <4> QED
                BY <4>1, <4>2
        <3> QED
            BY <3>1, <3>4, <3>5 DEF Running
    <2>2. ~MemoryRuns
        BY <1>1 DEF MemoryRuns
    <2> QED
        BY <1>1, <2>1, <2>2, GuestMeanwhile, Zenon DEF IInv
<1> QED
    BY <1>5, <1>6, <1>7, Zenon DEF IInv

\* A program that is not, or no longer, the snippet that Core 0 runs.
LEMMA Elsewhere ==
    ASSUME NEW p \in Phase, guest # "held",
           prog = "memory" \/ snippet.code \in {"USER", "BREAK", "RETURNED", "TEST"}
    PROVE  ~Running(p)
BY DEF Running, SnippetRuns, Knows, Leads, Ending

LEMMA LeaveKeeps ==
    ASSUME IInv, Leave, UNCHANGED consoleVars
    PROVE  IInv'
<1> USE DEF core0, pins, block, state, core1, guestVars, history, consoleVars
<1>1. /\ Runs /\ guest = "run" /\ prog = "block" /\ snippet.code \in {"USER", "BREAK", "RETURNED"}
      /\ prog' = "memory" /\ memory' = Torn
      /\ UNCHANGED <<script, line, reset, halt, snippet, resetVec, nmiVec, shared, runState, busState,
                     armed, ring, lpc, savedNmi, guest, nmi, reached, asked, meddled, cmd, polled,
                     breakActive, ignore>>
    BY Zenon DEF Leave
<1>2. StateOK' /\ ConsoleTypeOK'
    <2>1. memory' \in [Block -> Content \cup {"torn"}]
        BY <1>1 DEF Torn
    <2> QED
        BY <1>1, <2>1 DEF IInv, StateOK, ConsoleTypeOK
<1>3. Requested' /\ Baited'
    BY <1>1 DEF IInv, Requested, Baited, Trapped
<1>4. Outlined'
    <2>1. \A p \in Phase : ~Running(p)
        BY <1>1, Elsewhere
    <2>2. ~MemoryRuns
        BY <1>1 DEF MemoryRuns
    <2> QED
        BY <1>1, <2>1, <2>2, GuestMeanwhile, Zenon DEF IInv
<1> QED
    BY <1>2, <1>3, <1>4, Zenon DEF IInv

LEMMA GuestSyncsKeeps ==
    ASSUME IInv, GuestSyncs, UNCHANGED consoleVars
    PROVE  IInv'
<1> USE DEF core0, pins, block, state, core1, guestVars, history, consoleVars
<1>1. /\ Runs /\ guest = "run" /\ prog = "memory" /\ guest' = "sync" /\ reached' = "memory"
      /\ UNCHANGED <<script, line, reset, halt, snippet, resetVec, nmiVec, shared, runState, busState,
                     armed, ring, lpc, savedNmi, prog, nmi, memory, asked, meddled, cmd, polled,
                     breakActive, ignore>>
    BY Zenon DEF GuestSyncs, Free
<1>2. StateOK' /\ ConsoleTypeOK'
    <2>1. ~reset
        BY <1>1, Zenon DEF Runs
    <2> QED
        BY <1>1, <2>1 DEF IInv, StateOK, ConsoleTypeOK
<1>3. Requested' /\ Baited'
    BY <1>1 DEF IInv, Requested, Baited, Trapped
<1>4. Outlined'
    <2>1. \A p \in Phase : ~Running(p)
        BY <1>1, Elsewhere
    <2>2. MemoryRuns => MemoryRuns'
        BY <1>1 DEF MemoryRuns
    <2> QED
        BY <1>1, <2>1, <2>2, GuestMeanwhile, Zenon DEF IInv
<1> QED
    BY <1>2, <1>3, <1>4, Zenon DEF IInv

LEMMA GuestStoresKeeps ==
    ASSUME IInv, GuestStores, UNCHANGED consoleVars
    PROVE  IInv'
<1> USE DEF core0, pins, block, state, core1, guestVars, history, consoleVars
<1>1. /\ Runs /\ guest = "run" /\ prog = "memory" /\ shared' \in {"zero", "data"}
      /\ UNCHANGED <<script, line, reset, halt, snippet, resetVec, nmiVec, runState, busState,
                     armed, ring, lpc, savedNmi, guest, prog, nmi, memory, reached, asked, meddled,
                     cmd, polled, breakActive, ignore>>
    BY Zenon DEF GuestStores, Free
<1>2. StateOK' /\ ConsoleTypeOK'
    <2>1. shared' \in Content
        BY <1>1 DEF Content
    <2> QED
        BY <1>1, <2>1 DEF IInv, StateOK, ConsoleTypeOK
<1>3. Requested' /\ Baited'
    BY <1>1 DEF IInv, Requested, Baited, Trapped
<1>4. Outlined'
    <2>1. \A p \in Phase : ~Running(p)
        BY <1>1, Elsewhere
    <2>2. MemoryRuns => MemoryRuns'
        BY <1>1 DEF MemoryRuns
    <2> QED
        BY <1>1, <2>1, <2>2, GuestMeanwhile, Zenon DEF IInv
<1> QED
    BY <1>2, <1>3, <1>4, Zenon DEF IInv

LEMMA Queued ==
    ASSUME StateOK, NEW w \in {"arm", "disarm"}, Len(ring) < MaxRing
    PROVE  Append(ring, w) \in Seq({"arm", "disarm"}) /\ Len(Append(ring, w)) <= MaxRing
<1>1. ring \in Seq({"arm", "disarm"})
    BY DEF StateOK
<1> QED
    BY <1>1, RunControlAssumption, AppendProperties

LEMMA GuestAsksKeeps ==
    ASSUME IInv, GuestAsks, UNCHANGED consoleVars
    PROVE  IInv'
<1> USE DEF core0, pins, block, state, core1, guestVars, history, consoleVars
<1>1. /\ Runs /\ guest = "run" /\ prog = "memory" /\ asked' = TRUE
      /\ Len(ring) < MaxRing /\ \E w \in {"arm", "disarm"} : ring' = Append(ring, w)
      /\ UNCHANGED <<script, line, reset, halt, snippet, resetVec, nmiVec, shared, runState, busState,
                     armed, lpc, savedNmi, guest, prog, nmi, memory, reached, meddled,
                     cmd, polled, breakActive, ignore>>
    BY Zenon DEF GuestAsks, Free
<1>2. StateOK' /\ ConsoleTypeOK'
    <2>1. ring' \in Seq({"arm", "disarm"}) /\ Len(ring') <= MaxRing
        BY <1>1, Queued DEF IInv
    <2> QED
        BY <1>1, <2>1 DEF IInv, StateOK, ConsoleTypeOK
<1>3. Requested' /\ Baited'
    BY <1>1 DEF IInv, Requested, Baited, Trapped
<1>4. Outlined'
    <2>1. \A p \in Phase : ~Running(p)
        BY <1>1, Elsewhere
    <2>2. MemoryRuns => MemoryRuns'
        BY <1>1 DEF MemoryRuns
    <2> QED
        BY <1>1, <2>1, <2>2, GuestMeanwhile, Zenon DEF IInv
<1> QED
    BY <1>2, <1>3, <1>4, Zenon DEF IInv

LEMMA GuestWritesKeeps ==
    ASSUME IInv, GuestWrites, UNCHANGED consoleVars
    PROVE  IInv'
<1> USE DEF core0, pins, block, state, core1, guestVars, history, consoleVars
<1>1. /\ Runs /\ guest = "run" /\ prog = "memory"
      /\ UNCHANGED <<script, line, reset, halt, shared, runState, busState, armed, ring, lpc,
                     savedNmi, guest, prog, memory, reached, asked, meddled, cmd, polled,
                     breakActive, ignore>>
    BY Zenon DEF GuestWrites, Free
<1>2. /\ snippet' = snippet \/ snippet' = [code |-> "USER", at |-> 0]
      /\ resetVec' = resetVec \/ resetVec' = "memory"
      /\ nmiVec' = nmiVec \/ nmiVec' \in {"snippet", "memory"}
      /\ nmi' = nmi \/ nmi' = TRUE
    BY Zenon DEF GuestWrites
<1>3. Waits /\ (Trapped \/ lpc = "vector") => UNCHANGED <<snippet, nmiVec>>
    <2>1. CASE armed
        BY <2>1, Zenon DEF GuestWrites
    <2>2. CASE ~armed /\ Waits
        <3>1. lpc = "idle"
            BY <2>2, Zenon DEF GuestWrites, Served
        <3> QED
            BY <2>2, <3>1 DEF Trapped
    <2> QED
        BY <2>1, <2>2
<1>4. StateOK' /\ ConsoleTypeOK'
    <2>1. ~reset
        BY <1>1, Zenon DEF Runs
    <2>2. snippet' \in [code : Code, at : Block \cup {0}]
        BY <1>2 DEF IInv, StateOK, Code
    <2>3. nmi' \in BOOLEAN
        BY <1>2, Zenon DEF IInv, StateOK
    <2>4. resetVec' \in {"snippet", "memory"} /\ nmiVec' \in {"snippet", "memory"}
        BY <1>2, Zenon DEF IInv, StateOK
    <2> QED
        BY <1>1, <2>1, <2>2, <2>3, <2>4 DEF IInv, StateOK, ConsoleTypeOK
<1>5. Requested' /\ Baited'
    BY <1>1, <1>3 DEF IInv, Requested, Baited, Trapped
<1>6. Outlined'
    <2>1. \A p \in Phase : ~Running(p)
        BY <1>1, Elsewhere
    <2>2. MemoryRuns => MemoryRuns'
        BY <1>1, <1>2 DEF MemoryRuns
    <2> QED
        BY <1>1, <1>3, <2>1, <2>2, GuestMeanwhile, Zenon DEF IInv
<1> QED
    BY <1>4, <1>5, <1>6, Zenon DEF IInv

LEMMA TakeInterruptKeeps ==
    ASSUME IInv, TakeInterrupt, UNCHANGED consoleVars
    PROVE  IInv'
<1> USE DEF core0, pins, block, state, core1, guestVars, history, consoleVars
<1>1. /\ Runs /\ guest # "held" /\ (prog = "memory" \/ snippet.code = "TEST") /\ nmi' = FALSE
      /\ UNCHANGED <<script, line, reset, halt, snippet, resetVec, nmiVec, runState, busState, armed,
                     ring, lpc, savedNmi, memory, asked, meddled, cmd, polled, breakActive, ignore>>
    BY Zenon DEF TakeInterrupt
<1>2. \/ guest' = "caught" /\ shared' = "frame" /\ prog' = "memory" /\ reached' = reached
      \/ /\ snippet.code = "TEST"
         /\ guest' = "sync" /\ shared' = "frame" /\ reached' = "TEST" /\ prog' = prog
      \/ guest' = "run" /\ prog' = "memory" /\ shared' = shared /\ reached' = reached
    BY Zenon DEF TakeInterrupt
<1>3. StateOK' /\ ConsoleTypeOK'
    <2>1. ~reset
        BY <1>1, Zenon DEF Runs
    <2>2. shared' \in Content /\ reached' \in Code \cup {"memory", "none"}
        BY <1>2 DEF IInv, StateOK, Content, Code
    <2>3. guest' \in {"held", "run", "sync", "caught"} /\ prog' \in {"block", "memory"}
        BY <1>2, Zenon DEF IInv, StateOK
    <2>4. nmi' \in BOOLEAN
        BY <1>1, Zenon
    <2> QED
        BY <1>1, <2>1, <2>2, <2>3, <2>4 DEF IInv, StateOK, ConsoleTypeOK
<1>4. Requested' /\ Baited'
    BY <1>1 DEF IInv, Requested, Baited, Trapped
<1>5. Outlined'
    <2>1. \A p \in Phase : ~Running(p)
        BY <1>1, Elsewhere
    <2>2. MemoryRuns => MemoryRuns'
        BY <1>1, <1>2 DEF MemoryRuns
    <2> QED
        BY <1>1, <2>1, <2>2, GuestMeanwhile, Zenon DEF IInv
<1> QED
    BY <1>3, <1>4, <1>5, Zenon DEF IInv

-----------------------------------------------------------------------------
(* Core 0's statements.                                                    *)

LEMMA Advance ==
    ASSUME Outlined, script # <<>>, script' = Tail(script), cmd' = cmd,
           \A p, r \in Phase :
               Step \in Statement /\ Holds(p) /\ Rule(Want, p, Step, r) => Holds(r)'
    PROVE  Outlined'
<1>1. Want' = Want
    BY Zenon DEF Want
<1>2. PICK p \in Phase, q \in Phase : Outline(Want, script, p, q) /\ Holds(p)
    BY Zenon DEF Outlined
<1>3. PICK r \in Phase :
          Step \in Statement /\ Rule(Want, p, Step, r) /\ Outline(Want, Tail(script), r, q)
    BY <1>2, OutlineTail, Zenon DEF Step
<1>4. Outline(Want', script', r, q) /\ Holds(r)'
    BY <1>1, <1>2, <1>3, Zenon
<1> QED
    BY <1>4, Zenon DEF Outlined

LEMMA StepIsStatement ==
    ASSUME Outlined, script # <<>>
    PROVE  Step \in Statement
BY OutlineTail, Zenon DEF Outlined, Step

\* Before a statement the claim of some phase with a rule for it holds.
LEMMA PhaseBefore ==
    ASSUME Outlined, script # <<>>
    PROVE  \E p, r \in Phase : Holds(p) /\ Rule(Want, p, Step, r)
BY OutlineTail, Zenon DEF Outlined, Step

\* Where Core 0 drops the rest of a command.
LEMMA Dropped ==
    /\ script' = <<>> => Outlined'
    /\ script' = Stop => Outlined'
    /\ script' = <<Do("line_off")>> => Outlined'
    /\ script' = <<Do("hold")>> /\ reset' => Outlined'
<1>1. Bare("any") \in Phase /\ Bare("quiet") \in Phase /\ Bare("over") \in Phase
    BY Phases DEF Kinds
<1>2. Holds(Bare("any"))'
    BY Phases DEF Holds, Kinds
<1>3. reset' => Holds(Bare("over"))'
    BY Phases DEF Holds, Kinds, Has, Bare, Known, Nothing
<1>4. Outline(Want', <<>>, Bare("any"), Bare("any"))
    BY <1>1, OutlineNone
<1>5. Outline(Want', Stop, Bare("any"), Bare("quiet"))
    BY <1>1, StopOutline
<1>6. Outline(Want', <<Do("line_off")>>, Bare("any"), Bare("any"))
    BY <1>1, IdleOutline DEF Idle
<1>7. Outline(Want', <<Do("hold")>>, Bare("over"), Bare("quiet"))
    <2>1. Do("hold") \in Statement /\ Do("hold").op = "hold"
        BY Statements DEF Ops
    <2>2. Bare("quiet") = As("quiet", Bare("over")) /\ Bare("over").k = "over"
        BY DEF As, Bare, Known
    <2>3. Rule(Want', Bare("over"), Do("hold"), Bare("quiet"))
        BY <2>1, <2>2 DEF Rule, RunRule
    <2> QED
        BY <1>1, <2>1, <2>3, OutlineOne
<1> QED
    BY <1>1, <1>2, <1>3, <1>4, <1>5, <1>6, <1>7, Zenon DEF Outlined

LEMMA Unknown ==
    ASSUME NEW k \in Kinds
    PROVE  Knows(Bare(k)) /\ Has(Bare(k)) /\ Knows(Bare(k))' /\ Has(Bare(k))'
BY DEF Knows, Has, Bare, Known, Nothing

\* The parts of the invariant that RunControl's own steps are to keep.
RunInv == StateOK /\ Requested /\ Baited /\ Outlined

LEMMA AssertStoppedKeeps ==
    ASSUME IInv, AssertStopped, UNCHANGED <<cmd, polled, breakActive>>
    PROVE  RunInv'
<1> USE DEF core0, pins, block, state, core1, guestVars, history
<1>1. /\ script # <<>> /\ Step.op \in {"check", "stopped"}
      /\ UNCHANGED <<line, reset, halt, snippet, resetVec, nmiVec, shared, runState, busState, armed,
                     ring, lpc, savedNmi, guest, prog, nmi, memory, reached, asked, meddled>>
    BY Zenon DEF AssertStopped, At
<1>2. (runState = "RESET" /\ script' = Tail(script)) \/ script' = <<>>
    BY Zenon DEF AssertStopped, Continue, Abandon
<1>3. StateOK' /\ Requested' /\ Baited'
    BY <1>1 DEF IInv, StateOK, Requested, Baited, Trapped
<1>4. Outlined'
    <2>1. CASE runState = "RESET" /\ script' = Tail(script)
        <3>1. ASSUME NEW p \in Phase, NEW r \in Phase, Step \in Statement, Holds(p),
                     Rule(Want, p, Step, r)
              PROVE  Holds(r)'
            <4>1. \/ p.k \in {"ready", "quiet"} /\ r = Bare("quiet")
                  \/ p.k = "quiet" /\ r = p
                BY <3>1, <1>1 DEF Rule, RunRule, LoadRule, OtherRule
            <4>2. Quiet /\ Quiet'
                BY <2>1, <3>1, <4>1, <1>1 DEF Holds, Quiet
            <4>3. CASE r = Bare("quiet")
                <5>1. r.k = "quiet" /\ Knows(r)' /\ Has(r)'
                    BY <4>3, Phases, Unknown DEF Kinds
                <5> QED
                    BY <5>1, <4>2 DEF Holds
            <4>4. CASE p.k = "quiet" /\ r = p
                BY <4>4, <4>2, <3>1, <1>1 DEF Holds, Knows, Leads, Has
            <4> QED
                BY <4>1, <4>3, <4>4
        <3> QED
            BY <2>1, <3>1, <1>1, Advance, Zenon DEF IInv
    <2>2. CASE script' = <<>>
        BY <2>2, Dropped
    <2> QED
        BY <1>2, <2>1, <2>2
<1> QED
    BY <1>3, <1>4, Zenon DEF RunInv

LEMMA LoadSnippetKeeps ==
    ASSUME IInv, LoadSnippet, UNCHANGED <<cmd, polled, breakActive>>
    PROVE  RunInv'
<1> USE DEF core0, pins, block, state, core1, guestVars, history
<1>1. /\ script # <<>> /\ Step.op = "load" /\ script' = Tail(script)
      /\ snippet' = [code |-> Step.code, at |-> 0] /\ resetVec' = "snippet"
      /\ prog' = Derailed /\ guest' = Spinning(Step.code)
      /\ UNCHANGED <<line, reset, halt, nmiVec, shared, runState, busState, armed, ring, lpc,
                     savedNmi, nmi, memory, reached, asked>>
    BY Zenon DEF LoadSnippet, At, Continue
<1>2. meddled' = meddled \/ meddled' = TRUE
    BY Zenon DEF LoadSnippet, IInv, StateOK
<1>3. ~meddled' => ~meddled /\ (Step.code = "BREAK" \/ ~Trapping)
    BY Zenon DEF LoadSnippet
<1>4. Step \in Statement
    BY <1>1, StepIsStatement DEF IInv
<1>5. StateOK'
    <2>1. PICK p \in Phase, r \in Phase : Holds(p) /\ Rule(Want, p, Step, r)
        BY <1>1, PhaseBefore DEF IInv
    <2>2. Step.code \in Code
        BY <2>1, <1>1 DEF Rule, RunRule, LoadRule, OtherRule
    <2>3. guest' \in {"held", "run", "sync", "caught"} /\ prog' \in {"block", "memory"}
        BY <1>1, Zenon DEF Spinning, Derailed, IInv, StateOK
    <2>4. reset => guest' = "held"
        BY <1>1 DEF Spinning, IInv, StateOK
    <2>5. meddled' \in BOOLEAN
        BY <1>2, Zenon DEF IInv, StateOK
    <2> QED
        BY <1>1, <2>2, <2>3, <2>4, <2>5 DEF IInv, StateOK
<1>6. Requested'
    BY <1>1 DEF IInv, Requested
<1>7. Baited'
    BY <1>1, <1>3 DEF IInv, Baited, Trapped, Trapping
<1>8. ASSUME NEW p \in Phase, NEW r \in Phase, Holds(p), Rule(Want, p, Step, r)
      PROVE  Holds(r)'
    <2>1. CASE p.k = "quiet"
        <3>1. r = Known("quiet", IF Step.code \in Ending THEN Step.code ELSE "none", 0, "zero", p.has)
            BY <2>1, <1>1, <1>8 DEF Rule, RunRule, LoadRule, OtherRule
        <3>2. /\ r.k = "quiet" /\ r.at = 0 /\ r.has = p.has
              /\ r.code = IF Step.code \in Ending THEN Step.code ELSE "none"
            BY <3>1 DEF Known
        <3>3. Knows(r)'
            BY <3>2, <1>1 DEF Knows, Leads, Ending
        <3>4. Quiet' /\ Has(r)'
            BY <2>1, <3>2, <1>8, <1>1 DEF Holds, Quiet, Has
        <3> QED
            BY <3>2, <3>3, <3>4 DEF Holds
    <2>2. CASE p.k = "ready"
        <3>1. r = p
            BY <2>2, <1>1, <1>8 DEF Rule, RunRule, LoadRule, OtherRule
        <3> QED
            BY <2>2, <3>1, <1>8, <1>1 DEF Holds, Quiet
    <2>3. CASE p.k \in {"any", "break"}
        <3>1. r = IF Step.code = "BREAK" THEN Bare("break") ELSE Bare("any")
            BY <2>3, <1>1, <1>8 DEF Rule, RunRule, LoadRule, OtherRule
        <3>2. Bare("break").k = "break" /\ Bare("any").k = "any"
            BY DEF Bare, Known
        <3> QED
            BY <3>1, <3>2, <1>1 DEF Holds
    <2>4. p.k \in {"quiet", "ready", "any", "break"}
        BY <1>1, <1>8 DEF Rule, RunRule, LoadRule, OtherRule
    <2> QED
        BY <2>1, <2>2, <2>3, <2>4
<1>9. Outlined'
    BY <1>1, <1>8, Advance, Zenon DEF IInv
<1> QED
    BY <1>5, <1>6, <1>7, <1>9, Zenon DEF RunInv

LEMMA SetOperandsKeeps ==
    ASSUME IInv, SetOperands, UNCHANGED <<cmd, polled, breakActive>>
    PROVE  RunInv'
<1> USE DEF core0, pins, block, state, core1, guestVars, history
<1>1. /\ script # <<>> /\ Step.op = "operands" /\ script' = Tail(script)
      /\ snippet' = IF snippet.code = Step.code THEN [snippet EXCEPT !.at = Step.at]
                    ELSE [code |-> "USER", at |-> 0]
      /\ shared' = IF Step.code = "COPY_OUT" THEN Step.data ELSE shared
      /\ prog' = Derailed /\ guest' = Spinning(Step.code)
      /\ UNCHANGED <<line, reset, halt, resetVec, nmiVec, runState, busState, armed, ring, lpc,
                     savedNmi, nmi, memory, reached, asked>>
    BY Zenon DEF SetOperands, At, Continue
<1>2. meddled' = meddled \/ meddled' = TRUE
    BY Zenon DEF SetOperands, IInv, StateOK
<1>3. ~meddled' => ~meddled /\ ~Trapping
    BY Zenon DEF SetOperands
<1>4. Step \in Statement
    BY <1>1, StepIsStatement DEF IInv
<1>5. ASSUME NEW p \in Phase, NEW r \in Phase, Holds(p), Rule(Want, p, Step, r)
      PROVE  /\ Quiet /\ Knows(p) /\ Has(p) /\ p.code = Step.code
             /\ Step.code \in {"COPY_OUT", "COPY_IN"} /\ Step.at \in Block
             /\ r = Known("quiet", Step.code, Step.at, Step.data,
                          [p.has EXCEPT ![Step.at] = "unknown"])
    <2>1. /\ p.k = "quiet" /\ p.code = Step.code
          /\ Step.code \in {"COPY_OUT", "COPY_IN"} /\ Step.at \in Block
          /\ r = Known("quiet", Step.code, Step.at, Step.data,
                       [p.has EXCEPT ![Step.at] = "unknown"])
        BY <1>1, <1>5 DEF Rule, RunRule, LoadRule, OtherRule
    <2> QED
        BY <2>1, <1>5 DEF Holds
<1>6. /\ Quiet /\ Step.code \in {"COPY_OUT", "COPY_IN"} /\ Step.at \in Block
      /\ resetVec = "snippet" /\ snippet.code = Step.code
    <2>1. PICK p \in Phase, r \in Phase : Holds(p) /\ Rule(Want, p, Step, r)
        BY <1>1, PhaseBefore DEF IInv
    <2>2. /\ Quiet /\ Knows(p) /\ p.code = Step.code
          /\ Step.code \in {"COPY_OUT", "COPY_IN"} /\ Step.at \in Block
        BY <2>1, <1>5, Zenon
    <2> QED
        BY <2>2 DEF Knows, Leads
<1>7. /\ snippet' \in [code : Code, at : Block \cup {0}]
      /\ snippet'.code = Step.code /\ snippet'.at = Step.at
    BY <1>1, <1>6 DEF IInv, StateOK
<1>8. StateOK'
    <2>1. shared' \in Content
        BY <1>1, <1>4 DEF IInv, StateOK, Statement
    <2>2. guest' \in {"held", "run", "sync", "caught"} /\ prog' \in {"block", "memory"}
        BY <1>1, Zenon DEF Spinning, Derailed, IInv, StateOK
    <2>3. reset => guest' = "held"
        BY <1>1 DEF Spinning, IInv, StateOK
    <2>4. meddled' \in BOOLEAN
        BY <1>2, Zenon DEF IInv, StateOK
    <2> QED
        BY <1>1, <1>7, <2>1, <2>2, <2>3, <2>4 DEF IInv, StateOK
<1>9. Requested' /\ Baited'
    BY <1>1, <1>3 DEF IInv, Requested, Baited, Trapped, Trapping
<1>10. ASSUME NEW p \in Phase, NEW r \in Phase, Holds(p), Rule(Want, p, Step, r)
       PROVE  Holds(r)'
    <2>1. /\ Has(p)
          /\ r = Known("quiet", Step.code, Step.at, Step.data,
                       [p.has EXCEPT ![Step.at] = "unknown"])
        BY <1>5, <1>10, Zenon
    <2>2. /\ r.k = "quiet" /\ r.code = Step.code /\ r.at = Step.at /\ r.data = Step.data
          /\ r.has = [p.has EXCEPT ![Step.at] = "unknown"]
        BY <2>1 DEF Known
    <2>3. Has(r)'
        BY <1>1, <1>6, <2>1, <2>2 DEF Has, Phase
    <2>4. Knows(r)'
        BY <1>1, <1>6, <1>7, <2>2 DEF Knows, Leads
    <2> QED
        BY <1>1, <1>6, <2>2, <2>3, <2>4 DEF Holds, Quiet
<1>11. Outlined'
    BY <1>1, <1>10, Advance, Zenon DEF IInv
<1> QED
    BY <1>8, <1>9, <1>11, Zenon DEF RunInv

LEMMA SetBufferKeeps ==
    ASSUME IInv, SetBuffer, UNCHANGED <<cmd, polled, breakActive>>
    PROVE  RunInv'
<1> USE DEF core0, pins, block, state, core1, guestVars, history
<1>1. /\ script # <<>> /\ Step.op = "buffer" /\ script' = Tail(script) /\ shared' = Step.data
      /\ UNCHANGED <<line, reset, halt, snippet, resetVec, nmiVec, runState, busState, armed, ring,
                     lpc, savedNmi, guest, prog, nmi, memory, reached, asked, meddled>>
    BY Zenon DEF SetBuffer, At, Continue
<1>2. Step \in Statement
    BY <1>1, StepIsStatement DEF IInv
<1>3. StateOK' /\ Requested' /\ Baited'
    <2>1. shared' \in Content
        BY <1>1, <1>2 DEF Statement
    <2> QED
        BY <1>1, <2>1 DEF IInv, StateOK, Requested, Baited, Trapped
<1>4. ASSUME NEW p \in Phase, NEW r \in Phase, Holds(p), Rule(Want, p, Step, r)
      PROVE  Holds(r)'
    <2>1. \/ p.k = "quiet" /\ r = Forgetting("quiet", p)
          \/ p.k = "break" /\ r = p
          \/ r = Bare("any")
        BY <1>1, <1>4 DEF Rule, RunRule, LoadRule, OtherRule
    <2>2. CASE p.k = "quiet" /\ r = Forgetting("quiet", p)
        <3>1. r.k = "quiet" /\ r.code = "none" /\ r.has = p.has
            BY <2>2 DEF Forgetting, Known
        <3> QED
            BY <2>2, <3>1, <1>1, <1>4 DEF Holds, Quiet, Knows, Has
    <2>3. CASE p.k = "break" /\ r = p
        BY <2>3, <1>1, <1>4 DEF Holds, Trapped
    <2>4. CASE r = Bare("any")
        BY <2>4, Phases DEF Holds, Kinds
    <2> QED
        BY <2>1, <2>2, <2>3, <2>4
<1>5. Outlined'
    BY <1>1, <1>4, Advance, Zenon DEF IInv
<1> QED
    BY <1>3, <1>5, Zenon DEF RunInv

LEMMA SetVectorKeeps ==
    ASSUME IInv, SetVector, UNCHANGED <<cmd, polled, breakActive>>
    PROVE  RunInv'
<1> USE DEF core0, pins, block, state, core1, guestVars, history
<1>1. /\ script # <<>> /\ script' = Tail(script)
      /\ UNCHANGED <<line, reset, halt, snippet, shared, runState, busState, armed, ring, lpc,
                     savedNmi, guest, prog, nmi, memory, reached, asked>>
    BY Zenon DEF SetVector, At, Continue
<1>2. \/ Step.op = "reset_vector" /\ resetVec' = "memory" /\ UNCHANGED <<nmiVec, meddled>>
      \/ /\ Step.op = "vectors" /\ resetVec' = "memory" /\ nmiVec' = "memory"
         /\ meddled' = (meddled \/ Trapping)
      \/ Step.op = "nmi_vector" /\ nmiVec' = "snippet" /\ UNCHANGED <<resetVec, meddled>>
    BY Zenon DEF SetVector, At
<1>3. StateOK'
    <2>1. resetVec' \in {"snippet", "memory"} /\ nmiVec' \in {"snippet", "memory"}
        BY <1>2, Zenon DEF IInv, StateOK
    <2>2. meddled' = meddled \/ meddled' = TRUE \/ meddled' = FALSE
        BY <1>2, Zenon
    <2>3. meddled' \in BOOLEAN
        BY <2>2, Zenon DEF IInv, StateOK
    <2> QED
        BY <1>1, <2>1, <2>3 DEF IInv, StateOK
<1>4. Requested'
    BY <1>1 DEF IInv, Requested
<1>5. Baited'
    <2>1. CASE Step.op = "vectors"
        <3>1. meddled' = (meddled \/ Trapping)
            BY <2>1, <1>2
        <3>2. ~meddled' => ~Trapping
            BY <3>1, Zenon
        <3> QED
            BY <1>1, <3>2 DEF IInv, Baited, Trapped, Trapping
    <2>2. CASE Step.op # "vectors"
        <3>1. (nmiVec' = nmiVec \/ nmiVec' = "snippet") /\ meddled' = meddled
            BY <2>2, <1>2
        <3> QED
            BY <1>1, <3>1 DEF IInv, Baited, Trapped
    <2> QED
        BY <2>1, <2>2
<1>6. ASSUME NEW p \in Phase, NEW r \in Phase, Holds(p), Rule(Want, p, Step, r)
      PROVE  Holds(r)'
    <2>1. \/ /\ Step.op = "reset_vector" /\ p.k = "quiet" /\ p.code = "COPY_OUT"
             /\ r = Known("quiet", "memory", 0, "zero", p.has)
          \/ p.k = "quiet" /\ r = Forgetting("quiet", p)
          \/ Step.op = "reset_vector" /\ p.k = "ready" /\ r = p
          \/ Step.op = "nmi_vector" /\ p.k = "break" /\ r = p
          \/ r = Bare("any")
        BY <1>2, <1>6 DEF Rule, RunRule, LoadRule, OtherRule
    <2>2. CASE /\ Step.op = "reset_vector" /\ p.k = "quiet" /\ p.code = "COPY_OUT"
               /\ r = Known("quiet", "memory", 0, "zero", p.has)
        <3>1. r.k = "quiet" /\ r.code = "memory" /\ r.has = p.has
            BY <2>2 DEF Known
        <3>2. resetVec' = "memory"
            BY <2>2, <1>2
        <3>3. snippet.code = "COPY_OUT"
            BY <2>2, <1>6 DEF Holds, Knows, Leads
        <3> QED
            BY <2>2, <3>1, <3>2, <3>3, <1>1, <1>6 DEF Holds, Quiet, Knows, Leads, Has
    <2>3. CASE p.k = "quiet" /\ r = Forgetting("quiet", p)
        <3>1. r.k = "quiet" /\ r.code = "none" /\ r.has = p.has
            BY <2>3 DEF Forgetting, Known
        <3> QED
            BY <2>3, <3>1, <1>1, <1>6 DEF Holds, Quiet, Knows, Has
    <2>4. CASE p.k = "ready" /\ r = p
        BY <2>4, <1>1, <1>6 DEF Holds, Quiet
    <2>5. CASE Step.op = "nmi_vector" /\ p.k = "break" /\ r = p
        BY <2>5, <1>1, <1>2, <1>6 DEF Holds, Trapped
    <2>6. CASE r = Bare("any")
        BY <2>6, Phases DEF Holds, Kinds
    <2> QED
        BY <2>1, <2>2, <2>3, <2>4, <2>5, <2>6
<1>7. Outlined'
    BY <1>1, <1>6, Advance, Zenon DEF IInv
<1> QED
    BY <1>3, <1>4, <1>5, <1>7, Zenon DEF RunInv

LEMMA SetupKeeps ==
    ASSUME IInv, Setup, UNCHANGED <<cmd, polled, breakActive>>
    PROVE  RunInv'
<1> USE DEF core0, pins, block, state, core1, guestVars, history
<1>1. /\ script # <<>> /\ Step.op = "setup" /\ script' = Tail(script)
      /\ runState' = "RESET" /\ busState' = "run" /\ reached' = "none"
      /\ UNCHANGED <<line, reset, halt, snippet, resetVec, nmiVec, shared, ring, lpc, savedNmi,
                     guest, prog, nmi, memory>>
    BY Zenon DEF Setup, At, Continue
<1>2. armed' = FALSE /\ asked' = FALSE /\ meddled' = FALSE
    BY Zenon DEF Setup
<1>3. ASSUME NEW p \in Phase, NEW r \in Phase, Holds(p), Rule(Want, p, Step, r)
      PROVE  Quiet /\ Knows(p) /\ Has(p) /\ r = As("set", p)
    <2>1. p.k = "quiet" /\ r = As("set", p)
        BY <1>1, <1>3 DEF Rule, RunRule, LoadRule, OtherRule
    <2> QED
        BY <2>1, <1>3 DEF Holds
<1>4. Quiet
    BY <1>1, <1>3, PhaseBefore, Zenon DEF IInv
<1>5. StateOK'
    <2>1. armed' \in BOOLEAN /\ asked' \in BOOLEAN /\ meddled' \in BOOLEAN
        BY <1>2, Zenon
    <2> QED
        BY <1>1, <2>1 DEF IInv, StateOK
<1>6. Requested' /\ Baited'
    <2>1. ~armed'
        BY <1>2, Zenon
    <2> QED
        BY <1>1, <1>4, <2>1 DEF Quiet, Requested, Baited, Trapped
<1>7. ASSUME NEW p \in Phase, NEW r \in Phase, Holds(p), Rule(Want, p, Step, r)
      PROVE  Holds(r)'
    <2>1. Knows(p) /\ Has(p) /\ r = As("set", p)
        BY <1>3, <1>7, Zenon
    <2>2. r.k = "set" /\ r.code = p.code /\ r.at = p.at /\ r.data = p.data /\ r.has = p.has
        BY <2>1 DEF As, Known
    <2>3. ~armed'
        BY <1>2, Zenon
    <2> QED
        BY <1>1, <1>4, <2>1, <2>2, <2>3 DEF Holds, Quiet, Knows, Leads, Has
<1>8. Outlined'
    BY <1>1, <1>7, Advance, Zenon DEF IInv
<1> QED
    BY <1>5, <1>6, <1>8, Zenon DEF RunInv

LEMMA ReleaseKeeps ==
    ASSUME IInv, Release, UNCHANGED <<cmd, polled, breakActive>>
    PROVE  RunInv'
<1> USE DEF core0, pins, block, state, core1, guestVars, history
<1>1. /\ script # <<>> /\ Step.op = "release" /\ script' = Tail(script)
      /\ UNCHANGED <<line, halt, snippet, resetVec, nmiVec, shared, runState, busState, armed, ring,
                     lpc, savedNmi, guest, prog, nmi, memory, reached, asked, meddled>>
    BY Zenon DEF Release, At, Continue
<1>2. reset' = FALSE
    BY Zenon DEF Release
<1>3. StateOK'
    <2>1. reset' \in BOOLEAN /\ ~reset'
        BY <1>2, Zenon
    <2> QED
        BY <1>1, <2>1 DEF IInv, StateOK
<1>4. Requested' /\ Baited'
    BY <1>1 DEF IInv, Requested, Baited, Trapped
<1>5. ASSUME NEW p \in Phase, NEW r \in Phase, Holds(p), Rule(Want, p, Step, r)
      PROVE  Holds(r)'
    <2>1. /\ p.k = "set"
          /\ \/ r = Bare("any")
             \/ /\ p.code # "none" /\ r = As("run", p)
                /\ p.code = "COPY_OUT" => p.at \in Block /\ p.has[p.at] = "unknown"
        BY <1>1, <1>5 DEF Rule, RunRule, LoadRule, OtherRule
    <2>2. Quiet /\ Knows(p) /\ Has(p) /\ ~armed /\ reached = "none"
        BY <2>1, <1>5 DEF Holds
    <2>3. CASE r = Bare("any")
        BY <2>3, Phases DEF Holds, Kinds
    <2>4. CASE /\ p.code # "none" /\ r = As("run", p)
               /\ p.code = "COPY_OUT" => p.at \in Block /\ p.has[p.at] = "unknown"
        <3>1. r.k = "run" /\ r.code = p.code /\ r.at = p.at /\ r.data = p.data /\ r.has = p.has
            BY <2>4 DEF As, Known
        <3>2. ~reset' /\ guest = "held" /\ runState = "RESET" /\ ring = <<>> /\ lpc = "idle"
            BY <1>2, <2>2 DEF Quiet, IInv, StateOK
        <3>3. CASE p.code = "memory"
            <4>1. MemoryRuns'
                BY <3>2, <3>3, <2>2, <1>1 DEF MemoryRuns, Knows, Leads
            <4> QED
                BY <3>1, <3>2, <3>3, <4>1 DEF Holds
        <3>4. CASE p.code # "memory"
            <4>1. SnippetRuns(r)'
                BY <2>2, <2>4, <3>1, <3>2, <1>1 DEF SnippetRuns
            <4>2. Knows(r)' /\ Has(r)'
                BY <2>2, <3>1, <1>1 DEF Knows, Leads, Has
            <4> QED
                BY <2>4, <3>1, <3>2, <3>4, <4>1, <4>2 DEF Holds
        <3> QED
            BY <3>3, <3>4
    <2> QED
        BY <2>1, <2>3, <2>4
<1>6. Outlined'
    BY <1>1, <1>5, Advance, Zenon DEF IInv
<1> QED
    BY <1>3, <1>4, <1>6, Zenon DEF RunInv

LEMMA AssertResetKeeps ==
    ASSUME IInv, AssertReset, UNCHANGED <<cmd, polled, breakActive>>
    PROVE  RunInv'
<1> USE DEF core0, pins, block, state, core1, guestVars, history
<1>1. /\ script # <<>> /\ Step.op = "assert" /\ script' = Tail(script)
      /\ guest' = "held" /\ reached' = "none"
      /\ UNCHANGED <<line, halt, snippet, resetVec, nmiVec, shared, runState, busState, armed, ring,
                     lpc, savedNmi, prog, memory, asked, meddled>>
    BY Zenon DEF AssertReset, HoldGuest, At, Continue
<1>2. reset' = TRUE /\ nmi' = FALSE
    BY Zenon DEF AssertReset, HoldGuest
<1>3. StateOK'
    <2>1. reset' \in BOOLEAN /\ nmi' \in BOOLEAN /\ ~nmi'
        BY <1>2, Zenon
    <2> QED
        BY <1>1, <2>1 DEF IInv, StateOK
<1>4. Requested' /\ Baited'
    BY <1>1 DEF IInv, Requested, Baited, Trapped
<1>5. ASSUME NEW p \in Phase, NEW r \in Phase, Holds(p), Rule(Want, p, Step, r)
      PROVE  Holds(r)'
    <2>1. r = Bare("over")
        BY <1>1, <1>5 DEF Rule, RunRule, LoadRule, OtherRule
    <2>2. r.k = "over" /\ r.code = "none" /\ Has(r)'
        BY <2>1, Phases, Unknown DEF Kinds
    <2> QED
        BY <2>2, <1>2 DEF Holds
<1>6. Outlined'
    BY <1>1, <1>5, Advance, Zenon DEF IInv
<1> QED
    BY <1>3, <1>4, <1>6, Zenon DEF RunInv

LEMMA HoldKeeps ==
    ASSUME IInv, Hold, UNCHANGED <<cmd, polled, breakActive>>
    PROVE  RunInv'
<1> USE DEF core0, pins, block, state, core1, guestVars, history
<1>1. /\ script # <<>> /\ Step.op = "hold" /\ script' = Tail(script)
      /\ Seen /\ ring = <<>> /\ lpc = "idle"
      /\ UNCHANGED <<line, reset, halt, snippet, resetVec, nmiVec, shared, runState, busState, armed,
                     ring, lpc, savedNmi, guest, prog, nmi, memory, reached, asked, meddled>>
    BY Zenon DEF Hold, Held, At, Continue
<1>2. StateOK' /\ Requested' /\ Baited'
    BY <1>1 DEF IInv, StateOK, Requested, Baited, Trapped
<1>3. ASSUME NEW p \in Phase, NEW r \in Phase, Holds(p), Rule(Want, p, Step, r)
      PROVE  Holds(r)'
    <2>1. p.k = "over" /\ r = As("quiet", p)
        BY <1>1, <1>3 DEF Rule, RunRule, LoadRule, OtherRule
    <2>2. r.k = "quiet" /\ r.code = p.code /\ r.at = p.at /\ r.data = p.data /\ r.has = p.has
        BY <2>1 DEF As, Known
    <2>3. Quiet'
        BY <2>1, <1>1, <1>3 DEF Holds, Quiet, Seen
    <2>4. Knows(r)' /\ Has(r)'
        BY <2>1, <2>2, <1>1, <1>3 DEF Holds, Knows, Leads, Has
    <2> QED
        BY <2>2, <2>3, <2>4 DEF Holds
<1>4. Outlined'
    BY <1>1, <1>3, Advance, Zenon DEF IInv
<1> QED
    BY <1>2, <1>4, Zenon DEF RunInv

\* Statements that change nothing that an outline speaks of.
LEMMA IdlesKeep ==
    ASSUME IInv, SetHalt \/ Await \/ SetLine, UNCHANGED <<cmd, polled, breakActive>>
    PROVE  RunInv'
<1> USE DEF core0, pins, block, state, core1, guestVars, history
<1>1. /\ script # <<>> /\ script' = Tail(script)
      /\ Step.op \in {"halt", "go_on", "await", "line_on", "line_off"}
      /\ UNCHANGED <<reset, snippet, resetVec, nmiVec, shared, runState, busState, armed,
                     ring, lpc, savedNmi, guest, prog, nmi, memory, reached, asked, meddled>>
    BY Zenon DEF SetHalt, Await, SetLine, At, Continue
<1>2. halt' \in BOOLEAN /\ line' \in BOOLEAN
    BY Zenon DEF SetHalt, Await, SetLine, IInv, StateOK
<1>3. StateOK' /\ Requested' /\ Baited'
    BY <1>1, <1>2 DEF IInv, StateOK, Requested, Baited, Trapped
<1>4. ASSUME NEW p \in Phase, NEW r \in Phase, Holds(p), Rule(Want, p, Step, r)
      PROVE  Holds(r)'
    <2>1. r = p
        BY <1>1, <1>4 DEF Rule, RunRule, LoadRule, OtherRule
    <2>2. /\ Knows(p)' <=> Knows(p)
          /\ Has(p)' <=> Has(p)
          /\ SnippetRuns(p)' <=> SnippetRuns(p)
          /\ MemoryRuns' <=> MemoryRuns
          /\ Quiet' <=> Quiet
          /\ Trapped' <=> Trapped
        BY <1>1 DEF Knows, Leads, Has, SnippetRuns, MemoryRuns, Quiet, Trapped
    <2> QED
        BY <1>1, <1>4, <2>1, <2>2 DEF Holds
<1>5. Outlined'
    BY <1>1, <1>4, Advance, Zenon DEF IInv
<1> QED
    BY <1>3, <1>5, Zenon DEF RunInv

LEMMA VerdictKeeps ==
    ASSUME IInv, Verdict, UNCHANGED <<cmd, polled, breakActive>>
    PROVE  RunInv'
<1> USE DEF core0, pins, block, state, core1, guestVars, history
<1>1. /\ script # <<>> /\ Step.op = "judge"
      /\ guest' = "held" /\ reached' = "none"
      /\ UNCHANGED <<line, halt, snippet, resetVec, nmiVec, shared, runState, busState, armed, ring,
                     lpc, savedNmi, prog, memory, asked, meddled>>
    BY Zenon DEF Verdict, HoldGuest, At
<1>2. reset' = TRUE /\ nmi' = FALSE
    BY Zenon DEF Verdict, HoldGuest
<1>3. (runState = "SYNCED" /\ script' = Tail(script)) \/ script' = <<Do("hold")>>
    BY Zenon DEF Verdict, Continue
<1>4. StateOK'
    <2>1. reset' \in BOOLEAN /\ nmi' \in BOOLEAN /\ ~nmi'
        BY <1>2, Zenon
    <2> QED
        BY <1>1, <2>1 DEF IInv, StateOK
<1>5. Requested' /\ Baited'
    BY <1>1 DEF IInv, Requested, Baited, Trapped
<1>6. ASSUME runState = "SYNCED", NEW p \in Phase, NEW r \in Phase, Holds(p),
             Rule(Want, p, Step, r)
      PROVE  Holds(r)'
    <2>1. p.k = "run" /\ r = As("over", Ran(p))
        BY <1>1, <1>6 DEF Rule, RunRule, LoadRule, OtherRule
    <2>2. CASE p.code = "memory"
        <3>1. r.k = "over" /\ r.code = "none" /\ r.has = Nothing
            BY <2>1, <2>2 DEF Ran, As, Known, Bare
        <3>2. Has(r)'
            BY <3>1 DEF Has, Nothing
        <3> QED
            BY <3>1, <3>2, <1>2 DEF Holds
    <2>3. CASE p.code # "memory"
        <3>1. SnippetRuns(p) /\ Knows(p) /\ Has(p) /\ p.code # "none"
            BY <2>1, <2>3, <1>6 DEF Holds
        <3>2. /\ r.k = "over" /\ r.code = p.code /\ r.at = p.at /\ r.data = p.data
              /\ r.has = IF p.code = "COPY_OUT" THEN [p.has EXCEPT ![p.at] = p.data] ELSE p.has
            BY <2>1, <2>3 DEF Ran, As, Known
        <3>3. /\ ring = <<>> /\ lpc = "idle"
              /\ p.code = "COPY_OUT" => p.at \in Block /\ memory[snippet.at] = shared
            BY <3>1, <1>6 DEF SnippetRuns
        <3>4. Knows(r)'
            BY <3>1, <3>2, <1>1 DEF Knows, Leads
        <3>5. Has(r)'
            <4>1. CASE p.code = "COPY_OUT"
                <5>1. p.at # 0
                    BY <3>3, <4>1, ConsoleAssumption DEF Low, High
                <5>2. memory[p.at] = p.data
                    BY <3>1, <3>3, <4>1, <5>1 DEF Knows
                <5> QED
                    BY <3>1, <3>2, <4>1, <5>2, <1>1 DEF Has, Phase
            <4>2. CASE p.code # "COPY_OUT"
                BY <3>1, <3>2, <4>2, <1>1 DEF Has
            <4> QED
                BY <4>1, <4>2
        <3> QED
            BY <3>2, <3>3, <3>4, <3>5, <1>1, <1>2 DEF Holds
    <2> QED
        BY <2>2, <2>3
<1>7. Outlined'
    <2>1. CASE runState = "SYNCED" /\ script' = Tail(script)
        BY <2>1, <1>1, <1>6, Advance, Zenon DEF IInv
    <2>2. CASE script' = <<Do("hold")>>
        BY <2>2, <1>2, Dropped, Zenon
    <2> QED
        BY <1>3, <2>1, <2>2
<1> QED
    BY <1>4, <1>5, <1>7, Zenon DEF RunInv

-----------------------------------------------------------------------------
(* The console's own steps.                                                *)

LEMMA RunStepKeeps ==
    ASSUME IInv, RunStep
    PROVE  IInv'
<1>1. Core0Step /\ UNCHANGED <<cmd, polled, breakActive>>
    BY Zenon DEF RunStep
<1>2. RunInv'
    BY <1>1, AssertStoppedKeeps, LoadSnippetKeeps, SetOperandsKeeps, SetBufferKeeps, SetVectorKeeps,
       SetupKeeps, ReleaseKeeps, AssertResetKeeps, HoldKeeps, IdlesKeep, VerdictKeeps, Zenon
       DEF Core0Step
<1>3. ignore' = TRUE \/ ignore' = FALSE
    BY Zenon DEF RunStep
<1>4. ignore' \in BOOLEAN
    BY <1>3, Zenon
<1>5. ConsoleTypeOK'
    BY <1>1, <1>4, Zenon DEF IInv, ConsoleTypeOK
<1> QED
    BY <1>2, <1>5, Zenon DEF IInv, RunInv

LEMMA ClearRegistersKeeps ==
    ASSUME IInv, ClearRegisters
    PROVE  IInv'
<1> USE DEF core0, pins, block, state, core1, guestVars, history, consoleVars
<1>1. /\ script # <<>> /\ Step.op = "clear" /\ script' = Tail(script)
      /\ snippet' = [code |-> "USER", at |-> 0] /\ resetVec' = "memory" /\ nmiVec' = "memory"
      /\ shared' = "zero" /\ prog' = Derailed /\ guest' = Spinning("USER")
      /\ UNCHANGED <<line, reset, halt, runState, busState, armed, ring, lpc, savedNmi,
                     nmi, memory, reached, asked, cmd, polled, breakActive, ignore>>
    BY Zenon DEF ClearRegisters, At, Continue
<1>2. meddled' = meddled \/ meddled' = TRUE
    BY Zenon DEF ClearRegisters, IInv, StateOK
<1>3. ~meddled' => ~meddled /\ ~Trapping
    BY Zenon DEF ClearRegisters
<1>4. StateOK' /\ ConsoleTypeOK'
    <2>1. guest' \in {"held", "run", "sync", "caught"} /\ prog' \in {"block", "memory"}
        BY <1>1, Zenon DEF Spinning, Derailed, IInv, StateOK
    <2>2. reset => guest' = "held"
        BY <1>1 DEF Spinning, IInv, StateOK
    <2>3. meddled' \in BOOLEAN
        BY <1>2, Zenon DEF IInv, StateOK
    <2>4. snippet' \in [code : Code, at : Block \cup {0}] /\ shared' \in Content
        BY <1>1 DEF Code, Content
    <2> QED
        BY <1>1, <2>1, <2>2, <2>3, <2>4 DEF IInv, StateOK, ConsoleTypeOK
<1>5. Requested' /\ Baited'
    BY <1>1, <1>3 DEF IInv, Requested, Baited, Trapped, Trapping
<1>6. ASSUME NEW p \in Phase, NEW r \in Phase, Holds(p), Rule(Want, p, Step, r)
      PROVE  Holds(r)'
    <2>1. r = Bare("any")
        BY <1>1, <1>6 DEF Rule, RunRule, LoadRule, OtherRule
    <2> QED
        BY <2>1, Phases DEF Holds, Kinds
<1>7. Outlined'
    BY <1>1, <1>6, Advance, Zenon DEF IInv
<1> QED
    BY <1>4, <1>5, <1>7, Zenon DEF IInv

LEMMA PushWriteKeeps ==
    ASSUME IInv, PushWrite
    PROVE  IInv'
<1> USE DEF core0, pins, block, state, core1, guestVars, history, consoleVars
<1>1. /\ script # <<>> /\ Step.op = "push" /\ script' = Tail(script) /\ asked' = TRUE
      /\ Len(ring) < MaxRing /\ \E w \in {"arm", "disarm"} : ring' = Append(ring, w)
      /\ UNCHANGED <<line, reset, halt, snippet, resetVec, nmiVec, shared, runState, busState,
                     armed, lpc, savedNmi, guest, prog, nmi, memory, reached, meddled,
                     cmd, polled, breakActive, ignore>>
    BY Zenon DEF PushWrite, At, Continue
<1>2. StateOK' /\ ConsoleTypeOK'
    <2>1. ring' \in Seq({"arm", "disarm"}) /\ Len(ring') <= MaxRing
        BY <1>1, Queued DEF IInv
    <2>2. asked' \in BOOLEAN
        BY <1>1, Zenon
    <2> QED
        BY <1>1, <2>1, <2>2 DEF IInv, StateOK, ConsoleTypeOK
<1>3. Requested' /\ Baited'
    BY <1>1 DEF IInv, Requested, Baited, Trapped
<1>4. ASSUME NEW p \in Phase, NEW r \in Phase, Holds(p), Rule(Want, p, Step, r)
      PROVE  Holds(r)'
    <2>1. r = Bare("any")
        BY <1>1, <1>4 DEF Rule, RunRule, LoadRule, OtherRule
    <2> QED
        BY <2>1, Phases DEF Holds, Kinds
<1>5. Outlined'
    BY <1>1, <1>4, Advance, Zenon DEF IInv
<1> QED
    BY <1>2, <1>3, <1>5, Zenon DEF IInv

LEMMA SignalKeeps ==
    ASSUME IInv, Signal
    PROVE  IInv'
<1> USE DEF core0, pins, block, state, core1, guestVars, history, consoleVars
<1>1. /\ script # <<>> /\ Step.op = "signal"
      /\ UNCHANGED <<line, reset, halt, snippet, resetVec, nmiVec, shared, runState, busState, armed,
                     ring, lpc, savedNmi, guest, prog, nmi, memory, reached, asked, meddled,
                     cmd, polled, breakActive, ignore>>
    BY Zenon DEF Signal, At
<1>2. script' = Tail(script) \/ script' = Stop
    BY Zenon DEF Signal, Continue
<1>3. StateOK' /\ ConsoleTypeOK' /\ Requested' /\ Baited'
    BY <1>1 DEF IInv, StateOK, ConsoleTypeOK, Requested, Baited, Trapped
<1>4. ASSUME NEW p \in Phase, NEW r \in Phase, Holds(p), Rule(Want, p, Step, r)
      PROVE  Holds(r)'
    <2>1. r = p
        BY <1>1, <1>4 DEF Rule, RunRule, LoadRule, OtherRule
    <2> QED
        BY <1>1, <1>4, <2>1
        DEF Holds, Knows, Leads, Has, SnippetRuns, MemoryRuns, Quiet, Trapped
<1>5. Outlined'
    <2>1. CASE script' = Tail(script)
        BY <2>1, <1>1, <1>4, Advance, Zenon DEF IInv
    <2>2. CASE script' = Stop
        BY <2>2, Dropped
    <2> QED
        BY <1>2, <2>1, <2>2
<1> QED
    BY <1>3, <1>5, Zenon DEF IInv

LEMMA CatchKeeps ==
    ASSUME IInv, Catch
    PROVE  IInv'
<1> USE DEF core0, pins, block, state, core1, guestVars, history, consoleVars
<1>1. /\ script # <<>> /\ Step.op = "catch"
      /\ UNCHANGED <<line, reset, halt, snippet, resetVec, nmiVec, shared, runState, busState, armed,
                     ring, lpc, savedNmi, guest, prog, nmi, memory, reached, asked, meddled,
                     cmd, polled, breakActive, ignore>>
    BY Zenon DEF Catch, At
<1>2. script' = Tail(script) \/ script' = <<Do("line_off")>>
    BY Zenon DEF Catch, Continue
<1>3. StateOK' /\ ConsoleTypeOK' /\ Requested' /\ Baited'
    BY <1>1 DEF IInv, StateOK, ConsoleTypeOK, Requested, Baited, Trapped
<1>4. ASSUME NEW p \in Phase, NEW r \in Phase, Holds(p), Rule(Want, p, Step, r)
      PROVE  Holds(r)'
    <2>1. r = p
        BY <1>1, <1>4 DEF Rule, RunRule, LoadRule, OtherRule
    <2> QED
        BY <1>1, <1>4, <2>1
        DEF Holds, Knows, Leads, Has, SnippetRuns, MemoryRuns, Quiet, Trapped
<1>5. Outlined'
    <2>1. CASE script' = Tail(script)
        BY <2>1, <1>1, <1>4, Advance, Zenon DEF IInv
    <2>2. CASE script' = <<Do("line_off")>>
        BY <2>2, Dropped
    <2> QED
        BY <1>2, <2>1, <2>2
<1> QED
    BY <1>3, <1>5, Zenon DEF IInv

LEMMA BreakStepsKeep ==
    ASSUME IInv, BreakSteps
    PROVE  IInv'
<1> USE DEF core0, pins, block, state, core1, guestVars, history, consoleVars
<1>1. /\ script # <<>> /\ script' = Tail(script)
      /\ UNCHANGED <<line, reset, halt, resetVec, nmiVec, shared, runState, busState, armed,
                     ring, lpc, savedNmi, prog, nmi, memory, reached, asked, meddled,
                     cmd, polled, ignore>>
    BY Zenon DEF BreakSteps, At, Continue
<1>2. \/ Step.op = "active" /\ breakActive' = TRUE /\ UNCHANGED <<snippet, guest>>
      \/ /\ Step.op = "return" /\ breakActive' = FALSE /\ guest' = Spinning("RETURNED")
         /\ snippet' = IF snippet.code = "BREAK" THEN [snippet EXCEPT !.code = "RETURNED"]
                       ELSE [code |-> "USER", at |-> 0]
    BY Zenon DEF BreakSteps, At
<1>3. PICK p \in Phase, r \in Phase : Holds(p) /\ Rule(Want, p, Step, r)
    BY <1>1, PhaseBefore DEF IInv
<1>4. ASSUME NEW s \in Phase, NEW t \in Phase, Rule(Want, s, Step, t)
      PROVE  t = Bare("any") /\ s.k = IF Step.op = "active" THEN "break" ELSE "active"
    BY <1>2, <1>4 DEF Rule, RunRule, LoadRule, OtherRule
<1>5. ASSUME NEW s \in Phase, NEW t \in Phase, Holds(s), Rule(Want, s, Step, t)
      PROVE  Holds(t)'
    <2>1. t = Bare("any")
        BY <1>4, <1>5
    <2> QED
        BY <2>1, Phases DEF Holds, Kinds
<1>6. Outlined'
    BY <1>1, <1>5, Advance, Zenon DEF IInv
<1>7. CASE Step.op = "active"
    <2>1. UNCHANGED <<snippet, guest>> /\ p.k = "break"
        BY <1>2, <1>3, <1>4, <1>7
    <2>2. breakActive' \in BOOLEAN
        BY <1>2, Zenon
    <2>3. StateOK' /\ ConsoleTypeOK' /\ Requested'
        BY <1>1, <2>1, <2>2 DEF IInv, StateOK, ConsoleTypeOK, Requested
    <2>4. Baited'
        BY <1>1, <1>3, <2>1 DEF IInv, Baited, Trapped, Holds
    <2> QED
        BY <1>6, <2>3, <2>4, Zenon DEF IInv
<1>8. CASE Step.op = "return"
    <2>1. /\ breakActive' = FALSE /\ guest' = Spinning("RETURNED") /\ p.k = "active"
          /\ snippet' = IF snippet.code = "BREAK" THEN [snippet EXCEPT !.code = "RETURNED"]
                        ELSE [code |-> "USER", at |-> 0]
        BY <1>2, <1>3, <1>4, <1>8
    <2>2. breakActive' \in BOOLEAN /\ ~breakActive'
        BY <2>1, Zenon
    <2>3. breakActive
        BY <2>1, <1>3 DEF Holds
    <2>4. /\ snippet' \in [code : Code, at : Block \cup {0}]
          /\ snippet.code = "BREAK" => snippet'.code = "RETURNED"
        BY <2>1 DEF IInv, StateOK, Code
    <2>5. guest' \in {"held", "run", "sync", "caught"} /\ (reset => guest' = "held")
        BY <2>1 DEF Spinning, IInv, StateOK
    <2>6. StateOK' /\ ConsoleTypeOK' /\ Requested'
        BY <1>1, <2>2, <2>4, <2>5 DEF IInv, StateOK, ConsoleTypeOK, Requested
    <2>7. Baited'
        BY <1>1, <2>2, <2>3, <2>4 DEF IInv, Baited, Trapped
    <2> QED
        BY <1>6, <2>6, <2>7, Zenon DEF IInv
<1> QED
    BY <1>2, <1>7, <1>8

LEMMA PollWatchpointKeeps ==
    ASSUME IInv, PollWatchpoint
    PROVE  IInv'
<1> USE DEF core0, pins, block, state, core1, guestVars, history, consoleVars
<1>1. UNCHANGED <<line, reset, halt, snippet, resetVec, nmiVec, shared, runState, busState,
                  ring, lpc, savedNmi, guest, prog, nmi, memory, reached, asked, meddled,
                  breakActive, ignore>>
    BY Zenon DEF PollWatchpoint
<1>2. /\ script' = Stop \/ script' = <<>>
      /\ armed' = FALSE \/ armed' = armed
      /\ cmd' = "none" /\ polled' = TRUE
    BY Zenon DEF PollWatchpoint
<1>3. armed' \in BOOLEAN /\ polled' \in BOOLEAN /\ (armed' => armed)
    <2>1. CASE armed' = FALSE
        BY <1>2, <2>1, Zenon
    <2>2. CASE armed' = armed
        BY <1>2, <2>2, Zenon DEF IInv, StateOK
    <2> QED
        BY <1>2, <2>1, <2>2, Zenon
<1>4. StateOK' /\ ConsoleTypeOK' /\ Requested' /\ Baited'
    BY <1>1, <1>2, <1>3 DEF IInv, StateOK, ConsoleTypeOK, Requested, Baited, Trapped
<1>5. Outlined'
    BY <1>2, Dropped, Zenon
<1> QED
    BY <1>4, <1>5, Zenon DEF IInv

LEMMA CommandKeeps ==
    ASSUME IInv, NEW c \in Commands, Command(c)
    PROVE  IInv'
<1> USE DEF core0, pins, block, state, core1, guestVars, history, consoleVars
<1>1. /\ Seen /\ (reset => ring = <<>> /\ lpc = "idle")
      /\ cmd' = c /\ script' = Script(c) /\ polled' = FALSE /\ ignore' = Ignoring(c)
      /\ UNCHANGED <<line, reset, halt, snippet, resetVec, nmiVec, shared, runState, busState, armed,
                     ring, lpc, savedNmi, guest, prog, nmi, memory, reached, asked, meddled,
                     breakActive>>
    BY Zenon DEF Command
<1>2. c \in CommandNames
    BY ConsoleAssumption
<1>3. StateOK' /\ ConsoleTypeOK' /\ Requested' /\ Baited'
    <2>1. ignore' = ignore \/ ignore' = TRUE \/ ignore' = FALSE
        BY <1>1, Zenon DEF Ignoring, IInv, ConsoleTypeOK
    <2>2. ignore' \in BOOLEAN /\ polled' \in BOOLEAN
        BY <1>1, <2>1, Zenon DEF IInv, ConsoleTypeOK
    <2> QED
        BY <1>1, <1>2, <2>2 DEF IInv, StateOK, ConsoleTypeOK, Requested, Baited, Trapped
<1>4. Outlined'
    <2>1. PICK p \in Phase : Ready(p) /\ Outlinable(WantOf(c), Script(c), p)
        BY <1>2, ScriptOutline
    <2>2. PICK q \in Phase : Outline(WantOf(c), Script(c), p, q)
        BY <2>1, Zenon DEF Outlinable
    <2>3. Outline(Want', script', p, q)
        BY <1>1, <2>2, Zenon DEF Want
    <2>4. Holds(p)'
        <3>1. IF reset THEN Quiet ELSE runState # "RESET"
            BY <1>1 DEF Seen, Quiet
        <3>2. \A k \in Kinds : Bare(k).k = k
            BY Phases
        <3>3. CASE p = Bare("quiet") /\ runState = "RESET"
            <4>1. Quiet'
                BY <1>1, <3>1, <3>3 DEF Quiet
            <4>2. Knows(p)' /\ Has(p)' /\ p.k = "quiet"
                BY <3>2, <3>3, Unknown DEF Kinds
            <4> QED
                BY <4>1, <4>2 DEF Holds
        <3>4. CASE p = Bare("ready")
            BY <1>1, <3>1, <3>2, <3>4 DEF Holds, Quiet, Kinds
        <3>5. CASE p = Bare("any")
            BY <3>2, <3>5 DEF Holds, Kinds
        <3>6. CASE p = Bare("active") /\ breakActive
            BY <1>1, <3>2, <3>6 DEF Holds, Kinds
        <3> QED
            BY <2>1, <3>3, <3>4, <3>5, <3>6, Zenon DEF Ready
    <2> QED
        BY <2>3, <2>4, Zenon DEF Outlined
<1> QED
    BY <1>3, <1>4, Zenon DEF IInv

-----------------------------------------------------------------------------
(* The invariant, and what follows from it.                                *)

LEMMA IInvInit == ConsoleInit => IInv
<1> SUFFICES ASSUME ConsoleInit PROVE IInv
    OBVIOUS
<1>1. /\ script = <<>> /\ snippet = [code |-> "SYNC", at |-> 0] /\ resetVec = "snippet"
      /\ nmiVec = "snippet" /\ shared = "zero" /\ runState = "RESET" /\ busState = "run"
      /\ ring = <<>> /\ lpc = "idle" /\ savedNmi = "memory" /\ guest = "held" /\ prog = "block"
      /\ memory = [b \in Block |-> "torn"] /\ reached = "none" /\ cmd = "none"
    BY Zenon DEF ConsoleInit, Init, Torn
<1>2. /\ reset \in BOOLEAN /\ halt \in BOOLEAN /\ line \in BOOLEAN /\ armed \in BOOLEAN
      /\ nmi \in BOOLEAN /\ asked \in BOOLEAN /\ meddled \in BOOLEAN
      /\ polled \in BOOLEAN /\ breakActive \in BOOLEAN /\ ignore \in BOOLEAN
      /\ ~armed /\ ~nmi
    BY Zenon DEF ConsoleInit, Init
<1>3. StateOK
    BY <1>1, <1>2, RunControlAssumption DEF StateOK, Content, Code
<1>4. ConsoleTypeOK /\ Requested /\ Baited
    BY <1>1, <1>2 DEF ConsoleTypeOK, Requested, Baited, Trapped
<1>5. Outlined
    <2>1. Bare("any") \in Phase /\ Bare("any").k = "any"
        BY Phases DEF Kinds
    <2>2. Holds(Bare("any"))
        BY <2>1 DEF Holds
    <2>3. Outline(Want, script, Bare("any"), Bare("any"))
        BY <1>1, <2>1, OutlineNone
    <2> QED
        BY <2>1, <2>2, <2>3, Zenon DEF Outlined
<1> QED
    BY <1>3, <1>4, <1>5, Zenon DEF IInv

LEMMA StutterKeeps ==
    ASSUME IInv, UNCHANGED vars
    PROVE  IInv'
<1>1. /\ UNCHANGED <<script, line, reset, halt, snippet, resetVec, nmiVec, shared>>
      /\ UNCHANGED <<runState, busState, armed, ring, lpc, savedNmi, guest, prog, nmi, memory>>
      /\ UNCHANGED <<reached, asked, meddled, cmd, polled, breakActive, ignore>>
    BY Zenon DEF vars, runVars, core0, pins, block, state, core1, guestVars, history, consoleVars
<1>2. StateOK' /\ ConsoleTypeOK' /\ Requested' /\ Baited'
    BY <1>1 DEF IInv, StateOK, ConsoleTypeOK, Requested, Baited, Trapped
<1>3. ASSUME NEW p \in Phase, Holds(p)
      PROVE  Holds(p)'
    BY <1>1, <1>3 DEF Holds, Knows, Leads, Has, SnippetRuns, MemoryRuns, Quiet, Trapped
<1>4. Outlined'
    BY <1>1, <1>3, Meanwhile, Zenon DEF IInv
<1> QED
    BY <1>2, <1>4, Zenon DEF IInv

LEMMA IInvStep == IInv /\ [Next]_vars => IInv'
<1> SUFFICES ASSUME IInv, [Next]_vars PROVE IInv'
    OBVIOUS
<1>1. CASE \E c \in Commands : Command(c)
    BY <1>1, CommandKeeps, Zenon
<1>2. CASE Core0
    BY <1>2, RunStepKeeps, ClearRegistersKeeps, PushWriteKeeps, SignalKeeps, CatchKeeps,
       BreakStepsKeep, PollWatchpointKeeps, Zenon DEF Core0
<1>3. CASE Core1 /\ UNCHANGED consoleVars
    BY <1>3, ObserveKeeps, LoopKeeps, Zenon DEF Core1, Loop
<1>4. CASE Guest /\ UNCHANGED consoleVars
    BY <1>4, FetchKeeps, FinishKeeps, LeaveKeeps, GuestSyncsKeeps, GuestStoresKeeps, GuestAsksKeeps,
       GuestWritesKeeps, TakeInterruptKeeps, Zenon DEF Guest
<1>5. CASE UNCHANGED vars
    BY <1>5, StutterKeeps
<1> QED
    BY <1>1, <1>2, <1>3, <1>4, <1>5, Zenon DEF Next

(* Whatever Core 0 has still to do has an outline, whose first claim holds. *)
THEOREM Invariance == Spec => []IInv
BY IInvInit, IInvStep, PTL DEF Spec

\* Every variable of RunControl keeps its type, and the script is one of known statements.
THEOREM TypeCorrect == Spec => []RunTypeOK
<1>1. IInv => RunTypeOK
    BY Zenon DEF IInv, RunTypeOK, Outlined, Outline
<1> QED
    BY <1>1, Invariance, PTL

\* No command that found the guest stopped is refused by a start() of its own: each run's
\* RESET_ASSERT has been seen by the handler before the next run asks.
THEOREM NoRunRefused == Spec => []NeverRefused
<1>1. IInv => NeverRefused
    <2> SUFFICES ASSUME IInv, script # <<>>, Step.op = "stopped" PROVE runState = "RESET"
        BY Zenon DEF NeverRefused, At
    <2>1. PICK p \in Phase, r \in Phase : Holds(p) /\ Rule(Want, p, Step, r)
        BY PhaseBefore DEF IInv
    <2>2. p.k = "quiet"
        BY <2>1 DEF Rule, RunRule, LoadRule, OtherRule
    <2> QED
        BY <2>1, <2>2 DEF Holds, Quiet
<1> QED
    BY <1>1, Invariance, PTL

\* A request for the watchpoint that an earlier guest left in the write ring never arms it.
THEOREM NoStaleArm == Spec => []ArmBelongsToRun
<1>1. IInv => ArmBelongsToRun
    BY Zenon DEF IInv, Requested, ArmBelongsToRun
<1> QED
    BY <1>1, Invariance, PTL

\* For a guest that lets its requests be served before it writes: while the watchpoint is
\* armed the interrupt's vector leads to BREAK, whatever the guest stores.
THEOREM TrapsHold == Waits /\ Spec => []TrapIsSafe
<1>1. Waits /\ IInv => TrapIsSafe
    BY DEF IInv, Baited, Trapped, TrapIsSafe
<1>2. CASE Waits
    BY <1>1, <1>2, Invariance, PTL
<1>3. CASE ~Waits
    BY <1>3
<1> QED
    BY <1>2, <1>3

\* start_with_timeout() answers true only for the snippet that was put into the block, come
\* to its SYNC, and for a copy that is in memory.
THEOREM AnswersAreHonest == Spec => []RunIsHonest
<1>1. IInv => RunIsHonest
    <2> SUFFICES ASSUME IInv, script # <<>>, Step.op = "judge", runState = "SYNCED"
                 PROVE  /\ reached = Step.code
                        /\ Step.code = "COPY_OUT" => memory[snippet.at] = shared
        BY Zenon DEF RunIsHonest, At
    <2>1. PICK p \in Phase, r \in Phase : Holds(p) /\ Rule(Want, p, Step, r)
        BY PhaseBefore DEF IInv
    <2>2. p.k = "run" /\ p.code = Step.code
        BY <2>1 DEF Rule, RunRule, LoadRule, OtherRule
    <2>3. CASE p.code = "memory"
        BY <2>1, <2>2, <2>3 DEF Holds, MemoryRuns
    <2>4. CASE p.code # "memory"
        BY <2>1, <2>2, <2>4 DEF Holds, SnippetRuns
    <2> QED
        BY <2>3, <2>4
<1> QED
    BY <1>1, Invariance, PTL

\* A guest started on an image that its command loaded finds all of that image in memory.
THEOREM BootsAreWhole == Spec => []BootsWhatItLoaded
<1>1. IInv => BootsWhatItLoaded
    <2> SUFFICES ASSUME IInv, script # <<>>, Step.op = "release", resetVec = "memory",
                        cmd \in {"NITROS9", "RUN_CHUNK", "RUN_NOWAIT"}
                 PROVE  memory = [b \in Block |-> Loaded]
        BY Zenon DEF BootsWhatItLoaded, At
    <2>1. PICK p \in Phase, r \in Phase : Holds(p) /\ Rule(Want, p, Step, r)
        BY PhaseBefore DEF IInv
    <2>2. Want = Loaded /\ Want \in {"boot", "chunk"}
        <3>1. CASE cmd = "NITROS9"
            BY <3>1, Zenon DEF Want, WantOf, Loaded
        <3>2. CASE cmd \in {"RUN_CHUNK", "RUN_NOWAIT"}
            <4>1. cmd # "NITROS9"
                BY <3>2
            <4> QED
                BY <3>2, <4>1, Zenon DEF Want, WantOf, Loaded
        <3> QED
            BY <3>1, <3>2
    <2>3. /\ p.k = "set"
          /\ p.code \in Ending \/ (p.code = "memory" /\ p.has = [b \in Block |-> Want])
        BY <2>1, <2>2 DEF Rule, RunRule, LoadRule, OtherRule
    <2>4. Knows(p) /\ Has(p)
        BY <2>1, <2>3 DEF Holds
    <2>5. p.has = [b \in Block |-> Want]
        BY <2>3, <2>4 DEF Knows, Leads, Ending
    <2>6. \A b \in Block : memory[b] = Want
        BY <2>2, <2>4, <2>5 DEF Has
    <2>7. memory \in [Block -> Content \cup {"torn"}]
        BY DEF IInv, StateOK
    <2> QED
        BY <2>2, <2>6, <2>7
<1> QED
    BY <1>1, Invariance, PTL

=============================================================================
