--------------------------- MODULE WriteRing_proofs ---------------------------
(***************************************************************************)
(* Proofs about WriteRing for every size of the ring and every number of   *)
(* writes: its indices stay in the ring, and until the first drop every    *)
(* write is dispatched once, whole and in order, by whichever of handler   *)
(* and MODIFY it was pushed, as long as neither runs inside the other; and *)
(* an overflow drops the oldest and keeps the newest, as long as the loop  *)
(* is not overtaken.                                                       *)
(***************************************************************************)
EXTENDS WriteRing, SequenceTheorems, TLAPS

(* What "% RingSize" gives where the indices reach.                        *)
LEMMA Wraps ==
    ASSUME NEW n \in 1 - RingSize .. 2 * RingSize - 1
    PROVE  n % RingSize = IF n < 0 THEN n + RingSize
                          ELSE IF n < RingSize THEN n ELSE n - RingSize
<1>1. CASE n < 0
  BY <1>1, WriteRingAssumption, SMT
<1>2. CASE n >= 0 /\ n < RingSize
  BY <1>2, WriteRingAssumption, SMT
<1>3. CASE n >= RingSize
  BY <1>3, WriteRingAssumption, SMT
<1> QED
  BY <1>1, <1>2, <1>3, WriteRingAssumption

(* The slot after a slot.                                                  *)
LEMMA SuccIs ==
    ASSUME NEW i \in Slot
    PROVE  /\ Succ(i) \in Slot
           /\ Succ(i) = IF i = RingSize - 1 THEN 0 ELSE i + 1
<1>1. i + 1 \in 1 - RingSize .. 2 * RingSize - 1
  BY WriteRingAssumption DEF Slot
<1> QED
  BY <1>1, Wraps, WriteRingAssumption DEF Succ, Slot

(* How far a slot is above another.                                        *)
Above(i, j) == (i - j) % RingSize

LEMMA AboveIs ==
    ASSUME NEW i \in Slot, NEW j \in Slot
    PROVE  /\ Above(i, j) = IF i >= j THEN i - j ELSE i - j + RingSize
           /\ Above(i, j) \in 0 .. RingSize - 1
<1>1. i - j \in 1 - RingSize .. 2 * RingSize - 1
  BY WriteRingAssumption DEF Slot
<1> QED
  BY <1>1, Wraps, WriteRingAssumption DEF Above, Slot

-----------------------------------------------------------------------------
LEMMA TypeInit == Init => TypeOK
<1> SUFFICES ASSUME Init PROVE TypeOK
  OBVIOUS
<1>1. 0 \in Slot
  BY WriteRingAssumption DEF Slot
<1>2. ring \in [Slot -> [location : Nat, value : Nat]]
  BY DEF Init, Entry
<1>3. dispatched \in Seq([location : Nat, value : Nat])
  BY DEF Init
<1> QED
  BY <1>1, <1>2, <1>3 DEF Init, TypeOK

(* A drop keeps the types of what it counts and remembers.                 *)
LEMMA DropTypes ==
    ASSUME TypeOK, Drops
    PROVE  dropped' \in Nat /\ moved' \in BOOLEAN /\ overtaken' \in BOOLEAN
<1>1. dropped' \in Nat
  <2>1. dropped' = dropped + 1
    BY Zenon DEF Drops
  <2> QED
    BY <2>1 DEF TypeOK
<1>2. moved' \in BOOLEAN
  <2>1. moved' = (pc \in {"location", "value", "store"})
    BY Zenon DEF Drops, Taking
  <2> QED
    BY <2>1
<1>3. overtaken' \in BOOLEAN
  BY Zenon DEF Drops
<1> QED
  BY <1>1, <1>2, <1>3

LEMMA TypeStep == TypeOK /\ [Next]_vars => TypeOK'
<1> SUFFICES ASSUME TypeOK, [Next]_vars PROVE TypeOK'
  OBVIOUS
<1>s. /\ Succ(head) \in Slot /\ Succ(tail) \in Slot /\ Succ(t) \in Slot
      /\ Succ(h) \in Slot /\ Succ(old) \in Slot
  BY SuccIs DEF TypeOK
<1> USE DEF TypeOK, loop, modify, counts, history
<1>1. CASE WriteIsr
  <2>1. ring' \in [Slot -> [location : Nat, value : Nat]] /\ writes' \in Nat
    BY <1>1 DEF WriteIsr, Entry
  <2>2. raced' \in BOOLEAN
    BY <1>1, Zenon DEF WriteIsr
  <2>3. CASE Succ(head) = tail
    <3>1. tail' = Succ(tail) /\ Drops
      BY <1>1, <2>3 DEF WriteIsr
    <3> QED
      BY <1>1, <1>s, <2>1, <2>2, <3>1, DropTypes DEF WriteIsr
  <2>4. CASE Succ(head) # tail
    BY <1>1, <1>s, <2>1, <2>2, <2>4 DEF WriteIsr
  <2> QED
    BY <2>3, <2>4
<1>2. CASE PushLoad
  BY <1>2 DEF PushLoad
<1>3. CASE PushTest
  BY <1>3 DEF PushTest
<1>4. CASE PushDrop
  <2>1. CASE push = "drop"
    BY <1>4, <2>1 DEF PushDrop
  <2>2. CASE push = "dropped"
    <3>1. tail' = Succ(old) /\ Drops
      BY <1>4, <2>2 DEF PushDrop
    <3> QED
      BY <1>4, <1>s, <2>2, <3>1, DropTypes DEF PushDrop
  <2> QED
    BY <1>4, <2>1, <2>2 DEF PushDrop
<1>5. CASE PushEntry
  <2>1. ring' \in [Slot -> [location : Nat, value : Nat]]
    <3>1. writes + 1 \in Nat
      OBVIOUS
    <3>2. [ring[h] EXCEPT !.location = writes + 1] \in [location : Nat, value : Nat]
      BY <3>1
    <3>3. [ring[h] EXCEPT !.value = writes + 1] \in [location : Nat, value : Nat]
      BY <3>1
    <3> QED
      BY <1>5, <3>2, <3>3 DEF PushEntry
  <2> QED
    BY <1>5, <2>1 DEF PushEntry
<1>6. CASE PushPublish
  BY <1>6, <1>s DEF PushPublish
<1>7. CASE TestEmpty
  BY <1>7 DEF TestEmpty
<1>8. CASE LoadTail
  BY <1>8 DEF LoadTail
<1>9. CASE ReadLocation
  BY <1>9 DEF ReadLocation
<1>10. CASE ReadValue
  BY <1>10 DEF ReadValue
<1>11. CASE StoreTail
  <2>1. dispatched' \in Seq([location : Nat, value : Nat])
    BY <1>11 DEF StoreTail
  <2> QED
    BY <1>11, <1>s, <2>1 DEF StoreTail
<1>12. CASE UNCHANGED vars
  BY <1>12 DEF vars
<1> QED
  BY <1>1, <1>2, <1>3, <1>4, <1>5, <1>6, <1>7, <1>8, <1>9, <1>10, <1>11, <1>12
  DEF Next, Push, Loop

(* For every size of the ring no index leaves it, wherever handler, loop   *)
(* and Core 0 land (WRITE_RING_MASK on every store).                       *)
THEOREM TypeCorrect == Spec => []TypeOK
BY TypeInit, TypeStep, PTL DEF Spec

-----------------------------------------------------------------------------
(* The inductive invariant, for as long as nothing was dropped or raced.   *)
Calm == dropped = 0 /\ ~raced

\* The loop takes the oldest entry, and nothing changes it meanwhile.
Taken ==
    /\ pc # "test" => tail # head
    /\ Taking => t = tail
    /\ pc \in {"value", "store"} => location = ring[t].location
    /\ pc = "store" => value = ring[t].value

\* A push of MODIFY has the head, a free slot and what it has stored there.
Pushing ==
    /\ push # "idle" => h = head
    /\ push \in {"location", "value", "publish"} => Succ(h) # tail
    /\ push \in {"value", "publish"} => ring[h].location = writes + 1
    /\ push = "publish" => ring[h].value = writes + 1

\* What was written is what was dispatched and, after it, what is queued.
Kept ==
    /\ writes = Len(dispatched) + Above(head, tail)
    /\ \A i \in 1 .. Len(dispatched) : dispatched[i] = Entry(i)
    /\ \A i \in Slot : Above(i, tail) < Above(head, tail) =>
            ring[i] = Entry(Len(dispatched) + Above(i, tail) + 1)

IInv == TypeOK /\ (Calm => Taken /\ Pushing /\ Kept)

LEMMA IInvInit == Init => IInv
<1> SUFFICES ASSUME Init PROVE IInv
  OBVIOUS
<1>1. TypeOK
  BY TypeInit
<1>2. Above(head, tail) = 0 /\ \A i \in Slot : Above(i, tail) \in 0 .. RingSize - 1
  BY <1>1, AboveIs DEF Init, TypeOK, Slot
<1>3. Kept
  BY <1>2, WriteRingAssumption DEF Init, Kept
<1> QED
  BY <1>1, <1>3 DEF Init, IInv, Calm, Taken, Taking, Pushing

(* A slot is as far above the next tail as it was above the last, less one. *)
LEMMA AboveNextTail ==
    ASSUME NEW i \in Slot, NEW j \in Slot
    PROVE  Above(i, Succ(j)) = IF i = j THEN RingSize - 1 ELSE Above(i, j) - 1
<1>1. Succ(j) \in Slot /\ Succ(j) = IF j = RingSize - 1 THEN 0 ELSE j + 1
  BY SuccIs
<1>2. Above(i, j) = IF i >= j THEN i - j ELSE i - j + RingSize
  BY AboveIs
<1>3. Above(i, Succ(j)) = IF i >= Succ(j) THEN i - Succ(j) ELSE i - Succ(j) + RingSize
  BY <1>1, AboveIs
<1> QED
  BY <1>1, <1>2, <1>3, WriteRingAssumption DEF Slot

(* The next head is as far above the tail as the last, and one more, unless *)
(* it meets the tail.                                                      *)
LEMMA AboveNextHead ==
    ASSUME NEW i \in Slot, NEW j \in Slot, Succ(i) # j
    PROVE  Above(Succ(i), j) = Above(i, j) + 1
<1>1. Succ(i) \in Slot /\ Succ(i) = IF i = RingSize - 1 THEN 0 ELSE i + 1
  BY SuccIs
<1>2. Above(i, j) = IF i >= j THEN i - j ELSE i - j + RingSize
  BY AboveIs
<1>3. Above(Succ(i), j) = IF Succ(i) >= j THEN Succ(i) - j ELSE Succ(i) - j + RingSize
  BY <1>1, AboveIs
<1> QED
  BY <1>1, <1>2, <1>3, WriteRingAssumption DEF Slot

(* Different slots are differently far above the tail.                     *)
LEMMA AboveInjective ==
    ASSUME NEW i \in Slot, NEW k \in Slot, NEW j \in Slot, Above(i, j) = Above(k, j)
    PROVE  i = k
<1>1. /\ Above(i, j) = IF i >= j THEN i - j ELSE i - j + RingSize
      /\ Above(k, j) = IF k >= j THEN k - j ELSE k - j + RingSize
  BY AboveIs
<1>2. (IF i >= j THEN i - j ELSE i - j + RingSize) = (IF k >= j THEN k - j ELSE k - j + RingSize)
  BY <1>1, Zenon
<1> QED
  BY <1>2, WriteRingAssumption DEF Slot

LEMMA LessOrEqual ==
    ASSUME NEW a \in Int, NEW b \in Int, a < b + 1, a # b PROVE a < b
OBVIOUS

LEMMA KeptByPush ==
    ASSUME TypeOK, Kept, Succ(head) # tail, ring' \in [Slot -> [location : Nat, value : Nat]],
           ring'[head] = Entry(writes + 1),
           \A i \in Slot : i # head => ring'[i] = ring[i],
           head' = Succ(head), tail' = tail, writes' = writes + 1, dispatched' = dispatched
    PROVE  Kept'
<1> USE DEF TypeOK
<1>0. Above(head, tail) \in Int
  BY AboveIs
<1>1. Above(head, tail) \in 0 .. RingSize - 1 /\ Above(head', tail) = Above(head, tail) + 1
  BY AboveIs, AboveNextHead
<1>2. Len(dispatched) \in Nat
  OBVIOUS
<1>3. writes' = Len(dispatched) + Above(head', tail)
  BY <1>1, <1>2 DEF Kept
<1>4. ASSUME NEW i \in Slot, Above(i, tail) < Above(head, tail) + 1
      PROVE  ring'[i] = Entry(Len(dispatched) + Above(i, tail) + 1)
  <2>1. CASE i = head
    BY <2>1, <1>1, <1>2 DEF Kept
  <2>2. CASE i # head
    <3>1. Above(i, tail) \in Int /\ Above(i, tail) # Above(head, tail)
      BY <2>2, AboveIs, AboveInjective
    <3>2. Above(i, tail) < Above(head, tail)
      BY <3>1, <1>0, <1>4, LessOrEqual
    <3> QED
      BY <2>2, <3>2 DEF Kept
  <2> QED
    BY <2>1, <2>2
<1>5. \A i \in Slot : Above(i, tail) < Above(head', tail) =>
        ring'[i] = Entry(Len(dispatched) + Above(i, tail) + 1)
  BY <1>1, <1>4
<1> QED
  BY <1>3, <1>5 DEF Kept, Above

LEMMA KeptByTake ==
    ASSUME TypeOK, Kept, tail # head, ring' = ring, head' = head, tail' = Succ(tail),
           writes' = writes, dispatched' = Append(dispatched, ring[tail])
    PROVE  Kept'
<1> USE DEF TypeOK
<1>1. /\ Above(head, tail) \in 1 .. RingSize - 1 /\ Above(tail, tail) = 0
      /\ Above(head, tail') = Above(head, tail) - 1
  <2>1. Above(head, tail) \in 0 .. RingSize - 1 /\ Above(tail, tail) = 0
    BY AboveIs DEF Slot
  <2>2. Above(head, tail) # Above(tail, tail)
    BY AboveInjective
  <2>3. Above(head, tail') = Above(head, tail) - 1
    BY AboveNextTail
  <2> QED
    BY <2>1, <2>2, <2>3, WriteRingAssumption
<1>2. /\ Len(dispatched) \in Nat /\ Len(dispatched') = Len(dispatched) + 1
      /\ \A i \in 1 .. Len(dispatched) : dispatched'[i] = dispatched[i]
      /\ dispatched'[Len(dispatched) + 1] = ring[tail]
  OBVIOUS
<1>3. writes' = Len(dispatched') + Above(head, tail')
  BY <1>1, <1>2 DEF Kept
<1>4. ring[tail] = Entry(Len(dispatched) + 1)
  <2>1. Above(tail, tail) < Above(head, tail)
    BY <1>1
  <2>2. ring[tail] = Entry(Len(dispatched) + Above(tail, tail) + 1)
    BY <2>1 DEF Kept
  <2> QED
    BY <1>1, <1>2, <2>2
<1>5. \A i \in 1 .. Len(dispatched') : dispatched'[i] = Entry(i)
  BY <1>2, <1>4 DEF Kept
<1>6. ASSUME NEW i \in Slot, Above(i, tail') < Above(head, tail')
      PROVE  ring[i] = Entry(Len(dispatched') + Above(i, tail') + 1)
  <2>1. i # tail
    BY <1>1, <1>6, AboveNextTail, WriteRingAssumption
  <2>2. Above(i, tail) \in 0 .. RingSize - 1 /\ Above(i, tail') = Above(i, tail) - 1
    BY <2>1, AboveIs, AboveNextTail
  <2>3. ring[i] = Entry(Len(dispatched) + Above(i, tail) + 1)
    BY <1>1, <1>6, <2>2 DEF Kept
  <2>4. Len(dispatched') + Above(i, tail') + 1 = Len(dispatched) + Above(i, tail) + 1
    BY <1>2, <2>2
  <2> QED
    BY <2>3, <2>4
<1> QED
  BY <1>3, <1>5, <1>6 DEF Kept, Above

LEMMA IInvStep == IInv /\ [Next]_vars => IInv'
<1> SUFFICES ASSUME IInv, [Next]_vars, Calm' PROVE Taken' /\ Pushing' /\ Kept'
  BY TypeStep DEF IInv
<1>t. TypeOK /\ TypeOK'
  BY TypeStep DEF IInv
<1>s. /\ Succ(head) \in Slot /\ Succ(tail) \in Slot /\ Succ(h) \in Slot
  BY <1>t, SuccIs DEF TypeOK
<1> USE DEF loop, modify, counts, history, Taking
<1>1. CASE WriteIsr
  <2>1. push = "idle" /\ ~raced
    BY <1>1 DEF WriteIsr, Calm
  <2>0. Succ(head) # tail
    <3> SUFFICES ASSUME Succ(head) = tail PROVE dropped' = dropped + 1
      BY <1>t DEF Calm, TypeOK
    <3> QED
      BY <1>1, Zenon DEF WriteIsr, Drops
  <2>c. Calm
    BY <1>1, <2>0, <2>1 DEF WriteIsr, Calm
  <2>2. Taken /\ Pushing /\ Kept
    BY <2>c DEF IInv
  <2>3. /\ ring' = [ring EXCEPT ![head] = Entry(writes + 1)]
        /\ head' = Succ(head) /\ tail' = tail /\ writes' = writes + 1
        /\ dispatched' = dispatched /\ push' = "idle"
        /\ pc' = pc /\ t' = t /\ location' = location /\ value' = value
    BY <1>1, <2>0, <2>1 DEF WriteIsr
  <2>4. Kept'
    BY <1>t, <2>0, <2>2, <2>3, KeptByPush DEF TypeOK
  <2>5. Taken'
    <3>1. CASE pc = "test"
      BY <2>3, <3>1 DEF Taken
    <3>2. CASE pc # "test"
      <4>1. tail' # head' /\ (Taking => t # head)
        BY <2>0, <2>2, <2>3, <3>2 DEF Taken
      <4>2. Taking => ring'[t] = ring[t]
        BY <1>t, <2>3, <4>1 DEF TypeOK
      <4> QED
        BY <2>2, <2>3, <4>1, <4>2 DEF Taken
    <3> QED
      BY <3>1, <3>2
  <2> QED
    BY <2>3, <2>4, <2>5 DEF Pushing
<1>2. CASE PushLoad
  <2>1. Calm /\ Taken /\ Kept
    BY <1>2 DEF PushLoad, IInv, Calm
  <2> QED
    BY <1>2, <2>1 DEF PushLoad, Taken, Pushing, Kept, Above
<1>3. CASE PushTest
  <2>1. Calm /\ Taken /\ Kept /\ Pushing
    BY <1>3 DEF PushTest, IInv, Calm
  <2> QED
    BY <1>3, <2>1 DEF PushTest, Taken, Pushing, Kept, Above
<1>4. CASE PushDrop
  <2>1. push = "drop" /\ push' = "dropped" /\ UNCHANGED tail
    BY <1>4, <1>t DEF PushDrop, Drops, Calm, TypeOK
  <2>2. Calm /\ Taken /\ Kept /\ Pushing
    BY <1>4, <2>1 DEF PushDrop, IInv, Calm
  <2> QED
    BY <1>4, <2>1, <2>2 DEF PushDrop, Taken, Pushing, Kept, Above
<1>5. CASE PushEntry
  <2>1. Calm /\ Taken /\ Kept /\ Pushing
    BY <1>5 DEF PushEntry, IInv, Calm
  <2>2. h = head /\ Succ(h) # tail
    BY <1>5, <2>1 DEF PushEntry, Pushing
  <2>3. \A i \in Slot : i # h => ring'[i] = ring[i]
    BY <1>5, <1>t DEF PushEntry, TypeOK
  <2>4. Taken'
    BY <1>5, <1>t, <2>1, <2>2, <2>3 DEF PushEntry, Taken, TypeOK
  <2>5. Pushing'
    <3>1. CASE push = "location"
      <4>1. ring'[h].location = writes + 1
        BY <1>5, <1>t, <3>1 DEF PushEntry, TypeOK
      <4> QED
        BY <1>5, <3>1, <4>1, <2>2 DEF PushEntry, Pushing
    <3>2. CASE push = "value"
      <4>1. ring'[h] = [ring[h] EXCEPT !.value = writes + 1]
        BY <1>5, <1>t, <3>2 DEF PushEntry, TypeOK
      <4>2. ring[h] \in [location : Nat, value : Nat]
        BY <1>t DEF TypeOK
      <4>3. ring'[h].location = ring[h].location /\ ring'[h].value = writes + 1
        BY <4>1, <4>2
      <4> QED
        BY <1>5, <3>2, <4>3, <2>1, <2>2 DEF PushEntry, Pushing
    <3> QED
      BY <1>5, <3>1, <3>2 DEF PushEntry
  <2>6. ASSUME NEW i \in Slot, Above(i, tail) < Above(head, tail) PROVE ring'[i] = ring[i]
    <3>1. Above(head, tail) \in Int
      BY <1>t, AboveIs DEF TypeOK
    <3>2. i # h
      BY <2>2, <2>6, <3>1
    <3> QED
      BY <2>3, <3>2
  <2>7. Kept'
    BY <1>5, <2>1, <2>6 DEF PushEntry, Kept, Above
  <2> QED
    BY <2>4, <2>5, <2>7
<1>6. CASE PushPublish
  <2>1. Calm /\ Taken /\ Kept /\ Pushing
    BY <1>6 DEF PushPublish, IInv, Calm
  <2>2. h = head /\ Succ(head) # tail /\ ring[head] = Entry(writes + 1)
    BY <1>6, <1>t, <2>1 DEF PushPublish, Pushing, TypeOK, Entry
  <2>3. Kept'
    BY <1>6, <1>t, <2>1, <2>2, KeptByPush DEF PushPublish, TypeOK
  <2> QED
    BY <1>6, <2>1, <2>2, <2>3 DEF PushPublish, Taken, Pushing
<1>7. CASE TestEmpty
  <2>1. Calm /\ Taken /\ Kept /\ Pushing
    BY <1>7 DEF TestEmpty, IInv, Calm
  <2> QED
    BY <1>7, <2>1 DEF TestEmpty, Taken, Pushing, Kept, Above
<1>8. CASE LoadTail
  <2>1. Calm /\ Taken /\ Kept /\ Pushing
    BY <1>8 DEF LoadTail, IInv, Calm
  <2> QED
    BY <1>8, <2>1 DEF LoadTail, Taken, Pushing, Kept, Above
<1>9. CASE ReadLocation
  <2>1. Calm /\ Taken /\ Kept /\ Pushing
    BY <1>9 DEF ReadLocation, IInv, Calm
  <2> QED
    BY <1>9, <2>1 DEF ReadLocation, Taken, Pushing, Kept, Above
<1>10. CASE ReadValue
  <2>1. Calm /\ Taken /\ Kept /\ Pushing
    BY <1>10 DEF ReadValue, IInv, Calm
  <2> QED
    BY <1>10, <2>1 DEF ReadValue, Taken, Pushing, Kept, Above
<1>11. CASE StoreTail
  <2>1. Calm /\ push \notin {"drop", "dropped"}
    BY <1>11 DEF StoreTail, Calm
  <2>2. Taken /\ Kept /\ Pushing
    BY <2>1 DEF IInv
  <2>3. /\ tail # head /\ t = tail
        /\ [location |-> location, value |-> value] = ring[tail]
    BY <1>11, <1>t, <2>2 DEF StoreTail, Taken, TypeOK
  <2>4. Kept'
    BY <1>11, <1>t, <2>2, <2>3, KeptByTake DEF StoreTail
  <2>5. Taken'
    BY <1>11 DEF StoreTail, Taken
  <2>6. Succ(head) # Succ(tail)
    <3>1. head \in 0 .. RingSize - 1 /\ tail \in 0 .. RingSize - 1
      BY <1>t DEF TypeOK, Slot
    <3>2. /\ Succ(head) = IF head = RingSize - 1 THEN 0 ELSE head + 1
          /\ Succ(tail) = IF tail = RingSize - 1 THEN 0 ELSE tail + 1
      BY <1>t, SuccIs DEF TypeOK
    <3> QED
      BY <2>3, <3>1, <3>2, WriteRingAssumption
  <2>7. Pushing'
    BY <1>11, <2>1, <2>2, <2>3, <2>6 DEF StoreTail, Pushing
  <2> QED
    BY <2>4, <2>5, <2>7
<1>12. CASE UNCHANGED vars
  <2>1. Calm /\ Taken /\ Kept /\ Pushing
    BY <1>12 DEF vars, IInv, Calm
  <2> QED
    BY <1>12, <2>1 DEF vars, Taken, Pushing, Kept, Above
<1> QED
  BY <1>1, <1>2, <1>3, <1>4, <1>5, <1>6, <1>7, <1>8, <1>9, <1>10, <1>11, <1>12
  DEF Next, Push, Loop

(* The slots from the tail on, by their distance.                          *)
LEMMA SlotAt ==
    ASSUME NEW j \in Slot, NEW i \in 1 .. RingSize - 1
    PROVE  (j + i - 1) % RingSize \in Slot /\ Above((j + i - 1) % RingSize, j) = i - 1
<1> DEFINE n == j + i - 1
<1>1. n \in 1 - RingSize .. 2 * RingSize - 1 /\ n >= 0 /\ n \in Int
  BY WriteRingAssumption DEF Slot
<1>2. n % RingSize = IF n < RingSize THEN n ELSE n - RingSize
  BY <1>1, Wraps
<1>3. n % RingSize \in Slot
  BY <1>1, <1>2, WriteRingAssumption DEF Slot
<1>4. Above(n % RingSize, j) = IF (n % RingSize) >= j THEN (n % RingSize) - j
                               ELSE (n % RingSize) - j + RingSize
  BY <1>3, AboveIs
<1>5. CASE n < RingSize
  BY <1>1, <1>2, <1>4, <1>5, WriteRingAssumption DEF Slot
<1>6. CASE n >= RingSize
  BY <1>1, <1>2, <1>4, <1>6, WriteRingAssumption DEF Slot
<1> QED
  BY <1>1, <1>3, <1>5, <1>6, WriteRingAssumption

(* What the invariant says slot by slot, ExactlyOnce says as one sequence. *)
LEMMA KeptIsExactlyOnce ==
    ASSUME TypeOK, Kept PROVE dispatched \o Queued = [i \in 1 .. writes |-> Entry(i)]
<1> DEFINE E == [location : Nat, value : Nat]
           L == Len(dispatched)
           all == [i \in 1 .. writes |-> Entry(i)]
<1>1. dispatched \in Seq(E) /\ L \in Nat /\ writes \in Nat
  BY LenProperties DEF TypeOK
<1>2. Level \in Nat /\ Level < RingSize /\ Level = Above(head, tail) /\ writes = L + Level
  <2>1. Level = Above(head, tail) /\ writes = L + Above(head, tail)
    BY DEF Level, Above, Kept
  <2>2. Above(head, tail) \in 0 .. RingSize - 1
    BY AboveIs DEF TypeOK
  <2> QED
    BY <2>1, <2>2, WriteRingAssumption
<1>3. ASSUME NEW i \in 1 .. Level
      PROVE  ring[(tail + i - 1) % RingSize] = Entry(L + i)
  <2>1. i \in 1 .. RingSize - 1
    BY <1>2, WriteRingAssumption
  <2> DEFINE s == (tail + i - 1) % RingSize
  <2>2. s \in Slot /\ Above(s, tail) = i - 1
    BY <2>1, SlotAt DEF TypeOK
  <2>3. Above(s, tail) < Above(head, tail)
    BY <1>2, <2>2
  <2> HIDE DEF s
  <2>4. ring[s] = Entry(L + Above(s, tail) + 1)
    BY <2>2, <2>3 DEF Kept
  <2>5. L + Above(s, tail) + 1 = L + i
    BY <1>1, <2>2
  <2> QED
    BY <2>4, <2>5 DEF s
<1>4. Queued \in Seq(E) /\ Len(Queued) = Level /\ \A i \in 1 .. Level : Queued[i] = Entry(L + i)
  <2>1. \A i \in 1 .. Level : Entry(L + i) \in E
    BY <1>1, <1>2 DEF Entry
  <2>2. Queued = [i \in 1 .. Level |-> Entry(L + i)]
    BY <1>3 DEF Queued
  <2> HIDE DEF E
  <2>3. \A i \in 1 .. Level : Queued[i] = Entry(L + i)
    BY <2>2
  <2>4. Queued \in Seq(E) /\ Len(Queued) = Level
    BY <1>2, <2>1, <2>2
  <2> QED
    BY <2>3, <2>4
<1>5. all \in Seq(E) /\ Len(all) = writes /\ \A i \in 1 .. writes : all[i] = Entry(i)
  BY <1>1 DEF Entry
<1> HIDE DEF E, all
<1>6. /\ dispatched \o Queued \in Seq(E) /\ Len(dispatched \o Queued) = writes
      /\ \A i \in 1 .. writes : (dispatched \o Queued)[i] =
             IF i <= L THEN dispatched[i] ELSE Queued[i - L]
  BY <1>1, <1>2, <1>4, ConcatProperties
<1>7. ASSUME NEW i \in 1 .. writes
      PROVE  (dispatched \o Queued)[i] = all[i]
  <2>1. CASE i <= L
    BY <1>1, <1>5, <1>6, <2>1 DEF Kept
  <2>2. CASE i > L
    <3>1. i - L \in 1 .. Level /\ L + (i - L) = i
      BY <1>1, <1>2, <2>2
    <3>2. Queued[i - L] = Entry(L + (i - L))
      BY <1>4, <3>1
    <3> QED
      BY <1>1, <1>5, <1>6, <2>2, <3>1, <3>2
  <2>3. i \in Int /\ L \in Int
    BY <1>1
  <2>4. i <= L \/ i > L
    BY <2>3
  <2> QED
    BY <2>1, <2>2, <2>4
<1>8. dispatched \o Queued = all
  BY <1>5, <1>6, <1>7, SeqEqual
<1> QED
  BY <1>8 DEF all

(* For every size of the ring and every number of writes: until the ring    *)
(* overflows, and as long as the handler does not run in the middle of a    *)
(* push of MODIFY, each write of guest and console reaches the switch of    *)
(* the loop once, whole and in order.                                       *)
THEOREM WritesAreExactlyOnce == Spec => []ExactlyOnce
<1>1. IInv => ExactlyOnce
  BY KeptIsExactlyOnce DEF IInv, Calm, ExactlyOnce
<1> QED
  BY <1>1, IInvInit, IInvStep, PTL DEF Spec

-----------------------------------------------------------------------------
(* After an overflow: while neither handler nor Core 0 moves the tail twice  *)
(* under the loop, nor one of them runs inside the other.                   *)
AtPace == ~overtaken /\ ~raced

\* The loop's entry is the oldest, or the one that was just dropped.
Apart ==
    /\ pc # "test" => tail # head
    /\ Taking => tail = IF moved THEN Succ(t) ELSE t
    /\ Taking /\ ~moved /\ pc # "location" => location = ring[t].location
    /\ Taking /\ ~moved /\ pc = "store" => value = ring[t].value

\* A push of MODIFY finds head and tail where its test for full left them.
Alone ==
    /\ push # "idle" => h = head
    /\ push \in {"drop", "dropped"} => Succ(h) = tail
    /\ push = "dropped" => old = tail
    /\ push \in {"location", "value", "publish"} => Succ(h) # tail
    /\ push \in {"value", "publish"} => ring[h].location = writes + 1
    /\ push = "publish" => ring[h].value = writes + 1

\* The newest entry is below the head, and nothing is queued only when the
\* loop has dispatched it.
Newest ==
    writes > 0 =>
        /\ \A i \in Slot : Succ(i) = head => ring[i] = Entry(writes)
        /\ head = tail => /\ dispatched # <<>>
                          /\ dispatched[Len(dispatched)] = Entry(writes)

PaceInv == AtPace => Apart /\ Alone /\ Newest

(* Slots next to each other.                                               *)
LEMMA SuccInjective ==
    ASSUME NEW i \in Slot, NEW j \in Slot, Succ(i) = Succ(j)
    PROVE  i = j
<1>1. /\ Succ(i) = IF i = RingSize - 1 THEN 0 ELSE i + 1
      /\ Succ(j) = IF j = RingSize - 1 THEN 0 ELSE j + 1
  BY SuccIs
<1>2. (IF i = RingSize - 1 THEN 0 ELSE i + 1) = (IF j = RingSize - 1 THEN 0 ELSE j + 1)
  BY <1>1, Zenon
<1> QED
  BY <1>2, WriteRingAssumption DEF Slot

LEMMA SuccDiffers ==
    ASSUME NEW i \in Slot
    PROVE  Succ(i) # i /\ (RingSize > 2 => Succ(Succ(i)) # i)
<1>1. Succ(i) \in Slot /\ Succ(i) = IF i = RingSize - 1 THEN 0 ELSE i + 1
  BY SuccIs
<1>2. Succ(Succ(i)) = IF Succ(i) = RingSize - 1 THEN 0 ELSE Succ(i) + 1
  BY <1>1, SuccIs
<1> QED
  BY <1>1, <1>2, WriteRingAssumption DEF Slot

LEMMA Below ==
    ASSUME NEW i \in Slot
    PROVE  (i - 1) % RingSize \in Slot /\ Succ((i - 1) % RingSize) = i
<1>1. i - 1 \in 1 - RingSize .. 2 * RingSize - 1
  BY WriteRingAssumption DEF Slot
<1>2. (i - 1) % RingSize = IF i = 0 THEN RingSize - 1 ELSE i - 1
  BY <1>1, Wraps, WriteRingAssumption DEF Slot
<1>3. (i - 1) % RingSize \in Slot
  BY <1>2, WriteRingAssumption DEF Slot
<1>4. Succ((i - 1) % RingSize) = IF (i - 1) % RingSize = RingSize - 1 THEN 0
                                 ELSE ((i - 1) % RingSize) + 1
  BY <1>3, SuccIs
<1> QED
  BY <1>2, <1>3, <1>4, WriteRingAssumption DEF Slot

LEMMA PaceInit == Init => PaceInv
<1> SUFFICES ASSUME Init PROVE PaceInv
  OBVIOUS
<1>1. pc = "test" /\ push = "idle" /\ writes = 0
  BY DEF Init
<1> QED
  BY <1>1 DEF PaceInv, Apart, Alone, Newest, Taking

(* A drop that leaves the pace finds the loop with the oldest entry.        *)
LEMMA DropsOnce ==
    ASSUME Drops, ~overtaken'
    PROVE  ~overtaken /\ ~(Taking /\ moved) /\ moved' = Taking
BY Zenon DEF Drops

(* Steps that leave what Newest is about alone.                             *)
LEMMA NewestStays ==
    ASSUME Newest, UNCHANGED <<ring, head, tail, writes, dispatched>>
    PROVE  Newest'
BY DEF Newest

LEMMA PaceWriteIsr ==
    ASSUME TypeOK, PaceInv, WriteIsr, AtPace'
    PROVE  Apart' /\ Alone' /\ Newest'
<1>1. /\ UNCHANGED <<pc, t, location, value, dispatched, push, h, old>>
      /\ writes' = writes + 1 /\ ring' = [ring EXCEPT ![head] = Entry(writes + 1)]
      /\ head' = Succ(head)
      /\ raced' = (raced \/ push # "idle")
  BY Zenon DEF WriteIsr, loop, modify
<1>2. push = "idle" /\ ~raced
  BY <1>1, Zenon DEF AtPace
<1>3. /\ head \in Slot /\ tail \in Slot /\ t \in Slot /\ Succ(head) \in Slot
      /\ ring \in [Slot -> [location : Nat, value : Nat]] /\ writes \in Nat
  BY SuccIs DEF TypeOK
<1>4. ring'[head] = Entry(writes + 1) /\ \A i \in Slot : i # head => ring'[i] = ring[i]
  BY <1>1, <1>3
<1>5. \A i \in Slot : Succ(i) = head' => ring'[i] = Entry(writes')
  <2> SUFFICES ASSUME NEW i \in Slot, Succ(i) = head' PROVE ring'[i] = Entry(writes')
    OBVIOUS
  <2>1. i = head
    BY <1>1, <1>3, SuccInjective
  <2> QED
    BY <1>1, <1>4, <2>1
<1>6. Alone'
  BY <1>1, <1>2 DEF Alone
<1>7. CASE Succ(head) = tail
  <2>1. tail' = Succ(tail) /\ Drops
    BY <1>7, Zenon DEF WriteIsr
  <2>2. ~overtaken /\ ~(Taking /\ moved) /\ moved' = Taking
    BY <2>1, DropsOnce, Zenon DEF AtPace
  <2>3. Apart
    BY <1>2, <2>2, Zenon DEF PaceInv, AtPace
  <2>4. head' = tail /\ tail' # head'
    BY <1>1, <1>3, <1>7, <2>1, SuccDiffers
  <2>5. Taking' = Taking
    BY <1>1 DEF Taking
  <2>6. Taking' => moved' /\ tail' = Succ(t')
    BY <1>1, <2>1, <2>2, <2>3, <2>5 DEF Apart
  <2>7. Apart'
    BY <2>4, <2>6, Zenon DEF Apart
  <2>8. Newest'
    BY <1>5, <2>4, Zenon DEF Newest
  <2> QED
    BY <1>6, <2>7, <2>8
<1>8. CASE Succ(head) # tail
  <2>1. UNCHANGED <<tail, moved, overtaken>>
    BY <1>8, Zenon DEF WriteIsr
  <2>2. Apart
    BY <1>2, <2>1, Zenon DEF PaceInv, AtPace
  <2>3. Taking' = Taking /\ tail' # head'
    BY <1>1, <1>8, <2>1 DEF Taking
  <2>4. Taking /\ ~moved => ring'[t] = ring[t]
    <3> SUFFICES ASSUME Taking, ~moved PROVE t # head
      BY <1>3, <1>4
    <3> QED
      BY <2>2 DEF Apart, Taking
  <2>5. Apart'
    BY <1>1, <2>1, <2>2, <2>3, <2>4 DEF Apart
  <2>6. Newest'
    BY <1>5, <2>3, Zenon DEF Newest
  <2> QED
    BY <1>6, <2>5, <2>6
<1> QED
  BY <1>7, <1>8

LEMMA PaceDrop ==
    ASSUME TypeOK, PaceInv, PushDrop, AtPace', RingSize > 2
    PROVE  Apart' /\ Alone' /\ Newest'
<1>1. UNCHANGED <<ring, head, pc, t, location, value, dispatched, h, writes, raced>>
  BY Zenon DEF PushDrop, loop
<1>2. CASE push = "drop"
  <2>1. push' = "dropped" /\ old' = tail /\ UNCHANGED <<tail, moved, overtaken>>
    BY <1>2, Zenon DEF PushDrop
  <2>2. Apart /\ Alone /\ Newest
    BY <1>1, <2>1, Zenon DEF PaceInv, AtPace
  <2>3. Apart' /\ Alone'
    BY <1>1, <1>2, <2>1, <2>2 DEF Apart, Alone, Taking
  <2> QED
    BY <1>1, <2>1, <2>2, <2>3, NewestStays
<1>3. CASE push = "dropped"
  <2>1. push' = "location" /\ tail' = Succ(old) /\ Drops
    BY <1>3, Zenon DEF PushDrop
  <2>2. ~overtaken /\ ~(Taking /\ moved) /\ moved' = Taking
    BY <2>1, DropsOnce, Zenon DEF AtPace
  <2>3. Apart /\ Alone /\ Newest
    BY <1>1, <2>2, Zenon DEF PaceInv, AtPace
  <2>4. h = head /\ Succ(head) = tail /\ old = tail /\ head \in Slot /\ tail \in Slot
    BY <1>3, <2>3 DEF Alone, TypeOK
  <2>5. tail' = Succ(tail) /\ tail' # head /\ tail' # Succ(head)
    BY <2>1, <2>4, SuccDiffers
  <2>6. Taking' = Taking
    BY <1>1 DEF Taking
  <2>7. Taking' => moved' /\ tail' = Succ(t')
    BY <1>1, <2>2, <2>3, <2>5, <2>6 DEF Apart
  <2>8. Apart'
    BY <1>1, <2>5, <2>7, Zenon DEF Apart
  <2>9. Alone'
    BY <1>1, <2>1, <2>4, <2>5 DEF Alone
  <2>10. Newest'
    BY <1>1, <2>3, <2>5 DEF Newest
  <2> QED
    BY <2>8, <2>9, <2>10
<1> QED
  BY <1>2, <1>3, Zenon DEF PushDrop

LEMMA PaceEntry ==
    ASSUME TypeOK, PaceInv, PushEntry, AtPace'
    PROVE  Apart' /\ Alone' /\ Newest'
<1>1. UNCHANGED <<head, tail, pc, t, location, value, dispatched, h, old, writes, moved,
                  overtaken, raced>>
  BY Zenon DEF PushEntry, loop, counts, history
<1>2. Apart /\ Alone /\ Newest
  BY <1>1, Zenon DEF PaceInv, AtPace
<1>3. push \in {"location", "value"} /\ push' \in {"value", "publish"} /\ h = head
  BY <1>2 DEF PushEntry, Alone
<1>4. /\ head \in Slot /\ tail \in Slot /\ t \in Slot /\ writes \in Nat
      /\ ring \in [Slot -> [location : Nat, value : Nat]]
  BY DEF TypeOK
<1>5. \A i \in Slot : i # head => ring'[i] = ring[i]
  BY <1>3, <1>4 DEF PushEntry
<1>6. Apart'
  <2>1. Taking /\ ~moved => ring'[t] = ring[t]
    BY <1>2, <1>4, <1>5 DEF Apart, Taking
  <2> QED
    BY <1>1, <1>2, <2>1 DEF Apart, Taking
<1>7. Alone'
  <2>1. CASE push = "location"
    <3>1. push' = "value" /\ ring'[h].location = writes + 1
      BY <1>3, <1>4, <2>1 DEF PushEntry
    <3> QED
      BY <1>1, <1>2, <2>1, <3>1 DEF Alone
  <2>2. CASE push = "value"
    <3>1. push' = "publish" /\ ring'[h] = [ring[h] EXCEPT !.value = writes + 1]
      BY <1>3, <1>4, <2>2 DEF PushEntry
    <3>2. ring'[h].location = ring[h].location /\ ring'[h].value = writes + 1
      BY <1>3, <1>4, <3>1
    <3> QED
      BY <1>1, <1>2, <2>2, <3>1, <3>2 DEF Alone
  <2> QED
    BY <1>3, <2>1, <2>2
<1>8. Newest'
  <2>1. \A i \in Slot : Succ(i) = head => ring'[i] = ring[i]
    BY <1>4, <1>5, SuccDiffers
  <2> QED
    BY <1>1, <1>2, <2>1 DEF Newest
<1> QED
  BY <1>6, <1>7, <1>8

LEMMA PacePublish ==
    ASSUME TypeOK, PaceInv, PushPublish, AtPace'
    PROVE  Apart' /\ Alone' /\ Newest'
<1>1. /\ UNCHANGED <<ring, tail, pc, t, location, value, dispatched, h, old, moved, overtaken,
                     raced>>
      /\ push = "publish" /\ push' = "idle" /\ head' = Succ(h) /\ writes' = writes + 1
  BY Zenon DEF PushPublish, loop, history
<1>2. Apart /\ Alone /\ Newest
  BY <1>1, Zenon DEF PaceInv, AtPace
<1>3. /\ h = head /\ Succ(h) # tail
      /\ ring[h].location = writes + 1 /\ ring[h].value = writes + 1
  BY <1>1, <1>2 DEF Alone
<1>4. /\ head \in Slot /\ writes \in Nat /\ ring \in [Slot -> [location : Nat, value : Nat]]
  BY DEF TypeOK
<1>5. ring[head] = Entry(writes + 1)
  BY <1>3, <1>4 DEF Entry
<1>6. \A i \in Slot : Succ(i) = head' => ring'[i] = Entry(writes')
  BY <1>1, <1>3, <1>4, <1>5, SuccInjective
<1>7. head' # tail'
  BY <1>1, <1>3
<1>8. Apart'
  BY <1>1, <1>2, <1>7 DEF Apart, Taking
<1>9. Alone'
  BY <1>1 DEF Alone
<1>10. Newest'
  BY <1>6, <1>7, Zenon DEF Newest
<1> QED
  BY <1>8, <1>9, <1>10

(* The loop stores its tail: what it dispatches is the newest write, or the *)
(* newest is still queued.                                                 *)
LEMMA PaceStore ==
    ASSUME TypeOK, PaceInv, StoreTail, AtPace'
    PROVE  Apart' /\ Alone' /\ Newest'
<1>1. /\ UNCHANGED <<ring, head, t, location, value, push, h, old, writes, moved, overtaken>>
      /\ pc = "store" /\ pc' = "test" /\ tail' = Succ(t)
      /\ dispatched' = Append(dispatched, [location |-> location, value |-> value])
      /\ raced' = (raced \/ push \in {"drop", "dropped"})
  BY Zenon DEF StoreTail, modify, counts
<1>2. ~raced /\ ~overtaken /\ push \notin {"drop", "dropped"}
  BY <1>1, Zenon DEF AtPace
<1>3. Apart /\ Alone /\ Newest
  BY <1>2, Zenon DEF PaceInv, AtPace
<1>4. /\ head \in Slot /\ tail \in Slot /\ t \in Slot
      /\ ring \in [Slot -> [location : Nat, value : Nat]]
      /\ dispatched \in Seq([location : Nat, value : Nat])
      /\ location \in Nat /\ value \in Nat
  BY DEF TypeOK
<1>5. Taking /\ tail # head
  BY <1>1, <1>3 DEF Apart, Taking
<1>6. Apart'
  BY <1>1 DEF Apart, Taking
<1>7. CASE moved
  <2>1. tail' = tail
    BY <1>1, <1>3, <1>5, <1>7 DEF Apart
  <2>2. Alone'
    BY <1>1, <1>2, <1>3, <2>1 DEF Alone
  <2>3. Newest'
    BY <1>1, <1>3, <1>5, <2>1 DEF Newest
  <2> QED
    BY <1>6, <2>2, <2>3
<1>8. CASE ~moved
  <2>1. tail = t /\ location = ring[t].location /\ value = ring[t].value
    BY <1>1, <1>3, <1>5, <1>8 DEF Apart
  <2>2. Succ(head) # tail'
    BY <1>1, <1>4, <1>5, <2>1, SuccInjective
  <2>3. Alone'
    BY <1>1, <1>2, <1>3, <2>2 DEF Alone
  <2>4. ring[t] = [location |-> location, value |-> value]
    BY <1>4, <2>1
  <2>5. dispatched' # <<>> /\ dispatched'[Len(dispatched')] = ring[t]
    <3> DEFINE E == [location : Nat, value : Nat]
    <3>1. \A S : \A s \in Seq(S), e \in S :
            Append(s, e) # <<>> /\ Append(s, e)[Len(Append(s, e))] = e
      OBVIOUS
    <3>2. ring[t] \in E /\ dispatched \in Seq(E) /\ dispatched' = Append(dispatched, ring[t])
      BY <1>1, <1>4, <2>4
    <3> HIDE DEF E
    <3>3. Append(dispatched, ring[t]) # <<>>
          /\ Append(dispatched, ring[t])[Len(Append(dispatched, ring[t]))] = ring[t]
      BY <3>1, <3>2, Zenon
    <3> QED
      BY <3>2, <3>3, Zenon
  <2>6. writes > 0 /\ head = tail' => ring[t] = Entry(writes)
    BY <1>1, <1>3, <1>4 DEF Newest
  <2>7. Newest'
    <3>1. writes > 0 => \A i \in Slot : Succ(i) = head => ring[i] = Entry(writes)
      BY <1>3, Zenon DEF Newest
    <3> QED
      BY <1>1, <2>5, <2>6, <3>1 DEF Newest
  <2> QED
    BY <1>6, <2>3, <2>7
<1> QED
  BY <1>7, <1>8

LEMMA PaceStep ==
    ASSUME RingSize > 2, TypeOK, PaceInv, [Next]_vars
    PROVE  PaceInv'
<1> SUFFICES ASSUME AtPace' PROVE Apart' /\ Alone' /\ Newest'
  BY DEF PaceInv
<1>1. CASE PushLoad \/ PushTest
  <2>1. UNCHANGED <<ring, head, tail, pc, t, location, value, dispatched, writes, moved,
                    overtaken, raced>>
    BY <1>1, Zenon DEF PushLoad, PushTest, loop, counts, history
  <2>2. Apart /\ Alone /\ Newest
    BY <2>1, Zenon DEF PaceInv, AtPace
  <2>3. Apart'
    BY <2>1, <2>2 DEF Apart, Taking
  <2>4. Alone'
    BY <1>1, <2>1, <2>2 DEF PushLoad, PushTest, Alone
  <2> QED
    BY <2>1, <2>2, <2>3, <2>4, NewestStays
<1>2. CASE TestEmpty \/ ReadLocation \/ ReadValue
  <2>1. UNCHANGED <<ring, head, tail, t, dispatched, push, h, old, writes, moved, overtaken, raced>>
    BY <1>2, Zenon DEF TestEmpty, ReadLocation, ReadValue, modify, counts, history
  <2>2. Apart /\ Alone /\ Newest
    BY <2>1, Zenon DEF PaceInv, AtPace
  <2>3. Apart'
    BY <1>2, <2>1, <2>2 DEF TestEmpty, ReadLocation, ReadValue, Apart, Taking
  <2>4. Alone'
    BY <2>1, <2>2 DEF Alone
  <2> QED
    BY <2>1, <2>2, <2>3, <2>4, NewestStays
<1>3. CASE LoadTail
  <2>1. /\ UNCHANGED <<ring, head, tail, dispatched, push, h, old, writes, overtaken, raced>>
        /\ pc = "load" /\ pc' = "location" /\ t' = tail /\ moved' = FALSE
    BY <1>3, Zenon DEF LoadTail, modify, counts
  <2>2. Apart /\ Alone /\ Newest
    BY <2>1, Zenon DEF PaceInv, AtPace
  <2>3. Apart'
    BY <2>1, <2>2 DEF Apart, Taking
  <2>4. Alone'
    BY <2>1, <2>2 DEF Alone
  <2> QED
    BY <2>1, <2>2, <2>3, <2>4, NewestStays
<1>4. CASE UNCHANGED vars
  <2>1. UNCHANGED <<ring, head, tail, pc, t, location, value, dispatched, push, h, old, writes,
                    moved, overtaken, raced>>
    BY <1>4, Zenon DEF vars, loop, modify, counts, history
  <2>2. Apart /\ Alone /\ Newest
    BY <2>1, Zenon DEF PaceInv, AtPace
  <2> QED
    BY <2>1, <2>2 DEF Apart, Alone, Newest, Taking
<1> QED
  BY <1>1, <1>2, <1>3, <1>4, PaceWriteIsr, PaceDrop, PaceEntry, PacePublish, PaceStore, Zenon
  DEF Next, Push, Loop

(* "Drop oldest entry so the newest is never lost", for every ring of more   *)
(* than two slots: after any number of overflows, and with handler and      *)
(* MODIFY each moving the tail under the loop, the last write is still      *)
(* queued or is the last one dispatched -- as long as the tail moves at     *)
(* most once while the loop takes one entry, and neither producer runs in   *)
(* the middle of the other.  A ring of two slots holds one entry, and       *)
(* MODIFY drops that one before it has published its own.                   *)
THEOREM NewestSurvives == RingSize > 2 /\ Spec => []NewestKeptAtPace
<1>1. TypeOK /\ PaceInv => NewestKeptAtPace
  <2> SUFFICES ASSUME TypeOK, PaceInv, ~overtaken, ~raced, writes > 0
               PROVE  \/ head # tail /\ ring[(head - 1) % RingSize] = Entry(writes)
                      \/ dispatched # <<>> /\ dispatched[Len(dispatched)] = Entry(writes)
    BY DEF NewestKeptAtPace, NewestKept
  <2>1. Newest
    BY Zenon DEF PaceInv, AtPace
  <2>2. (head - 1) % RingSize \in Slot /\ Succ((head - 1) % RingSize) = head
    BY Below DEF TypeOK
  <2> QED
    BY <2>1, <2>2, Zenon DEF Newest
<1>2. CASE RingSize > 2
  <2>1. TypeOK /\ PaceInv /\ [Next]_vars => PaceInv'
    BY <1>2, PaceStep
  <2> QED
    BY <1>1, <2>1, TypeInit, TypeStep, PaceInit, PTL DEF Spec
<1>3. CASE ~(RingSize > 2)
  BY <1>3, PTL
<1> QED
  BY <1>2, <1>3

=============================================================================
