--------------------------- MODULE SpscQueue_proofs ---------------------------
(***************************************************************************)
(* Proofs about SpscQueue for every capacity and every set of bytes: its   *)
(* indices stay in range, the credit of a batch stays sound, the two cores *)
(* never share a slot, and the ring implements Fifo.                       *)
(***************************************************************************)
EXTENDS SpscQueue, SequenceTheorems, TLAPS

(* "% Capacity" on the three ranges the index arithmetic reaches.          *)
LEMMA WrapLow == ASSUME NEW n \in 0 .. Capacity - 1 PROVE n % Capacity = n
BY CapacityAssumption, SMT

LEMMA WrapHigh ==
    ASSUME NEW n \in Capacity .. 2 * Capacity - 1
    PROVE  n % Capacity = n - Capacity
BY CapacityAssumption, SMT

LEMMA WrapNegative ==
    ASSUME NEW n \in 1 - Capacity .. -1
    PROVE  n % Capacity = n + Capacity
BY CapacityAssumption, SMT

(* The distance from one index up to another, free of "%".                 *)
LEMMA DistanceCases ==
    ASSUME NEW h \in Index, NEW t \in Index
    PROVE  /\ (h - t) % Capacity = IF h >= t THEN h - t ELSE h - t + Capacity
           /\ (h - t) % Capacity \in 0 .. Capacity - 1
           /\ (h - t) % Capacity = 0 <=> h = t
<1>1. CASE h >= t
  <2>1. h - t \in 0 .. Capacity - 1
    BY <1>1, CapacityAssumption DEF Index
  <2> QED  BY <1>1, <2>1, WrapLow, CapacityAssumption DEF Index
<1>2. CASE ~(h >= t)
  <2>1. h - t \in 1 - Capacity .. -1
    BY <1>2, CapacityAssumption DEF Index
  <2> QED  BY <1>2, <2>1, WrapNegative, CapacityAssumption DEF Index
<1> QED  BY <1>1, <1>2

(* The successor of an index, free of "%".                                 *)
LEMMA SuccCases ==
    ASSUME NEW i \in Index
    PROVE  /\ (i + 1) % Capacity = IF i = Capacity - 1 THEN 0 ELSE i + 1
           /\ (i + 1) % Capacity \in Index
<1>1. CASE i = Capacity - 1
  <2>1. i + 1 \in Capacity .. 2 * Capacity - 1
    BY <1>1, CapacityAssumption
  <2> QED  BY <1>1, <2>1, WrapHigh, CapacityAssumption DEF Index
<1>2. CASE i # Capacity - 1
  <2>1. i + 1 \in 0 .. Capacity - 1
    BY <1>2, CapacityAssumption DEF Index
  <2> QED  BY <1>2, <2>1, WrapLow, CapacityAssumption DEF Index
<1> QED  BY <1>1, <1>2

-----------------------------------------------------------------------------
(* The inductive invariant.  TypeOK alone is not inductive (nothing in it  *)
(* stops credit from going negative), nor are the others: a put in         *)
(* progress has a credit and holds the head, a get in progress has a byte  *)
(* to take and holds the tail, and both hold what they say they hold.      *)
IInv ==
    /\ TypeOK
    /\ CreditIsSound
    /\ putting # "no" => credit > 0 /\ putIndex = head /\ putByte \in Byte
    /\ putting = "stored" => buf[putIndex] = putByte
    /\ getting # "no" => head # tail
    /\ getting \in {"loaded", "read"} => getIndex = tail
    /\ getting = "read" => getByte = buf[getIndex]

LEMMA IInvInit == Init => IInv
<1> SUFFICES ASSUME Init PROVE IInv
  OBVIOUS
<1>1. head \in Index /\ tail \in Index
  BY CapacityAssumption DEF Init, Index
<1>2. Level = 0
  BY <1>1, DistanceCases DEF Init, Level
<1>3. TypeOK
  BY <1>1, CapacityAssumption DEF Init, TypeOK, Index
<1> QED
  BY <1>2, <1>3, CapacityAssumption DEF Init, IInv, CreditIsSound

LEMMA IInvStep == IInv /\ [Next]_vars => IInv'
<1> SUFFICES ASSUME IInv, [Next]_vars PROVE IInv'
  OBVIOUS
<1> USE CapacityAssumption
<1>t. /\ head \in Index /\ tail \in Index
      /\ putIndex \in Index /\ getIndex \in Index
      /\ credit \in 0 .. Capacity - 1
  BY DEF IInv, TypeOK
<1>l. /\ Level = IF head >= tail THEN head - tail ELSE head - tail + Capacity
      /\ Level \in 0 .. Capacity - 1
      /\ Level = 0 <=> head = tail
  BY <1>t, DistanceCases DEF Level
<1>1. CASE CheckSpace
  BY <1>1, <1>l DEF CheckSpace, consVars, IInv, TypeOK, CreditIsSound, Level
<1>2. ASSUME NEW b \in Byte, LoadHead(b) PROVE IInv'
  BY <1>2, <1>t DEF LoadHead, consVars, IInv, TypeOK, CreditIsSound, Level, Index
<1>3. CASE StoreByte
  \* The slot written is free: it is not the one a reading consumer holds.
  <2>1. getting = "read" => getIndex # putIndex
    BY <1>3 DEF StoreByte, IInv
  <2> QED
    BY <1>3, <1>t, <2>1 DEF StoreByte, consVars, IInv, TypeOK, CreditIsSound, Level
<1>4. CASE PublishHead
  <2>1. putIndex = head /\ credit > 0 /\ head' = (head + 1) % Capacity
    BY <1>4 DEF PublishHead, IInv
  <2>2. head' = IF head = Capacity - 1 THEN 0 ELSE head + 1
    BY <2>1, <1>t, SuccCases
  <2>3. head' \in Index /\ tail' \in Index
    BY <2>2, <1>t, <1>4 DEF PublishHead, consVars, Index
  <2>4. Level' = IF head' >= tail' THEN head' - tail' ELSE head' - tail' + Capacity
    BY <2>3, DistanceCases DEF Level
  <2>5. Level < Capacity - 1
    BY <2>1, <1>l, <1>t DEF IInv, CreditIsSound
  <2>6. Level' = Level + 1
    BY <2>2, <2>4, <2>5, <1>l, <1>t, <1>4 DEF PublishHead, consVars, Index
  <2>7. head' # tail'
    BY <2>2, <2>5, <1>l, <1>t, <1>4 DEF PublishHead, consVars, Index
  <2> QED
    BY <1>4, <1>t, <1>l, <2>1, <2>3, <2>6, <2>7
    DEF PublishHead, consVars, IInv, TypeOK, CreditIsSound
<1>5. CASE CheckBytes
  BY <1>5, <1>t DEF CheckBytes, prodVars, IInv, TypeOK, CreditIsSound, Level
<1>6. CASE LoadTail
  BY <1>6, <1>t DEF LoadTail, prodVars, IInv, TypeOK, CreditIsSound, Level
<1>7. CASE ReadByte
  BY <1>7, <1>t DEF ReadByte, prodVars, IInv, TypeOK, CreditIsSound, Level
<1>8. CASE PublishTail
  <2>1. head # tail /\ tail' = (tail + 1) % Capacity
    BY <1>8 DEF PublishTail, IInv
  <2>2. tail' = IF tail = Capacity - 1 THEN 0 ELSE tail + 1
    BY <2>1, <1>t, SuccCases
  <2>3. head' \in Index /\ tail' \in Index
    BY <2>2, <1>t, <1>8 DEF PublishTail, prodVars, Index
  <2>4. Level' = IF head' >= tail' THEN head' - tail' ELSE head' - tail' + Capacity
    BY <2>3, DistanceCases DEF Level
  <2>5. Level' = Level - 1
    BY <2>1, <2>2, <2>4, <1>l, <1>t, <1>8 DEF PublishTail, prodVars, Index
  <2> QED
    BY <1>8, <1>t, <1>l, <2>3, <2>5 DEF PublishTail, prodVars, IInv, TypeOK, CreditIsSound
<1>9. CASE UNCHANGED vars
  BY <1>9 DEF vars, prodVars, consVars, IInv, TypeOK, CreditIsSound, Level
<1> QED
  BY <1>1, <1>2, <1>3, <1>4, <1>5, <1>6, <1>7, <1>8, <1>9 DEF Next, Produce, Consume

(* For every capacity and every set of bytes: no access of put() or get()  *)
(* leaves buf, the credit a pump computed once holds for its whole batch,  *)
(* and the two cores never touch one slot at the same time.                *)
THEOREM Safety == Spec => [](TypeOK /\ CreditIsSound /\ NoSlotRace)
<1>1. IInv => TypeOK /\ CreditIsSound /\ NoSlotRace
  BY DEF IInv, NoSlotRace
<1> QED
  BY <1>1, IInvInit, IInvStep, PTL DEF Spec

-----------------------------------------------------------------------------
(* The refinement.  Queued is a function on 1 .. Level; the facts below     *)
(* say at which slot each of its elements lies, before and after a step.   *)

LEMMA AtIsIndex ==
    ASSUME NEW t \in Index, NEW k \in 0 .. Capacity - 1
    PROVE  /\ (t + k) % Capacity = IF t + k < Capacity THEN t + k ELSE t + k - Capacity
           /\ (t + k) % Capacity \in Index
<1>1. CASE t + k < Capacity
  <2>1. t + k \in 0 .. Capacity - 1
    BY <1>1, CapacityAssumption DEF Index
  <2> QED  BY <1>1, <2>1, WrapLow, CapacityAssumption DEF Index
<1>2. CASE ~(t + k < Capacity)
  <2>1. t + k \in Capacity .. 2 * Capacity - 1
    BY <1>2, CapacityAssumption DEF Index
  <2> QED  BY <1>2, <2>1, WrapHigh, CapacityAssumption DEF Index
<1> QED  BY <1>1, <1>2

(* Every slot in the queue holds something buf may hold, so Queued is a     *)
(* sequence, whose length is the level.                                    *)
LEMMA QueuedIsSeq ==
    TypeOK => Queued \in Seq(Byte \cup {NoByte}) /\ Len(Queued) = Level /\ Level \in Nat
<1> SUFFICES ASSUME TypeOK
             PROVE  Queued \in Seq(Byte \cup {NoByte}) /\ Len(Queued) = Level /\ Level \in Nat
  OBVIOUS
<1>1. Level \in 0 .. Capacity - 1
  BY DistanceCases DEF TypeOK, Level
<1>2. ASSUME NEW i \in 1 .. Level PROVE buf[At(i - 1)] \in Byte \cup {NoByte}
  <2>1. i - 1 \in 0 .. Capacity - 1
    BY <1>1, CapacityAssumption
  <2> QED  BY <2>1, AtIsIndex DEF TypeOK, At
<1> QED  BY <1>1, <1>2, CapacityAssumption DEF Queued

LEMMA RefineInit == Init => F!Init
<1> SUFFICES ASSUME Init PROVE F!Init
  OBVIOUS
<1>1. TypeOK /\ Level = 0
  BY IInvInit, DistanceCases DEF IInv, TypeOK, Init, Level
<1> QED  BY <1>1, QueuedIsSeq DEF F!Init, Init

(* A put appends: the new byte lies at head, behind all the others.        *)
LEMMA RefinePut ==
    ASSUME IInv, PublishHead, IInv'
    PROVE  F!Put(putByte)
<1> USE CapacityAssumption
<1>1. /\ putIndex = head /\ credit > 0 /\ buf[head] = putByte
      /\ buf' = buf /\ tail' = tail /\ taken' = taken
      /\ head' = (head + 1) % Capacity
  BY DEF IInv, PublishHead, consVars
<1>2. /\ head \in Index /\ tail \in Index /\ head' \in Index /\ credit \in Nat
  BY DEF IInv, TypeOK
<1>3. head' = IF head = Capacity - 1 THEN 0 ELSE head + 1
  BY <1>1, <1>2, SuccCases
<1>4. Level < Capacity - 1 /\ Level \in 0 .. Capacity - 1
  BY <1>1, <1>2, DistanceCases DEF IInv, CreditIsSound, Level
<1>5. Level' = Level + 1
  BY <1>1, <1>2, <1>3, <1>4, DistanceCases DEF Level, Index
<1>6. At(Level) = head
  <2>1. Level = IF head >= tail THEN head - tail ELSE head - tail + Capacity
    BY <1>2, DistanceCases DEF Level
  <2>2. At(Level) = IF tail + Level < Capacity THEN tail + Level ELSE tail + Level - Capacity
    BY <1>2, <1>4, AtIsIndex DEF At
  <2> QED  BY <1>2, <2>1, <2>2 DEF Index
<1>7. Queued' = [i \in 1 .. Level + 1 |-> buf[At(i - 1)]]
  BY <1>1, <1>5 DEF Queued, At
<1>8. Queued' = Append(Queued, putByte)
  <2>1. Queued \in Seq(Byte \cup {NoByte}) /\ Len(Queued) = Level
    BY QueuedIsSeq DEF IInv
  <2>2. Queued' \in Seq(Byte \cup {NoByte}) /\ Len(Queued') = Level + 1
    <3>1. (TypeOK => Queued \in Seq(Byte \cup {NoByte}) /\ Len(Queued) = Level)'
      BY QueuedIsSeq, PTL
    <3> QED  BY <1>5, <3>1 DEF IInv
  <2> DEFINE app == Append(Queued, putByte)
  <2>3. /\ app \in Seq(Byte \cup {NoByte}) /\ Len(app) = Level + 1
        /\ \A i \in 1 .. Level : app[i] = Queued[i]
        /\ app[Level + 1] = putByte
    BY <2>1, AppendProperties DEF IInv, TypeOK
  <2>4. ASSUME NEW i \in 1 .. Level + 1 PROVE Queued'[i] = app[i]
    <3>1. CASE i = Level + 1
      BY <1>1, <1>4, <1>6, <1>7, <2>3, <3>1
    <3>2. CASE i # Level + 1
      <4>1. i \in 1 .. Level
        BY <1>4, <3>2
      <4> HIDE DEF app
      <4> QED  BY <1>7, <2>3, <4>1 DEF Queued
    <3> QED  BY <3>1, <3>2
  <2> HIDE DEF app
  <2>5. Queued' = app
    BY <2>2, <2>3, <2>4, SeqEqual
  <2> QED  BY <2>5 DEF app
<1> QED
  BY <1>1, <1>4, <1>8, QueuedIsSeq DEF F!Put, IInv

(* A get takes the oldest byte: it is the one at tail.                     *)
LEMMA RefineGet ==
    ASSUME IInv, PublishTail, IInv'
    PROVE  F!Get
<1> USE CapacityAssumption
<1>1. /\ getIndex = tail /\ head # tail /\ getByte = buf[tail]
      /\ buf' = buf /\ head' = head /\ taken' = getByte
      /\ tail' = (tail + 1) % Capacity
  BY DEF IInv, PublishTail, prodVars
<1>2. head \in Index /\ tail \in Index /\ tail' \in Index
  BY DEF IInv, TypeOK
<1>3. tail' = IF tail = Capacity - 1 THEN 0 ELSE tail + 1
  BY <1>1, <1>2, SuccCases
<1>4. Level \in 1 .. Capacity - 1
  BY <1>1, <1>2, DistanceCases DEF Level
<1>5. Level' = Level - 1
  <2>1. Level = IF head >= tail THEN head - tail ELSE head - tail + Capacity
    BY <1>2, DistanceCases DEF Level
  <2>2. Level' = IF head >= tail' THEN head - tail' ELSE head - tail' + Capacity
    BY <1>1, <1>2, DistanceCases DEF Level
  <2> QED  BY <1>1, <1>2, <1>3, <2>1, <2>2 DEF Index
<1>6. /\ Queued \in Seq(Byte \cup {NoByte}) /\ Len(Queued) = Level
  BY QueuedIsSeq DEF IInv
<1>7. At(0) = tail
  BY <1>2, WrapLow DEF At, Index
<1>8. Head(Queued) = taken'
  BY <1>1, <1>4, <1>6, <1>7 DEF Queued
<1>9. ASSUME NEW i \in 1 .. Level - 1 PROVE (tail' + (i - 1)) % Capacity = At(i)
  <2>1. i - 1 \in 0 .. Capacity - 1 /\ i \in 0 .. Capacity - 1
    BY <1>4
  <2>2. At(i) = IF tail + i < Capacity THEN tail + i ELSE tail + i - Capacity
    BY <1>2, <2>1, AtIsIndex DEF At
  <2>3. (tail' + (i - 1)) % Capacity
            = IF tail' + (i - 1) < Capacity THEN tail' + (i - 1)
                                            ELSE tail' + (i - 1) - Capacity
    BY <1>2, <2>1, AtIsIndex
  <2> QED  BY <1>2, <1>3, <2>1, <2>2, <2>3 DEF Index
<1>10. Queued' = [i \in 1 .. Level - 1 |-> buf[At(i)]]
  BY <1>1, <1>5, <1>9 DEF Queued, At
<1>11. Queued' = Tail(Queued)
  <2>1. /\ Tail(Queued) \in Seq(Byte \cup {NoByte})
        /\ Len(Tail(Queued)) = Level - 1
        /\ \A i \in 1 .. Level - 1 : Tail(Queued)[i] = Queued[i + 1]
    <3>1. Queued # <<>>
      BY <1>4, <1>6, EmptySeq
    <3> QED  BY <1>6, <3>1, HeadTailProperties
  <2>2. Queued' \in Seq(Byte \cup {NoByte}) /\ Len(Queued') = Level - 1
    <3>1. (TypeOK => Queued \in Seq(Byte \cup {NoByte}) /\ Len(Queued) = Level)'
      BY QueuedIsSeq, PTL
    <3> QED  BY <1>5, <3>1 DEF IInv
  <2>3. ASSUME NEW i \in 1 .. Level - 1 PROVE Queued'[i] = Tail(Queued)[i]
    <3>1. i + 1 \in 1 .. Level /\ (i + 1) - 1 = i
      BY <1>4
    <3>2. Queued[i + 1] = buf[At(i)]
      BY <3>1 DEF Queued
    <3> QED  BY <1>10, <2>1, <3>2
  <2> QED  BY <2>1, <2>2, <2>3, SeqEqual
<1> QED
  BY <1>4, <1>6, <1>8, <1>11 DEF F!Get

(* Any other step leaves every queued byte where it is; a store into buf   *)
(* hits the one slot that is not in the queue.                             *)
LEMMA RefineStutter ==
    ASSUME IInv, StoreByte
    PROVE  UNCHANGED <<Queued, taken>>
<1> USE CapacityAssumption
<1>1. /\ head \in Index /\ tail \in Index /\ putIndex = head
      /\ credit > 0 /\ credit \in Nat /\ buf \in [Index -> Byte \cup {NoByte}]
  BY DEF IInv, TypeOK, StoreByte
<1>2. Level \in 0 .. Capacity - 2
  BY <1>1, DistanceCases DEF IInv, CreditIsSound, Level
<1>3. ASSUME NEW i \in 1 .. Level PROVE buf'[At(i - 1)] = buf[At(i - 1)]
  <2>1. i - 1 \in 0 .. Capacity - 1
    BY <1>2
  <2>2. At(i - 1) \in Index /\ At(i - 1) # head
    <3>1. Level = IF head >= tail THEN head - tail ELSE head - tail + Capacity
      BY <1>1, DistanceCases DEF Level
    <3>2. /\ At(i - 1) \in Index
          /\ At(i - 1) = IF tail + (i - 1) < Capacity THEN tail + (i - 1)
                                                     ELSE tail + (i - 1) - Capacity
      BY <1>1, <2>1, AtIsIndex DEF At
    <3> QED  BY <1>1, <1>2, <3>1, <3>2 DEF Index
  <2> QED  BY <1>1, <2>2 DEF StoreByte
<1>4. Level' = Level /\ tail' = tail /\ taken' = taken
  BY DEF StoreByte, consVars, Level
<1> QED  BY <1>3, <1>4 DEF Queued, At

LEMMA RefineStep == IInv /\ IInv' /\ [Next]_vars => [F!Next]_F!fifoVars
<1> SUFFICES ASSUME IInv, IInv', [Next]_vars PROVE [F!Next]_F!fifoVars
  OBVIOUS
<1>1. CASE PublishHead
  BY <1>1, RefinePut DEF F!Next, IInv, PublishHead
<1>2. CASE PublishTail
  BY <1>2, RefineGet DEF F!Next
<1>3. CASE StoreByte
  BY <1>3, RefineStutter DEF F!fifoVars
<1>4. CASE CheckSpace \/ CheckBytes \/ LoadTail \/ ReadByte \/ \E b \in Byte : LoadHead(b)
  BY <1>4 DEF CheckSpace, CheckBytes, LoadTail, ReadByte, LoadHead, prodVars, consVars,
              F!fifoVars, Queued, At, Level
<1>5. CASE UNCHANGED vars
  BY <1>5 DEF vars, prodVars, consVars, F!fifoVars, Queued, At, Level
<1> QED
  BY <1>1, <1>2, <1>3, <1>4, <1>5 DEF Next, Produce, Consume

(* SpscQueue implements the bounded FIFO: what one core puts the other gets, *)
(* once, whole and in order, for every capacity and every set of bytes.     *)
THEOREM Refinement == Spec => IsFifo
<1> QED
  BY RefineInit, RefineStep, IInvInit, IInvStep, PTL DEF Spec, IsFifo, F!Spec
=============================================================================
