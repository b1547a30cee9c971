------------------------------ MODULE SpscQueue ------------------------------
(***************************************************************************)
(* class SpscQueue of include/mc6850.h: the lock-free ring between the two *)
(* cores.  The producer and the consumer each run on a core of their own,  *)
(* so every load and store of an atomic index, and every access to buf, is *)
(* a step.  head and tail are published with release stores and read with  *)
(* acquire loads: the byte a consumer reads below an index it has seen is  *)
(* the byte stored before that index was, and interleaving is all there is.*)
(*                                                                         *)
(* put() and get() test nothing: their callers do.  A producer reads the   *)
(* free space once and then puts up to that many bytes (uart_port_pump     *)
(* does so with host_transmit_level_avail(), guest_transmit() with         *)
(* has_space(), a batch of at most one); a consumer gets one byte each     *)
(* time it finds the ring not empty.  reset(), which stores both indices   *)
(* from one core, is left out: see README.md.                              *)
(***************************************************************************)
EXTENDS Integers, Sequences

CONSTANTS
    Byte,       \* the bytes
    NoByte,     \* not a byte: a local that holds none
    Capacity    \* CONSOLE_QUEUE_LEN, 1024

\* A power of two in the code, which is why "& MASK" there is "%" here.
ASSUME CapacityAssumption == Capacity \in Nat /\ Capacity > 1
ASSUME NoByteAssumption == NoByte \notin Byte

Index == 0 .. Capacity - 1

VARIABLES
    buf,        \* the slots
    head,       \* where the producer writes next
    tail,       \* where the consumer reads next
    credit,     \* puts the producer may still do on its last check
    putting,    \* producer: "no", "loaded" (h read), "stored" (buf[h] written)
    putByte,    \* argument of the put in progress
    putIndex,   \* its local h
    getting,    \* consumer: "no", "checked" (has_bytes), "loaded" (t read), "read"
    getByte,    \* its local ch
    getIndex,   \* its local t
    taken       \* the byte the last get() returned

prodVars == <<head, credit, putting, putByte, putIndex>>
consVars == <<tail, getting, getByte, getIndex, taken>>
vars == <<buf, prodVars, consVars>>

Level == (head - tail) % Capacity

Init ==
    /\ buf \in [Index -> {NoByte}]
    /\ head = 0 /\ tail = 0
    /\ credit = 0 /\ putting = "no" /\ putByte = NoByte /\ putIndex = 0
    /\ getting = "no" /\ getByte = NoByte /\ getIndex = 0
    /\ taken = NoByte

-----------------------------------------------------------------------------
(* The producer.  It owns head, so only its load of tail can be out of date *)
(* by the time a put uses the answer.                                      *)

\* Slip: every slot counts as free space.
CheckSpace_AllSlots ==
    /\ putting = "no"
    /\ credit' = Capacity - Level
    /\ UNCHANGED <<buf, consVars, head, putting, putByte, putIndex>>

CheckSpace ==
    /\ putting = "no"
    /\ credit' = (Capacity - 1) - Level
    /\ UNCHANGED <<buf, consVars, head, putting, putByte, putIndex>>

LoadHead(b) ==
    /\ putting = "no" /\ credit > 0
    /\ putting' = "loaded" /\ putByte' = b /\ putIndex' = head
    /\ UNCHANGED <<buf, consVars, head, credit>>

StoreByte ==
    /\ putting = "loaded"
    /\ buf' = [buf EXCEPT ![putIndex] = putByte]
    /\ putting' = "stored"
    /\ UNCHANGED <<consVars, head, credit, putByte, putIndex>>

\* Slip: "& MASK" is left out.
PublishHead_NoMask ==
    /\ putting = "stored"
    /\ head' = putIndex + 1
    /\ putting' = "no" /\ putByte' = NoByte
    /\ credit' = credit - 1
    /\ UNCHANGED <<buf, consVars, putIndex>>

PublishHead ==
    /\ putting = "stored"
    /\ head' = (putIndex + 1) % Capacity
    /\ putting' = "no" /\ putByte' = NoByte
    /\ credit' = credit - 1
    /\ UNCHANGED <<buf, consVars, putIndex>>

-----------------------------------------------------------------------------
(* The consumer. *)

CheckBytes ==
    /\ getting = "no"
    /\ head # tail
    /\ getting' = "checked"
    /\ UNCHANGED <<buf, prodVars, tail, getByte, getIndex, taken>>

\* Slip: the slot is given back before it is read.
LoadTail_StoresToo ==
    /\ getting = "checked"
    /\ getting' = "loaded" /\ getIndex' = tail
    /\ tail' = (tail + 1) % Capacity
    /\ UNCHANGED <<buf, prodVars, getByte, taken>>

LoadTail ==
    /\ getting = "checked"
    /\ getting' = "loaded" /\ getIndex' = tail
    /\ UNCHANGED <<buf, prodVars, tail, getByte, taken>>

ReadByte ==
    /\ getting = "loaded"
    /\ getByte' = buf[getIndex]
    /\ getting' = "read"
    /\ UNCHANGED <<buf, prodVars, tail, getIndex, taken>>

PublishTail ==
    /\ getting = "read"
    /\ tail' = (getIndex + 1) % Capacity
    /\ taken' = getByte
    /\ getting' = "no" /\ getByte' = NoByte
    /\ UNCHANGED <<buf, prodVars, getIndex>>

Produce == CheckSpace \/ StoreByte \/ PublishHead \/ \E b \in Byte : LoadHead(b)
Consume == CheckBytes \/ LoadTail \/ ReadByte \/ PublishTail

Next == Produce \/ Consume

Spec == Init /\ [][Next]_vars

-----------------------------------------------------------------------------
(* The indices stay inside buf: put() and get() index it without a test.   *)
TypeOK ==
    /\ buf \in [Index -> Byte \cup {NoByte}]
    /\ head \in Index /\ tail \in Index
    /\ credit \in 0 .. Capacity - 1
    /\ putting \in {"no", "loaded", "stored"}
    /\ putByte \in Byte \cup {NoByte} /\ putIndex \in Index
    /\ getting \in {"no", "checked", "loaded", "read"}
    /\ getByte \in Byte \cup {NoByte} /\ getIndex \in Index
    /\ taken \in Byte \cup {NoByte}

(* The free space a pump read before its batch is still there when the last *)
(* byte of the batch is put, however the other core has moved meanwhile:    *)
(* put() may rely on a check made many puts ago, and never overruns.        *)
CreditIsSound == credit <= (Capacity - 1) - Level

(* The two cores never touch one slot at the same time: the slot the        *)
(* producer is about to write is not the one the consumer is reading, even  *)
(* when the ring is full or has just become empty.                          *)
NoSlotRace ==
    putting \in {"loaded", "stored"} /\ getting \in {"loaded", "read"}
        => putIndex # getIndex

-----------------------------------------------------------------------------
(* The refinement: the queue is what lies between tail and head.           *)

At(i) == (tail + i) % Capacity
Queued == [i \in 1 .. Level |-> buf[At(i - 1)]]

F == INSTANCE Fifo WITH queue <- Queued

(* SpscQueue is a bounded FIFO: a put appends its byte when head is stored, *)
(* a get takes the oldest byte when tail is, and nothing else changes what  *)
(* the other core can see queued.                                           *)
IsFifo == F!Spec
=============================================================================
