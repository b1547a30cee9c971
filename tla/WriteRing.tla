------------------------------ MODULE WriteRing ------------------------------
(***************************************************************************)
(* write_ring of src/pico_thing.cpp: how the writes of the guest get from  *)
(* the DMA write interrupt, which may not be slow, to the for(;;) loop of  *)
(* Core 1.  The handler runs whole; the loop can be interrupted between    *)
(* any two of its accesses to the ring.  Both move the tail: the loop when *)
(* it takes an entry, the handler when the ring is full and it drops one.  *)
(* The MODIFY command pushes the registers it writes from Core 0, beside   *)
(* both, one access at a step.                                             *)
(*                                                                         *)
(* The k-th write has location k and value k, so an entry is whole when    *)
(* the two are equal, and what was dispatched shows what was lost.         *)
(***************************************************************************)
EXTENDS Integers, Sequences

CONSTANTS
    RingSize,   \* WRITE_RING_SIZE, 32
    MaxWrites   \* bound on the number of writes

ASSUME WriteRingAssumption ==
    RingSize \in Nat /\ RingSize > 1 /\ MaxWrites \in Nat

Slot == 0 .. RingSize - 1

VARIABLES
    ring, head, tail,
    pc,         \* the loop: "test", "load", "location", "value", "store"
    t,          \* its local t
    location,   \* its local written_location
    value,      \* its local written_byte
    push,       \* MODIFY: "idle", "test", "drop", "dropped", "location", "value", "publish"
    h,          \* its local h
    old,        \* the tail it is about to replace
    writes,     \* writes so far
    dropped,    \* write_ring_overflow
    moved,      \* another has moved the tail since the loop loaded t
    overtaken,  \* history: once it has been moved twice
    raced,      \* history: the handler has run in the middle of a push of MODIFY, or
                \* the loop has moved the tail between its test for full and its drop
    dispatched  \* the entries the loop handed to its switch

loop == <<pc, t, location, value, dispatched>>
modify == <<push, h, old>>
counts == <<writes, dropped>>
history == <<moved, overtaken, raced>>
vars == <<ring, head, tail, loop, modify, counts, history>>

Succ(i) == (i + 1) % RingSize      \* (i + 1u) & WRITE_RING_MASK
Entry(k) == [location |-> k, value |-> k]

Init ==
    /\ ring = [i \in Slot |-> Entry(0)]
    /\ head = 0 /\ tail = 0
    /\ pc = "test" /\ t = 0 /\ location = 0 /\ value = 0
    /\ push = "idle" /\ h = 0 /\ old = 0
    /\ writes = 0 /\ dropped = 0
    /\ moved = FALSE /\ overtaken = FALSE /\ raced = FALSE
    /\ dispatched = <<>>

-----------------------------------------------------------------------------
Taking == pc \in {"location", "value", "store"}

\* An entry is dropped: the tail moves, perhaps under the loop.
Drops ==
    /\ dropped' = dropped + 1
    /\ moved' = Taking
    /\ overtaken' = (overtaken \/ (Taking /\ moved))

\* Slip: the ring is not tested for being full.
WriteIsr_Overruns ==
    /\ writes < MaxWrites
    /\ writes' = writes + 1
    /\ ring' = [ring EXCEPT ![head] = Entry(writes + 1)]
    /\ head' = Succ(head)
    /\ raced' = (raced \/ push # "idle")
    /\ UNCHANGED <<loop, modify, tail, dropped, moved, overtaken>>

(* The end of dma_bus_write_irq_handler.                                    *)
WriteIsr ==
    /\ writes < MaxWrites
    /\ writes' = writes + 1
    /\ ring' = [ring EXCEPT ![head] = Entry(writes + 1)]
    /\ head' = Succ(head)
    /\ IF Succ(head) = tail THEN tail' = Succ(tail) /\ Drops
       ELSE UNCHANGED <<tail, dropped, moved, overtaken>>
    /\ raced' = (raced \/ push # "idle")
    /\ UNCHANGED <<loop, modify>>

-----------------------------------------------------------------------------
(* The loop body of the MODIFY command, on Core 0.                          *)
PushLoad ==
    /\ push = "idle" /\ writes < MaxWrites
    /\ h' = head
    /\ push' = "test"
    /\ UNCHANGED <<ring, head, tail, loop, old, counts, history>>

PushTest ==
    /\ push = "test"
    /\ push' = IF Succ(h) = tail THEN "drop" ELSE "location"
    /\ UNCHANGED <<ring, head, tail, loop, h, old, counts, history>>

\* The tail is loaded again, and stored.
PushDrop ==
    /\ \/ /\ push = "drop" /\ push' = "dropped"
          /\ old' = tail /\ UNCHANGED <<tail, dropped, moved, overtaken>>
       \/ /\ push = "dropped" /\ push' = "location"
          /\ tail' = Succ(old) /\ Drops /\ UNCHANGED old
    /\ UNCHANGED <<ring, head, loop, h, writes, raced>>

PushEntry ==
    /\ \/ /\ push = "location" /\ push' = "value"
          /\ ring' = [ring EXCEPT ![h].location = writes + 1]
       \/ /\ push = "value" /\ push' = "publish"
          /\ ring' = [ring EXCEPT ![h].value = writes + 1]
    /\ UNCHANGED <<head, tail, loop, h, old, counts, history>>

PushPublish ==
    /\ push = "publish" /\ push' = "idle"
    /\ head' = Succ(h)
    /\ writes' = writes + 1
    /\ UNCHANGED <<ring, tail, loop, h, old, dropped, history>>

-----------------------------------------------------------------------------
(* The drain in main_core1.                                                 *)
TestEmpty ==        \* while (write_ring_tail != write_ring_head)
    /\ pc = "test" /\ tail # head
    /\ pc' = "load"
    /\ UNCHANGED <<ring, head, tail, t, location, value, dispatched, modify, counts, history>>

LoadTail ==
    /\ pc = "load"
    /\ t' = tail /\ moved' = FALSE
    /\ pc' = "location"
    /\ UNCHANGED <<ring, head, tail, location, value, dispatched, modify, counts, overtaken,
                   raced>>

ReadLocation ==
    /\ pc = "location"
    /\ location' = ring[t].location
    /\ pc' = "value"
    /\ UNCHANGED <<ring, head, tail, t, value, dispatched, modify, counts, history>>

ReadValue ==
    /\ pc = "value"
    /\ value' = ring[t].value
    /\ pc' = "store"
    /\ UNCHANGED <<ring, head, tail, t, location, dispatched, modify, counts, history>>

\* Slip: "& WRITE_RING_MASK" is left out.
StoreTail_NoMask ==
    /\ pc = "store"
    /\ tail' = t + 1
    /\ dispatched' = Append(dispatched, [location |-> location, value |-> value])
    /\ pc' = "test"
    /\ raced' = (raced \/ push \in {"drop", "dropped"})
    /\ UNCHANGED <<ring, head, t, location, value, modify, counts, moved, overtaken>>

StoreTail ==        \* and the switch on written_location
    /\ pc = "store"
    /\ tail' = Succ(t)
    /\ dispatched' = Append(dispatched, [location |-> location, value |-> value])
    /\ pc' = "test"
    /\ raced' = (raced \/ push \in {"drop", "dropped"})
    /\ UNCHANGED <<ring, head, t, location, value, modify, counts, moved, overtaken>>

Push == PushLoad \/ PushTest \/ PushDrop \/ PushEntry \/ PushPublish
Loop == TestEmpty \/ LoadTail \/ ReadLocation \/ ReadValue \/ StoreTail

Next == WriteIsr \/ Push \/ Loop

Spec == Init /\ [][Next]_vars

-----------------------------------------------------------------------------
(* The entries between tail and head, oldest first.                         *)
Level == (head - tail) % RingSize
Queued == [i \in 1 .. Level |-> ring[(tail + i - 1) % RingSize]]

TypeOK ==
    /\ ring \in [Slot -> [location : Nat, value : Nat]]
    /\ head \in Slot /\ tail \in Slot
    /\ t \in Slot /\ h \in Slot /\ old \in Slot
    /\ pc \in {"test", "load", "location", "value", "store"}
    /\ push \in {"idle", "test", "drop", "dropped", "location", "value", "publish"}
    /\ location \in Nat /\ value \in Nat /\ writes \in Nat /\ dropped \in Nat
    /\ moved \in BOOLEAN /\ overtaken \in BOOLEAN /\ raced \in BOOLEAN
    /\ dispatched \in Seq([location : Nat, value : Nat])

(* Until the ring has overflowed, and as long as a push of MODIFY is left    *)
(* alone, every write, the guest's and Core 0's, is dispatched once, whole  *)
(* and in order, wherever handler and Core 0 land in the drain: what has    *)
(* been dispatched and what is queued make 1, 2, ..., writes.               *)
ExactlyOnce ==
    dropped = 0 /\ ~raced => dispatched \o Queued = [i \in 1 .. writes |-> Entry(i)]

(* "Ring full -- drop oldest entry so the newest is never lost": the last    *)
(* write is still queued, or is the last one dispatched.                    *)
NewestKept ==
    writes > 0 =>
        \/ head # tail /\ ring[(head - 1) % RingSize] = Entry(writes)
        \/ dispatched # <<>> /\ dispatched[Len(dispatched)] = Entry(writes)

(* As long as handler and Core 0 do not move the tail twice while the loop   *)
(* takes one entry, this is so even though each of them moves it under the   *)
(* loop (src/pico_thing.cpp:427).                                           *)
NewestKeptAtPace == ~overtaken /\ ~raced => NewestKept
=============================================================================
