-------------------------------- MODULE Fifo --------------------------------
(***************************************************************************)
(* What mc6850.h promises of SpscQueue to its two users: a bounded FIFO of *)
(* bytes.  One operation is one atomic step here.  SpscQueue.tla, where    *)
(* every load and store of the class is a step, implements this module;    *)
(* so does each direction of the whole port in Acia.tla.                   *)
(***************************************************************************)
EXTENDS Naturals, Sequences

CONSTANTS
    Byte,       \* what can be queued
    Capacity,   \* number of slots; one of them always stays free
    NoByte      \* "nothing has been taken yet"

VARIABLES
    queue,      \* the bytes queued, oldest first
    taken       \* the byte the last get() returned

fifoVars == <<queue, taken>>

Init == queue = <<>> /\ taken = NoByte

Put(b) ==
    /\ Len(queue) < Capacity - 1
    /\ queue' = Append(queue, b)
    /\ UNCHANGED taken

Get ==
    /\ queue # <<>>
    /\ taken' = Head(queue)
    /\ queue' = Tail(queue)

Next == Get \/ \E b \in Byte : Put(b)

Spec == Init /\ [][Next]_fifoVars
=============================================================================
