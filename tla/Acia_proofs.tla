----------------------------- MODULE Acia_proofs -----------------------------
(***************************************************************************)
(* Proofs about Acia for every queue size, threshold, set of control words *)
(* and bound: its types, that irq_dirty never loses a wakeup, that a queued *)
(* control word leaves RTS alone, and, under the hypotheses OneWriter and  *)
(* OneReader, that a polled byte crosses exactly once, out and in, as in   *)
(* the FIFO of Fifo.tla.                                                   *)
(***************************************************************************)
EXTENDS Acia, SequenceTheorems, FiniteSetTheorems, TLAPS

SyncPcs == {"sync", "sync.compare", "sync.publish"}

(* TypeOK with what it takes to be inductive: where the thread has a byte   *)
(* to take, where it has a read to count off, which kind of entry it has in *)
(* hand, and where sync_status() was called from.                          *)
TypeInv ==
    /\ TypeOK
    /\ pc \in {"hi.full", "hi.data", "gr.data"} => rx # <<>>
    /\ pc \in {"gr.drop", "gr.stage", "gr.data", "gr.end", "gr.ret"} => rxReads > 0
    /\ pc \in SyncPcs /\ ret = "gr.ret" => rxReads > 0
    /\ pc \in {"sync.tbe", "sync.cts"} => ret = "ring"
    /\ pc = "gc" => entry.kind = "control"
    /\ pc \in {"gt.ack", "gt.put", "gt.close", "gt.irq"} => entry.kind = "data"

LEMMA StatusWords == ConsoleNone \in StatusByte /\ ResetStatus \in StatusByte
BY DEF StatusByte, ConsoleNone, ResetStatus

LEMMA TypeInit == Init => TypeInv
<1> SUFFICES ASSUME Init PROVE TypeInv
  OBVIOUS
<1>1. {status, cachedStatus, sr, seen} \subseteq StatusByte
  BY StatusWords DEF Init, NoStatus
<1>2. /\ tx \in Seq(Nat) /\ rx \in Seq(Nat) /\ Len(tx) <= QueueMax /\ Len(rx) <= QueueMax
      /\ ring \in Seq(Writes) /\ hostLog \in Seq(Nat) /\ guestLog \in Seq(Nat)
  BY AciaAssumption DEF Init
<1>3. lastWord \in ControlWord
  BY DEF Init, ControlWord
<1>4. /\ pc = "top" /\ ret = "top" /\ entry = NoAccess /\ access = NoAccess
      /\ rxReads = 0 /\ sent = 0 /\ written = 0 /\ controls = 0 /\ data = 0 /\ core0 = "idle"
  BY DEF Init
<1>5. {tbe, rbf, txIrq, rxIrq, atx, arx, cts, rts, loopClose, loopQueue, txPending,
        dirty, hostCts, cachedIrq, qRising} \subseteq BOOLEAN
  BY DEF Init
<1> QED  BY <1>1, <1>2, <1>3, <1>4, <1>5 DEF TypeInv, TypeOK, Threads, SyncPcs

LEMMA DeriveType ==
    ASSUME NEW f \in BOOLEAN, NEW e \in BOOLEAN, NEW c \in BOOLEAN,
           NEW p \in BOOLEAN, NEW at \in BOOLEAN, NEW ar \in BOOLEAN
    PROVE  Derive(f, e, c, p, at, ar) \in StatusByte
BY DEF Derive, StatusByte

LEMMA WriteEntry ==
    ASSUME NEW e \in Writes
    PROVE  /\ e.kind \in {"data", "control"}
           /\ e.kind = "data" => e.byte \in Nat
           /\ e.kind = "control" => e.word \in ControlWord
BY DEF Writes

(* A put() that its caller has checked leaves a queue within its capacity.   *)
LEMMA PutKeepsCapacity ==
    ASSUME NEW q \in Seq(Nat), NEW b \in Nat, Len(q) < QueueMax
    PROVE  /\ Append(q, b) \in Seq(Nat) /\ Len(Append(q, b)) <= QueueMax
           /\ Append(q, b) # <<>>
<1>1. Append(q, b) \in Seq(Nat) /\ Len(Append(q, b)) = Len(q) + 1 /\ Len(q) \in Nat
  BY AppendProperties, LenProperties
<1>2. Append(q, b) # <<>>
  BY <1>1
<1> QED  BY <1>1, <1>2, AciaAssumption

LEMMA TypeThread == TypeInv /\ Thread => TypeInv'
<1> SUFFICES ASSUME TypeInv, Thread PROVE TypeInv'
  OBVIOUS
<1> USE DEF TypeInv, TypeOK, Threads, SyncPcs, At, Goto, CallSync, RestOfThread, flags,
            modes, published, thread, mail, guest, core0Vars
<1>1. CASE Edge  BY <1>1 DEF Edge
<1>2. CASE HiTest  BY <1>2 DEF HiTest
<1>3. CASE RefreshTbe  BY <1>3 DEF RefreshTbe
<1>4. CASE RefreshCts
  <2>1. cts' \in BOOLEAN
    BY <1>4 DEF RefreshCts
  <2>2. \/ pc = "hi.cts" /\ pc' = "hi.stage"
        \/ pc = "sync.cts" /\ pc' = "sync"
    BY <1>4 DEF RefreshCts
  <2>3. UNCHANGED <<tx, rx, tbe, rbf, atx, arx, modes, rts, txPending, dirty, hostCts,
                    published, cachedIrq, data, RestOfThread, ret, sr, entry>>
    BY <1>4 DEF RefreshCts
  <2>4. {tbe, rbf, txIrq, rxIrq, atx, arx, cts, rts, loopClose, loopQueue, txPending,
         dirty, hostCts, cachedIrq, qRising}' \subseteq BOOLEAN
    BY <2>1, <2>3
  <2>5. CASE pc = "hi.cts" /\ pc' = "hi.stage"
    BY <2>3, <2>4, <2>5
  <2>6. CASE pc = "sync.cts" /\ pc' = "sync"
    BY <2>3, <2>4, <2>6
  <2> QED  BY <2>2, <2>5, <2>6
<1>5. CASE HiStage
  <2>1. (pc' = "hi.full" /\ rx # <<>>) \/ pc' = "hi.arx"
    BY <1>5 DEF HiStage
  <2> QED  BY <1>5, <2>1 DEF HiStage
<1>6. CASE HiFull  BY <1>6 DEF HiFull
<1>7. CASE StageByte
  <2>1. rx # <<>> /\ rx \in Seq(Nat)
    BY <1>7 DEF StageByte
  <2>2. Head(rx) \in Nat /\ Tail(rx) \in Seq(Nat) /\ Len(Tail(rx)) = Len(rx) - 1
    BY <2>1, HeadTailProperties
  <2>3. Len(rx) \in Nat
    BY <2>1
  <2> QED  BY <1>7, <2>2, <2>3, AciaAssumption DEF StageByte
<1>8. CASE HiReceiveIrq  BY <1>8 DEF HiReceiveIrq
<1>9. CASE HiTransmitIrq  BY <1>9 DEF HiTransmitIrq
<1>10. CASE HiReturn  BY <1>10 DEF HiReturn
<1>11. CASE SyncBuild
  <2>1. sr' \in StatusByte
    BY <1>11, DeriveType DEF SyncBuild
  <2> QED  BY <1>11, <2>1 DEF SyncBuild
<1>12. CASE SyncCompare  BY <1>12 DEF SyncCompare
<1>13. CASE SyncPublish  BY <1>13 DEF SyncPublish
<1>14. CASE Drain
  <2>1. CASE ring = <<>>
    BY <1>14, <2>1 DEF Drain
  <2>2. CASE ring # <<>>
    <3>1. Head(ring) \in Writes /\ Tail(ring) \in Seq(Writes)
      BY <2>2, HeadTailProperties
    <3>2. Head(ring).kind \in {"data", "control"}
      BY <3>1, WriteEntry
    <3> QED  BY <1>14, <2>2, <3>1, <3>2 DEF Drain
  <2> QED  BY <2>1, <2>2
<1>15. CASE GuestControl
  <2>1. entry \in Writes
    BY <1>15 DEF GuestControl, NoAccess
  <2>2. entry.word \in ControlWord
    BY <1>15, <2>1, WriteEntry DEF GuestControl
  <2>3. entry.word.rx \in BOOLEAN
    BY <2>2 DEF ControlWord
  <2> QED  BY <1>15, <2>3 DEF GuestControl
<1>16. CASE ResetFields
  <2>1. ConsoleNone \in StatusByte
    BY DEF StatusByte, ConsoleNone
  <2>2. {status, cachedStatus, sr, seen}' \subseteq StatusByte
    BY <1>16, <2>1 DEF ResetFields
  <2>3. {tbe, rbf, txIrq, rxIrq, atx, arx, cts, rts, loopClose, loopQueue, txPending,
         dirty, hostCts, cachedIrq, qRising}' \subseteq BOOLEAN
    BY <1>16 DEF ResetFields
  <2> QED  BY <1>16, <2>2, <2>3 DEF ResetFields
<1>17. CASE ResetQueues
  BY <1>17, AciaAssumption DEF ResetQueues
<1>18. CASE ResetStatusReg
  BY <1>18 DEF ResetStatusReg, StatusByte, ResetStatus, ConsoleNone
<1>19. CASE ResetCached
  BY <1>19 DEF ResetCached, StatusByte, ResetStatus, ConsoleNone
<1>20. CASE TransmitAck  BY <1>20 DEF TransmitAck
<1>21. CASE TransmitPut
  <2>1. entry.byte \in Nat
    BY <1>21, WriteEntry DEF TransmitPut, NoAccess
  <2>0. tx \in Seq(Nat) /\ rx \in Seq(Nat)
    OBVIOUS
  <2>3. /\ tx' \in Seq(Nat) /\ Len(tx') <= QueueMax
        /\ rx' \in Seq(Nat) /\ Len(rx') <= QueueMax
    <3>1. \/ tx' = tx /\ rx' = rx
          \/ tx' = tx /\ rx' = Append(rx, entry.byte) /\ Len(rx) < QueueMax
          \/ rx' = rx /\ tx' = Append(tx, entry.byte) /\ Len(tx) < QueueMax
      BY <1>21 DEF TransmitPut
    <3>2. Len(tx) <= QueueMax /\ Len(rx) <= QueueMax
      OBVIOUS
    <3> QED  BY ONLY <2>0, <2>1, <3>1, <3>2, PutKeepsCapacity
  <2>4. pc' = "sync.tbe" /\ ret' = "ring" /\ dirty' = TRUE
    BY <1>21 DEF TransmitPut
  <2> QED  BY <1>21, <2>3, <2>4 DEF TransmitPut
<1>22. CASE TransmitClose
  <2>1. entry.byte \in Nat
    BY <1>22, WriteEntry DEF TransmitClose, NoAccess
  <2> QED  BY <1>22, <2>1 DEF TransmitClose
<1>23. CASE TransmitCloseIrq  BY <1>23 DEF TransmitCloseIrq
<1>24. CASE Reads  BY <1>24 DEF Reads
<1>25. CASE ReceiveDrop  BY <1>25 DEF ReceiveDrop
<1>26. CASE ReceiveStage  BY <1>26 DEF ReceiveStage
<1>27. CASE ReceiveEnd  BY <1>27 DEF ReceiveEnd
<1>28. CASE ReceiveReturn  BY <1>28 DEF ReceiveReturn
<1> QED
  BY <1>1, <1>2, <1>3, <1>4, <1>5, <1>6, <1>7, <1>8, <1>9, <1>10, <1>11, <1>12, <1>13,
     <1>14, <1>15, <1>16, <1>17, <1>18, <1>19, <1>20, <1>21, <1>22, <1>23, <1>24, <1>25,
     <1>26, <1>27, <1>28 DEF Thread

LEMMA TypeIsr == TypeInv /\ (Isr \/ QEdge) => TypeInv'
<1> SUFFICES ASSUME TypeInv, Isr \/ QEdge PROVE TypeInv'
  OBVIOUS
<1> USE DEF TypeInv, TypeOK, Threads, SyncPcs, flags, modes, published, thread, mail,
            guest, core0Vars, IsrLeaves
<1>1. CASE RxReadIsr
  <2>1. Derive(FALSE, tbe, cts, txPending, atx, FALSE) \in StatusByte
    BY DeriveType
  <2>2. {status, cachedStatus}' \subseteq StatusByte
    BY <1>1, <2>1 DEF RxReadIsr, IsrSync
  <2>3. {rbf, arx, dirty}' \subseteq BOOLEAN /\ access' = NoAccess /\ rxReads' = rxReads + 1
    BY <1>1 DEF RxReadIsr
  <2>4. UNCHANGED <<IsrLeaves, rts, txPending, ring, lastWord>>
    BY <1>1 DEF RxReadIsr
  <2> QED  BY <2>2, <2>3, <2>4
<1>2. CASE TxWriteIsr
  <2>1. Derive(rbf, tbe, cts, TRUE, atx, arx) \in StatusByte
    BY DeriveType
  <2>2. access \in Writes
    BY <1>2 DEF TxWriteIsr, NoAccess, DataRead
  <2>3. Append(ring, access) \in Seq(Writes)
    BY <2>2, AppendProperties
  <2>4. {status, cachedStatus}' \subseteq StatusByte
    BY <1>2, <2>1 DEF TxWriteIsr, IsrSync
  <2>5. /\ ring' \in Seq(Writes) /\ {txPending, dirty}' \subseteq BOOLEAN
        /\ access' = NoAccess
    BY <1>2, <2>3 DEF TxWriteIsr
  <2>6. UNCHANGED <<IsrLeaves, rbf, arx, rts, rxReads, lastWord>>
    BY <1>2 DEF TxWriteIsr
  <2> QED  BY <2>4, <2>5, <2>6
<1>3. CASE ControlIsr
  <2>1. access \in Writes
    <3>1. access.kind = "control"
      BY <1>3 DEF ControlIsr
    <3>2. access # NoAccess /\ access # DataRead
      BY <3>1 DEF NoAccess, DataRead
    <3> QED  BY <3>2
  <2>2. Append(ring, access) \in Seq(Writes) /\ access.word \in ControlWord
    BY <1>3, <2>1, AppendProperties, WriteEntry DEF ControlIsr
  <2>3. rts' \in BOOLEAN
    <3>1. CASE access.word.divide = "reset"
      BY <1>3, <3>1 DEF ControlIsr
    <3>2. CASE access.word.divide # "reset"
      BY <1>3, <3>2 DEF ControlIsr
    <3> QED  BY <3>1, <3>2
  <2>4. /\ ring' \in Seq(Writes) /\ dirty' \in BOOLEAN /\ access' = NoAccess
        /\ lastWord' \in ControlWord
    BY <1>3, <2>2 DEF ControlIsr
  <2>5. UNCHANGED <<IsrLeaves, rbf, arx, txPending, published, rxReads>>
    BY <1>3 DEF ControlIsr
  <2> QED  BY <2>3, <2>4, <2>5
<1>4. CASE QEdge  BY <1>4 DEF QEdge
<1> QED  BY <1>1, <1>2, <1>3, <1>4 DEF Isr

LEMMA TypeCore0 == TypeInv /\ Core0 => TypeInv'
<1> SUFFICES ASSUME TypeInv, Core0 PROVE TypeInv'
  OBVIOUS
<1> USE DEF TypeInv, TypeOK, Threads, SyncPcs, flags, modes, published, thread, mail,
            guest, Core0Leaves
<1>1. CASE PumpReads  BY <1>1 DEF PumpReads
<1>2. CASE HostTransmit
  <2>1. sent + 1 \in Nat
    OBVIOUS
  <2>2. rx \in Seq(Nat)
    OBVIOUS
  <2>3. rx' = Append(rx, sent + 1) /\ Len(rx) < QueueMax
    BY <1>2 DEF HostTransmit
  <2>4. rx' \in Seq(Nat) /\ rx' # <<>> /\ Len(rx') <= QueueMax
    BY ONLY <2>1, <2>2, <2>3, PutKeepsCapacity
  <2> QED  BY <1>2, <2>1, <2>4 DEF HostTransmit
<1>3. CASE HostTransmitDirty  BY <1>3 DEF HostTransmitDirty
<1>4. CASE BatchEnds  BY <1>4 DEF BatchEnds
<1>5. CASE HostReceive
  <2>1. /\ Head(tx) \in Nat /\ Tail(tx) \in Seq(Nat) /\ Len(Tail(tx)) = Len(tx) - 1
    BY <1>5, HeadTailProperties DEF HostReceive
  <2>2. Len(tx) \in Nat /\ Append(hostLog, Head(tx)) \in Seq(Nat)
    BY <2>1, AppendProperties
  <2> QED  BY <1>5, <2>1, <2>2, AciaAssumption DEF HostReceive
<1>6. CASE SetHostCts  BY <1>6 DEF SetHostCts
<1>7. CASE SetHostCtsDirty  BY <1>7 DEF SetHostCtsDirty
<1> QED  BY <1>1, <1>2, <1>3, <1>4, <1>5, <1>6, <1>7 DEF Core0

LEMMA TypeGuest == TypeInv /\ Guest => TypeInv'
<1> SUFFICES ASSUME TypeInv, Guest PROVE TypeInv'
  OBVIOUS
<1> USE DEF TypeInv, TypeOK, Threads, SyncPcs, flags, modes, published, thread, mail,
            core0Vars, GuestLeaves
<1>1. CASE ReadStatus  BY <1>1 DEF ReadStatus
<1>2. CASE ReadData
  <2>1. NoStatus \in StatusByte
    BY DEF NoStatus, ConsoleNone, StatusByte
  <2>2. Append(guestLog, data) \in Seq(Nat)
    BY AppendProperties
  <2> QED  BY <1>2, <2>1, <2>2 DEF ReadData
<1>3. CASE WriteData
  <2>1. NoStatus \in StatusByte
    BY DEF NoStatus, ConsoleNone, StatusByte
  <2>2. DataWrite(written + 1) \in Writes
    BY DEF DataWrite, Writes
  <2> QED  BY <1>3, <2>1, <2>2 DEF WriteData
<1>4. ASSUME NEW c \in Controls, WriteControl(c) PROVE TypeInv'
  <2>1. ControlWrite(c) \in Writes
    BY AciaAssumption DEF ControlWrite, Writes
  <2> QED  BY <1>4, <2>1 DEF WriteControl
<1> QED  BY <1>1, <1>2, <1>3, <1>4 DEF Guest

LEMMA TypeStep == TypeInv /\ [Next]_vars => TypeInv'
<1> SUFFICES ASSUME TypeInv, [Next]_vars PROVE TypeInv'
  OBVIOUS
<1>1. CASE UNCHANGED vars
  BY <1>1 DEF vars, flags, modes, published, thread, mail, guest, core0Vars, TypeInv,
              TypeOK, SyncPcs
<1> QED  BY <1>1, TypeThread, TypeIsr, TypeCore0, TypeGuest DEF Next

-----------------------------------------------------------------------------
(* No lost wakeup.  While irq_dirty is clear, each statement of             *)
(* has_interrupt() leaves a fact that holds until the flag is set again:    *)
(* whoever breaks it sets the flag, at once (a handler) or in its next step *)
(* (Core 0, which is then at "put" or "cts").  Sets of statements that have *)
(* a part of the pass behind them:                                         *)

Rest == {"top", "hi.test", "ring", "reads"}
SyncOf(r) == pc \in SyncPcs /\ ret = r
Judged == pc \in Rest \cup {"hi.ret"} \/ SyncOf("hi.ret")
Weighed == Judged \/ pc = "hi.atx"
Staged == Weighed \/ pc = "hi.arx"
Measured == Staged \/ pc \in {"hi.stage", "hi.full", "hi.data"}

(* Statements that only a store of irq_dirty = true leads to.               *)
Flagged ==
    \/ pc \in {"sync.tbe", "sync.cts", "rs.queues", "rs.status", "rs.cached", "gr.ret"}
    \/ pc \in SyncPcs /\ ret # "hi.ret"

CtsFact ==
    /\ Len(tx) > CtsThreshold => cts
    /\ core0 # "cts" => (hostCts => cts)
StageFact == core0 # "put" => rx = <<>> \/ rbf \/ rts
ArxFact == arx = (rxIrq /\ rbf)
AtxFact == atx => txIrq /\ ~txPending /\ ~cts

WakeInv ==
    /\ Flagged => dirty
    /\ ~dirty =>
        /\ Measured => CtsFact
        /\ pc = "hi.data" => rbf
        /\ Staged => StageFact
        /\ Weighed => ArxFact
        /\ Judged => AtxFact
        /\ pc \in Rest => cachedIrq = (atx \/ arx)

LEMMA WakeInit == Init => WakeInv
BY DEF Init, WakeInv, Flagged, SyncPcs

LEMMA WakeThread == TypeInv /\ WakeInv /\ Thread => WakeInv'
<1> SUFFICES ASSUME TypeInv, WakeInv, Thread PROVE WakeInv'
  OBVIOUS
<1> USE DEF WakeInv, Flagged, Measured, Staged, Weighed, Judged, SyncOf, SyncPcs, Rest,
            CtsFact, StageFact, ArxFact, AtxFact, At, Goto,
            CallSync, RestOfThread, flags, modes, mail, core0Vars
<1>t. {tbe, rbf, txIrq, rxIrq, atx, arx, cts, rts, txPending, dirty, hostCts, cachedIrq}
        \subseteq BOOLEAN
  BY DEF TypeInv, TypeOK
<1>1. CASE Edge  BY <1>1, <1>t DEF Edge
<1>2. CASE HiTest  BY <1>2, <1>t DEF HiTest
<1>3. CASE RefreshTbe  BY <1>3, <1>t DEF RefreshTbe
<1>4. CASE RefreshCts  BY <1>4, <1>t DEF RefreshCts
<1>5. CASE HiStage  BY <1>5, <1>t DEF HiStage
<1>6. CASE HiFull  BY <1>6, <1>t DEF HiFull
<1>7. CASE StageByte  BY <1>7, <1>t DEF StageByte
<1>8. CASE HiReceiveIrq  BY <1>8, <1>t DEF HiReceiveIrq
<1>9. CASE HiTransmitIrq  BY <1>9, <1>t DEF HiTransmitIrq
<1>10. CASE HiReturn  BY <1>10, <1>t DEF HiReturn
<1>11. CASE SyncBuild  BY <1>11, <1>t DEF SyncBuild
<1>12. CASE SyncCompare  BY <1>12, <1>t DEF SyncCompare
<1>13. CASE SyncPublish  BY <1>13, <1>t DEF SyncPublish
<1>14. CASE Drain  BY <1>14, <1>t DEF Drain
<1>15. CASE GuestControl  BY <1>15, <1>t DEF GuestControl
<1>16. CASE ResetFields  BY <1>16, <1>t DEF ResetFields
<1>17. CASE ResetQueues  BY <1>17, <1>t DEF ResetQueues
<1>18. CASE ResetStatusReg  BY <1>18, <1>t DEF ResetStatusReg
<1>19. CASE ResetCached  BY <1>19, <1>t DEF ResetCached
<1>20. CASE TransmitAck  BY <1>20, <1>t DEF TransmitAck
<1>21. CASE TransmitPut  BY <1>21, <1>t DEF TransmitPut
<1>22. CASE TransmitClose  BY <1>22, <1>t DEF TransmitClose
<1>23. CASE TransmitCloseIrq  BY <1>23, <1>t DEF TransmitCloseIrq
<1>24. CASE Reads  BY <1>24, <1>t DEF Reads
<1>25. CASE ReceiveDrop  BY <1>25, <1>t DEF ReceiveDrop
<1>26. CASE ReceiveStage  BY <1>26, <1>t DEF ReceiveStage
<1>27. CASE ReceiveEnd  BY <1>27, <1>t DEF ReceiveEnd
<1>28. CASE ReceiveReturn  BY <1>28, <1>t DEF ReceiveReturn
<1> QED
  BY <1>1, <1>2, <1>3, <1>4, <1>5, <1>6, <1>7, <1>8, <1>9, <1>10, <1>11, <1>12, <1>13,
     <1>14, <1>15, <1>16, <1>17, <1>18, <1>19, <1>20, <1>21, <1>22, <1>23, <1>24, <1>25,
     <1>26, <1>27, <1>28 DEF Thread

LEMMA WakeIsr == TypeInv /\ WakeInv /\ (Isr \/ QEdge) => WakeInv'
<1> SUFFICES ASSUME TypeInv, WakeInv, (Isr \/ QEdge) PROVE WakeInv'
  OBVIOUS
<1> USE DEF WakeInv, Flagged, Measured, Staged, Weighed, Judged, SyncOf, SyncPcs, Rest,
            CtsFact, StageFact, ArxFact, AtxFact, IsrLeaves,
            flags, modes, thread, core0Vars
<1>t. {tbe, rbf, txIrq, rxIrq, atx, arx, cts, rts, txPending, dirty, hostCts, cachedIrq}
        \subseteq BOOLEAN
  BY DEF TypeInv, TypeOK
<1>1. CASE RxReadIsr  BY <1>1, <1>t DEF RxReadIsr
<1>2. CASE TxWriteIsr  BY <1>2, <1>t DEF TxWriteIsr
<1>3. CASE ControlIsr  BY <1>3, <1>t DEF ControlIsr
<1>4. CASE QEdge  BY <1>4, <1>t DEF QEdge
<1> QED
  BY <1>1, <1>2, <1>3, <1>4 DEF Isr

LEMMA WakeCore0 == TypeInv /\ WakeInv /\ Core0 => WakeInv'
<1> SUFFICES ASSUME TypeInv, WakeInv, Core0 PROVE WakeInv'
  OBVIOUS
<1> USE DEF WakeInv, Flagged, Measured, Staged, Weighed, Judged, SyncOf, SyncPcs, Rest,
            CtsFact, StageFact, ArxFact, AtxFact, Core0Leaves,
            flags, modes, thread
<1>t. {tbe, rbf, txIrq, rxIrq, atx, arx, cts, rts, txPending, dirty, hostCts, cachedIrq}
        \subseteq BOOLEAN
  BY DEF TypeInv, TypeOK
<1>1. CASE PumpReads  BY <1>1, <1>t DEF PumpReads
<1>2. CASE HostTransmit  BY <1>2, <1>t DEF HostTransmit
<1>3. CASE HostTransmitDirty  BY <1>3, <1>t DEF HostTransmitDirty
<1>4. CASE BatchEnds  BY <1>4, <1>t DEF BatchEnds
<1>5. CASE HostReceive
  <2>1. tx \in Seq(Nat) /\ tx # <<>> /\ tx' = Tail(tx)
    BY <1>5 DEF HostReceive, TypeInv, TypeOK
  <2>2. Len(tx) \in Nat /\ Len(tx') = Len(tx) - 1
    BY <2>1, HeadTailProperties, LenProperties
  <2>3. CtsThreshold \in Nat
    BY AciaAssumption
  <2>4. Len(tx') > CtsThreshold => Len(tx) > CtsThreshold
    BY <2>2, <2>3
  <2> QED  BY <1>5, <1>t, <2>4 DEF HostReceive
<1>6. CASE SetHostCts  BY <1>6, <1>t DEF SetHostCts
<1>7. CASE SetHostCtsDirty  BY <1>7, <1>t DEF SetHostCtsDirty
<1> QED
  BY <1>1, <1>2, <1>3, <1>4, <1>5, <1>6, <1>7 DEF Core0

LEMMA WakeStep == TypeInv /\ WakeInv /\ [Next]_vars => WakeInv'
<1> SUFFICES ASSUME TypeInv, WakeInv, [Next]_vars PROVE WakeInv'
  OBVIOUS
<1> USE DEF WakeInv, Flagged, Measured, Staged, Weighed, Judged, SyncOf, SyncPcs, Rest,
            CtsFact, StageFact, ArxFact, AtxFact, flags, modes, thread, core0Vars
<1>1. CASE Guest
  BY <1>1 DEF Guest, ReadStatus, ReadData, WriteData, WriteControl, GuestLeaves
<1>2. CASE UNCHANGED vars
  BY <1>2 DEF vars
<1> QED  BY <1>1, <1>2, WakeThread, WakeIsr, WakeCore0 DEF Next

(* The types of Acia: the queues never hold more than QueueMax bytes, though  *)
(* put() tests nothing, and sync_status() returns to its caller.            *)
THEOREM TypeCorrect == Spec => []TypeOK
<1>1. TypeInv => TypeOK
  BY DEF TypeInv
<1> QED  BY <1>1, TypeInit, TypeStep, PTL DEF Spec

(* irq_dirty never loses a wakeup, for every queue size, threshold and set   *)
(* of control words, wherever an interrupt lands and whatever Core 0 does:  *)
(* has_interrupt() answers from its cache only when looking would change    *)
(* nothing.                                                                *)
THEOREM NoWakeupIsLost == Spec => []NoLostWakeup
<1>1. WakeInv => NoLostWakeup
  BY DEF WakeInv, NoLostWakeup, Clean, Measured, Staged, Weighed, Judged, Rest,
         CtsFact, StageFact, ArxFact, AtxFact
<1> QED  BY <1>1, TypeInit, TypeStep, WakeInit, WakeStep, PTL DEF Spec

-----------------------------------------------------------------------------
(* What the guest's control words may not do if bytes are to arrive: reset   *)
(* the port, or loop its output back.                                      *)

Plain(w) == w.divide = "run" /\ w.tx # "break"
AllPlain(r) == \A i \in 1 .. Len(r) : r[i].kind = "control" => Plain(r[i].word)
PlainControls == \A c \in Controls : Plain(c)

PlainInv ==
    /\ pc \notin {"rs.queues", "rs.status", "rs.cached", "gt.close", "gt.irq"}
    /\ ~loopClose /\ ~loopQueue
    /\ pc = "gc" => Plain(entry.word)
    /\ access.kind = "control" => Plain(access.word)
    /\ AllPlain(ring)

(* The data writes that wait in the ring: whether there is one, that there   *)
(* is only one, and which byte it is.                                      *)
DataIn(r) == \E i \in 1 .. Len(r) : r[i].kind = "data"
OneData(r) == \A i, j \in 1 .. Len(r) : r[i].kind = "data" /\ r[j].kind = "data" => i = j
DataIs(r, b) == \A i \in 1 .. Len(r) : r[i].kind = "data" => r[i].byte = b

LEMMA RingPut ==
    ASSUME NEW r \in Seq(Writes), NEW e \in Writes
    PROVE  /\ AllPlain(r) /\ (e.kind = "control" => Plain(e.word)) => AllPlain(Append(r, e))
           /\ DataIn(Append(r, e)) <=> DataIn(r) \/ e.kind = "data"
           /\ OneData(r) /\ ~(e.kind = "data" /\ DataIn(r)) => OneData(Append(r, e))
           /\ \A b : DataIs(r, b) /\ (e.kind = "data" => e.byte = b) => DataIs(Append(r, e), b)
<1> DEFINE n == Len(r)
           a == Append(r, e)
<1>1. /\ n \in Nat /\ Len(a) = n + 1 /\ a[n + 1] = e
      /\ \A i \in 1 .. n : a[i] = r[i]
  BY AppendProperties, LenProperties
<1>2. \A i \in 1 .. n + 1 : i \in 1 .. n \/ i = n + 1
  BY <1>1
<1>3. n + 1 \in 1 .. n + 1 /\ \A i \in 1 .. n : i \in 1 .. n + 1
  BY <1>1
<1> HIDE DEF n, a
<1>4. AllPlain(r) /\ (e.kind = "control" => Plain(e.word)) => AllPlain(a)
  BY <1>1, <1>2, Zenon DEF AllPlain, n
<1>5. DataIn(a) <=> DataIn(r) \/ e.kind = "data"
  BY <1>1, <1>2, <1>3, Zenon DEF DataIn, n
<1>6. OneData(r) /\ ~(e.kind = "data" /\ DataIn(r)) => OneData(a)
  BY <1>1, <1>2, Zenon DEF DataIn, OneData, n
<1>7. \A b : DataIs(r, b) /\ (e.kind = "data" => e.byte = b) => DataIs(a, b)
  BY <1>1, <1>2, Zenon DEF DataIs, n
<1> QED
  BY <1>4, <1>5, <1>6, <1>7, Zenon DEF a

LEMMA RingTake ==
    ASSUME NEW r \in Seq(Writes), r # <<>>
    PROVE  /\ AllPlain(r) =>
                AllPlain(Tail(r)) /\ (Head(r).kind = "control" => Plain(Head(r).word))
           /\ DataIn(r) <=> Head(r).kind = "data" \/ DataIn(Tail(r))
           /\ OneData(r) => OneData(Tail(r)) /\ ~(Head(r).kind = "data" /\ DataIn(Tail(r)))
           /\ \A b : DataIs(r, b) =>
                DataIs(Tail(r), b) /\ (Head(r).kind = "data" => Head(r).byte = b)
<1> DEFINE n == Len(r)
           h == Head(r)
           t == Tail(r)
<1>1. /\ n \in Nat \ {0} /\ Len(t) = n - 1 /\ h = r[1]
      /\ \A i \in 1 .. n - 1 : t[i] = r[i + 1]
  <2>1. n \in Nat \ {0} /\ Len(t) = n - 1 /\ h = r[1]
    BY HeadTailProperties, EmptySeq
  <2>2. ASSUME NEW i \in 1 .. n - 1 PROVE t[i] = r[i + 1]
    BY <2>1
  <2> QED
    BY <2>1, <2>2
<1>2. /\ 1 \in 1 .. n
      /\ \A i \in 1 .. n - 1 : i + 1 \in 1 .. n /\ i + 1 # 1
      /\ \A i \in 1 .. n : i = 1 \/ (i - 1 \in 1 .. n - 1 /\ (i - 1) + 1 = i)
      /\ \A i, j \in 1 .. n - 1 : i + 1 = j + 1 => i = j
  BY <1>1
<1>3. /\ 1 \in 1 .. Len(r)
      /\ \A i \in 1 .. Len(t) : i + 1 \in 1 .. Len(r) /\ i + 1 # 1 /\ t[i] = r[i + 1]
      /\ \A i \in 1 .. Len(r) : i = 1 \/ (i - 1 \in 1 .. Len(t) /\ t[i - 1] = r[i])
      /\ \A i, j \in 1 .. Len(t) : i + 1 = j + 1 => i = j
  <2> HIDE DEF h, t
  <2>1. 1 .. Len(t) = 1 .. n - 1
    BY <1>1, Zenon
  <2>2. \A i \in 1 .. Len(t) : i + 1 \in 1 .. Len(r) /\ i + 1 # 1 /\ t[i] = r[i + 1]
    BY <1>1, <1>2, <2>1, Zenon
  <2>3. ASSUME NEW i \in 1 .. Len(r), i # 1
        PROVE  i - 1 \in 1 .. Len(t) /\ t[i - 1] = r[i]
    BY <1>1, <1>2, <2>1, <2>3, Zenon
  <2> QED
    BY <1>2, <2>1, <2>2, <2>3, Zenon
<1>0. h = r[1]
  BY <1>1
<1> HIDE DEF n, h, t
<1>4. AllPlain(r) => AllPlain(t) /\ (h.kind = "control" => Plain(h.word))
  BY <1>0, <1>3 DEF AllPlain
<1>5. DataIn(r) <=> h.kind = "data" \/ DataIn(t)
  <2>1. ASSUME NEW i \in 1 .. Len(r), r[i].kind = "data"
        PROVE  h.kind = "data" \/ DataIn(t)
    <3>1. CASE i = 1
      BY <1>0, <2>1, <3>1
    <3>2. CASE i # 1
      <4>1. i - 1 \in 1 .. Len(t) /\ t[i - 1].kind = "data"
        BY <1>3, <2>1, <3>2
      <4> QED
        BY <4>1 DEF DataIn
    <3> QED
      BY <3>1, <3>2
  <2>2. ASSUME NEW i \in 1 .. Len(t), t[i].kind = "data"
        PROVE  DataIn(r)
    <3>1. i + 1 \in 1 .. Len(r) /\ r[i + 1].kind = "data"
      BY <1>3, <2>2
    <3> QED
      BY <3>1 DEF DataIn
  <2>3. h.kind = "data" => DataIn(r)
    BY <1>0, <1>3 DEF DataIn
  <2> QED
    BY <2>1, <2>2, <2>3, Zenon DEF DataIn
<1>6. OneData(r) => OneData(t) /\ ~(h.kind = "data" /\ DataIn(t))
  <2> SUFFICES ASSUME OneData(r)
               PROVE  OneData(t) /\ ~(h.kind = "data" /\ DataIn(t))
    OBVIOUS
  <2>1. ASSUME NEW i \in 1 .. Len(t), NEW j \in 1 .. Len(t),
               t[i].kind = "data", t[j].kind = "data"
        PROVE  i = j
    <3>1. /\ i + 1 \in 1 .. Len(r) /\ r[i + 1].kind = "data"
          /\ j + 1 \in 1 .. Len(r) /\ r[j + 1].kind = "data"
      BY <1>3, <2>1
    <3>2. i + 1 = j + 1
      BY <3>1, Zenon DEF OneData
    <3> QED
      BY <1>3, <3>2
  <2>2. ASSUME NEW i \in 1 .. Len(t), t[i].kind = "data", h.kind = "data"
        PROVE  FALSE
    <3>1. /\ i + 1 \in 1 .. Len(r) /\ r[i + 1].kind = "data" /\ i + 1 # 1
          /\ 1 \in 1 .. Len(r) /\ r[1].kind = "data"
      BY <1>0, <1>3, <2>2
    <3> QED
      BY <3>1, Zenon DEF OneData
  <2> QED
    BY <2>1, <2>2, Zenon DEF OneData, DataIn
<1>7. \A b : DataIs(r, b) => DataIs(t, b) /\ (h.kind = "data" => h.byte = b)
  BY <1>0, <1>3 DEF DataIs
<1> QED
  BY <1>4, <1>5, <1>6, <1>7 DEF h, t

LEMMA PlainInit == Init => PlainInv
<1> SUFFICES ASSUME Init PROVE PlainInv
  OBVIOUS
<1>1. pc = "top" /\ access = NoAccess /\ ring = <<>>
  BY Zenon DEF Init
<1>2. ~loopClose /\ ~loopQueue
  BY Zenon DEF Init
<1> QED
  BY <1>1, <1>2 DEF PlainInv, AllPlain, NoAccess

LEMMA PlainStep ==
    ASSUME PlainControls, TypeInv, PlainInv, [Next]_vars
    PROVE  PlainInv'
<1>p. /\ pc \notin {"rs.queues", "rs.status", "rs.cached", "gt.close", "gt.irq"}
      /\ ~loopClose /\ ~loopQueue
      /\ pc = "gc" => Plain(entry.word)
      /\ access.kind = "control" => Plain(access.word)
      /\ AllPlain(ring)
  BY Zenon DEF PlainInv
<1>1. ASSUME UNCHANGED <<loopClose, loopQueue, entry, access, ring>>, pc' = pc \/
             pc' \notin {"rs.queues", "rs.status", "rs.cached", "gt.close", "gt.irq", "gc"}
      PROVE  PlainInv'
  BY <1>1, <1>p DEF PlainInv
<1>2. CASE Thread
  <2> USE DEF At, Goto, CallSync, RestOfThread, modes, mail, guest
  <2>1. CASE Edge \/ HiTest \/ RefreshTbe \/ RefreshCts \/ HiStage \/ HiFull \/ StageByte
    <3>1. UNCHANGED <<loopClose, loopQueue, entry, access, ring>>
          /\ pc' \in {"hi.test", "ring", "hi.tbe", "hi.cts", "sync.cts", "hi.stage", "sync",
                      "hi.full", "hi.arx", "hi.data", "gr.end"}
      BY <2>1, Zenon DEF Edge, HiTest, RefreshTbe, RefreshCts, HiStage, HiFull, StageByte
    <3> QED
      BY <1>1, <3>1
  <2>2. CASE HiReceiveIrq \/ HiTransmitIrq \/ HiReturn \/ SyncBuild \/ SyncCompare \/ SyncPublish
    <3>1. UNCHANGED <<loopClose, loopQueue, entry, access, ring>>
          /\ pc' \in {"hi.atx", "sync", "ring", "sync.compare", "sync.publish", ret}
      BY <2>2, Zenon DEF HiReceiveIrq, HiTransmitIrq, HiReturn, SyncBuild, SyncCompare, SyncPublish
    <3>2. ret \in {"top", "ring", "hi.ret", "gr.ret"}
      BY Zenon DEF TypeInv, TypeOK
    <3> QED
      BY <1>1, <3>1, <3>2
  <2>3. CASE Drain
    <3>1. UNCHANGED <<loopClose, loopQueue, access>>
      BY <2>3, Zenon DEF Drain
    <3>2. CASE ring = <<>>
      <4>1. pc' = "reads" /\ UNCHANGED <<entry, ring>>
        BY <2>3, <3>2, Zenon DEF Drain
      <4> QED
        BY <1>1, <3>1, <4>1
    <3>3. CASE ring # <<>>
      <4>1. /\ ring' = Tail(ring) /\ entry' = Head(ring) /\ pc' \in {"gt.ack", "gc"}
            /\ pc' = "gc" => ~(Head(ring).kind = "data")
        BY <2>3, <3>3, Zenon DEF Drain
      <4>2. ring \in Seq(Writes)
        BY Zenon DEF TypeInv, TypeOK
      <4>3. Head(ring) \in Writes
        BY <3>3, <4>2, HeadTailProperties
      <4>4. Head(ring).kind \in {"data", "control"}
        BY <4>3, WriteEntry, Zenon
      <4>5. AllPlain(Tail(ring)) /\ (Head(ring).kind = "control" => Plain(Head(ring).word))
        BY <1>p, <3>3, <4>2, RingTake, Zenon
      <4> QED
        BY <1>p, <3>1, <4>1, <4>4, <4>5 DEF PlainInv
    <3> QED
      BY <3>2, <3>3
  <2>4. CASE GuestControl
    <3>1. pc = "gc" /\ pc' = "sync.tbe" /\ UNCHANGED <<access, ring>>
      BY <2>4, Zenon DEF GuestControl
    <3>2. entry.word.divide = "run" /\ entry.word.tx # "break"
      BY <1>p, <3>1, Zenon DEF Plain
    <3>3. /\ loopClose' = (entry.word.tx = "break")
          /\ loopQueue' = (entry.word.tx # "break" /\ entry.word.divide = "div64")
      BY <2>4, Zenon DEF GuestControl
    <3>4. ~loopClose' /\ ~loopQueue'
      <4>1. entry.word.divide # "div64"
        BY <3>2
      <4> QED
        BY <3>2, <3>3, <4>1, Zenon
    <3> QED
      BY <1>p, <3>1, <3>4 DEF PlainInv
  <2>5. CASE ResetFields
    BY <1>p, <2>5 DEF ResetFields, Plain
  <2>6. CASE ResetQueues \/ ResetStatusReg \/ ResetCached \/ TransmitClose \/ TransmitCloseIrq
    BY <1>p, <2>6, Zenon DEF ResetQueues, ResetStatusReg, ResetCached, TransmitClose,
                             TransmitCloseIrq
  <2>7. CASE TransmitAck \/ TransmitPut
    <3>1. UNCHANGED <<loopClose, loopQueue, entry, access, ring>>
          /\ pc' \in {"gt.put", "sync.tbe"}
      BY <1>p, <2>7, Zenon DEF TransmitAck, TransmitPut
    <3> QED
      BY <1>1, <3>1
  <2>8. CASE Reads \/ ReceiveDrop \/ ReceiveStage \/ ReceiveEnd \/ ReceiveReturn
    <3>1. UNCHANGED <<loopClose, loopQueue, entry, access, ring>>
          /\ pc' \in {"top", "gr.drop", "gr.stage", "gr.end", "gr.data", "sync", "reads"}
      BY <2>8, Zenon DEF Reads, ReceiveDrop, ReceiveStage, ReceiveEnd, ReceiveReturn
    <3> QED
      BY <1>1, <3>1
  <2> QED
    BY <1>2, <2>1, <2>2, <2>3, <2>4, <2>5, <2>6, <2>7, <2>8, Zenon DEF Thread
<1>3. CASE Isr
  <2>1. CASE RxReadIsr
    <3>1. UNCHANGED <<loopClose, loopQueue, entry, pc, ring>> /\ access' = NoAccess
      BY <2>1, Zenon DEF RxReadIsr, IsrLeaves, modes, thread
    <3> QED
      BY <1>p, <3>1 DEF PlainInv, NoAccess
  <2>2. CASE TxWriteIsr \/ ControlIsr
    <3>1. /\ UNCHANGED <<loopClose, loopQueue, entry, pc>> /\ access' = NoAccess
          /\ ring' = Append(ring, access) /\ access.kind \in {"data", "control"}
      BY <2>2, Zenon DEF TxWriteIsr, ControlIsr, IsrLeaves, modes, thread
    <3>2. access \in Writes /\ ring \in Seq(Writes)
      <4>1. access \in Writes \cup {NoAccess, DataRead} /\ ring \in Seq(Writes)
        BY Zenon DEF TypeInv, TypeOK
      <4> QED
        BY <3>1, <4>1 DEF NoAccess, DataRead
    <3>3. AllPlain(ring')
      BY <1>p, <3>1, <3>2, RingPut, Zenon
    <3> QED
      BY <1>p, <3>1, <3>3 DEF PlainInv, NoAccess
  <2> QED
    BY <1>3, <2>1, <2>2, Zenon DEF Isr
<1>4. CASE QEdge
  <2>1. UNCHANGED <<loopClose, loopQueue, entry, pc, access, ring>>
    BY <1>4, Zenon DEF QEdge, modes, thread, mail, guest
  <2> QED
    BY <1>1, <2>1
<1>5. CASE Core0
  <2>1. UNCHANGED <<loopClose, loopQueue, entry, pc, access, ring>>
    BY <1>5, Zenon DEF Core0, PumpReads, HostTransmit, HostTransmitDirty, BatchEnds, HostReceive,
                       SetHostCts, SetHostCtsDirty, Core0Leaves, modes, thread, mail, guest
  <2> QED
    BY <1>1, <2>1
<1>6. CASE Guest
  <2>1. UNCHANGED <<loopClose, loopQueue, entry, pc, ring>>
    BY <1>6, Zenon DEF Guest, ReadStatus, ReadData, WriteData, WriteControl, GuestLeaves, modes,
                       thread, mail
  <2>2. access'.kind = "control" => Plain(access'.word)
    <3>1. CASE ReadStatus
      BY <1>p, <3>1 DEF ReadStatus
    <3>2. CASE ReadData
      BY <3>2 DEF ReadData, DataRead
    <3>3. CASE WriteData
      BY <3>3 DEF WriteData, DataWrite
    <3>4. ASSUME NEW c \in Controls, WriteControl(c)
          PROVE  access'.kind = "control" => Plain(access'.word)
      <4>1. access' = [kind |-> "control", word |-> c]
        BY <3>4, Zenon DEF WriteControl, ControlWrite
      <4> QED
        BY <4>1 DEF PlainControls
    <3> QED
      BY <1>6, <3>1, <3>2, <3>3, <3>4, Zenon DEF Guest
  <2> QED
    BY <1>p, <2>1, <2>2 DEF PlainInv
<1>7. CASE UNCHANGED vars
  <2>1. UNCHANGED <<loopClose, loopQueue, entry, pc, access, ring>>
    BY <1>7, Zenon DEF vars, modes, thread, mail, guest
  <2> QED
    BY <1>1, <2>1
<1> QED
  BY <1>2, <1>3, <1>4, <1>5, <1>6, <1>7, Zenon DEF Next

-----------------------------------------------------------------------------
LEMMA RtsStep ==
    ASSUME RtsIsNotStale, [Next]_vars
    PROVE  RtsIsNotStale'
<1>1. ASSUME UNCHANGED <<rts, lastWord>> PROVE RtsIsNotStale'
  BY <1>1 DEF RtsIsNotStale
<1>2. CASE ResetFields
  <2>1. rts' = FALSE
    BY <1>2, Zenon DEF ResetFields
  <2> QED
    BY <2>1, Zenon DEF RtsIsNotStale
<1>3. CASE ControlIsr
  <2>1. /\ lastWord' = access.word
        /\ rts' = IF access.word.divide = "reset" THEN rts ELSE access.word.tx = "rts_off"
    BY <1>3, Zenon DEF ControlIsr
  <2>2. CASE access.word.divide = "reset"
    BY <2>1, <2>2, Zenon DEF RtsIsNotStale
  <2>3. CASE access.word.divide # "reset"
    BY <2>1, <2>3, Zenon DEF RtsIsNotStale
  <2> QED
    BY <2>2, <2>3
<1>4. CASE Thread /\ ~ResetFields
  <2>1. UNCHANGED <<rts, lastWord>>
    BY <1>4, Zenon DEF Thread, Edge, HiTest, RefreshTbe, RefreshCts, HiStage, HiFull, StageByte,
         HiReceiveIrq, HiTransmitIrq, HiReturn, SyncBuild, SyncCompare, SyncPublish, Drain,
         GuestControl, ResetQueues, ResetStatusReg, ResetCached, TransmitAck, TransmitPut,
         TransmitClose, TransmitCloseIrq, Reads, ReceiveDrop, ReceiveStage, ReceiveEnd,
         ReceiveReturn, RestOfThread, guest
  <2> QED
    BY <1>1, <2>1
<1>5. CASE RxReadIsr \/ TxWriteIsr \/ QEdge \/ Core0 \/ Guest \/ UNCHANGED vars
  <2>1. UNCHANGED <<rts, lastWord>>
    BY <1>5, Zenon DEF RxReadIsr, TxWriteIsr, QEdge, Core0, PumpReads, HostTransmit,
         HostTransmitDirty, BatchEnds, HostReceive, SetHostCts, SetHostCtsDirty, Core0Leaves,
         Guest, ReadStatus, ReadData, WriteData, WriteControl, GuestLeaves, vars, guest
  <2> QED
    BY <1>1, <2>1
<1> QED
  BY <1>2, <1>3, <1>4, <1>5, Zenon DEF Next, Isr

(* RTS is never off against the last control word the guest wrote: neither  *)
(* the deferred guest_control() nor a reset brings an older word's RTS back, *)
(* whatever the words, and however late the thread comes to them.           *)
THEOREM RtsIsCurrent == Spec => []RtsIsNotStale
<1>1. Init => RtsIsNotStale
  BY Zenon DEF Init, RtsIsNotStale
<1> QED
  BY <1>1, RtsStep, PTL DEF Spec

-----------------------------------------------------------------------------
(* A byte on its way from the guest to tx: a write whose interrupt is to    *)
(* come, or one that guest_transmit() has not acknowledged yet; and a grant, *)
(* a TDRE that the guest can act on or that sync_status() is about to show. *)
Updating == {"sync.compare", "sync.publish"}
Refreshing == {"sync.tbe", "sync.cts"}
InHand == {"gt.ack", "gt.put"}
Writing == access.kind = "data"
Unacked == DataIn(ring) \/ pc = "gt.ack"
Granted == status.tdre \/ seen.tdre \/ (pc \in Updating /\ sr.tdre)
One(b) == IF b THEN 1 ELSE 0
Moved == Len(hostLog) + Len(tx)

(* One byte at a time: between a write and its acknowledgement TDRE is off   *)
(* wherever the guest might see it on.                                     *)
Pace ==
    /\ pc = "sync.publish" => cachedStatus = sr
    /\ pc # "sync.publish" => cachedStatus = status
    /\ Unacked => txPending
    /\ OneData(ring)
    /\ pc = "gt.ack" => ~DataIn(ring)
    /\ Granted \/ Writing => ~Unacked
    /\ Writing => ~seen.tdre

(* A guest that may write, or has, finds at most the threshold and one byte *)
(* in tx, the byte between the queue and the refresh of CTS included.      *)
Room ==
    /\ ~cts => Len(tx) <= CtsThreshold + One(pc \in Refreshing)
    /\ Granted \/ Unacked \/ Writing => Len(tx) + One(pc = "gt.put") <= CtsThreshold + 1
    /\ pc = "gt.put" => Len(tx) <= CtsThreshold + 1

(* Which byte is where, and how many there are.                            *)
Order ==
    /\ \A i \in 1 .. Len(hostLog) : hostLog[i] = i
    /\ \A i \in 1 .. Len(tx) : tx[i] = Len(hostLog) + i
    /\ pc \in InHand => entry.byte = Moved + 1
    /\ DataIs(ring, Moved + 1 + One(pc = "gt.put"))
    /\ Writing => access.byte = written
    /\ written = Moved + One(pc \in InHand) + One(DataIn(ring)) + One(Writing)

TxInv == Pace /\ Room /\ Order

(* The controls are plain, no interrupt lands between the reading of the    *)
(* fields and the publishing of the byte, and tx has two bytes above the    *)
(* threshold (the code: 1023 and 800).                                     *)
OneWriter ==
    /\ PlainControls
    /\ Updating \subseteq Quiet
    /\ QueueMax >= CtsThreshold + 2

LEMMA Lengths ==
    TypeInv => /\ tx \in Seq(Nat) /\ Len(tx) \in Nat /\ hostLog \in Seq(Nat)
               /\ Len(hostLog) \in Nat /\ written \in Nat /\ CtsThreshold \in Nat
               /\ Len(tx) <= QueueMax /\ QueueMax \in Nat
BY AciaAssumption, LenProperties DEF TypeInv, TypeOK

LEMMA TxInit == Init => TxInv
<1> SUFFICES ASSUME Init PROVE TxInv
  OBVIOUS
<1>1. /\ pc = "top" /\ access = [kind |-> "none"] /\ ring = <<>> /\ tx = <<>> /\ hostLog = <<>>
      /\ written = 0 /\ cachedStatus = status /\ seen = ConsoleNone
  BY Zenon DEF Init, NoAccess, NoStatus
<1>2. ~Writing /\ ~DataIn(ring) /\ OneData(ring) /\ \A b : DataIs(ring, b)
  BY <1>1 DEF Writing, DataIn, OneData, DataIs
<1>3. Len(tx) = 0 /\ Len(hostLog) = 0 /\ CtsThreshold \in Nat
  BY <1>1, AciaAssumption
<1>4. ~seen.tdre
  BY <1>1 DEF ConsoleNone
<1>5. Pace
  BY <1>1, <1>2, <1>4 DEF Pace, Unacked, Granted, Updating
<1>6. Room
  BY <1>1, <1>3 DEF Room, One
<1>7. Order
  BY <1>1, <1>2, <1>3 DEF Order, One, Moved, InHand
<1> QED
  BY <1>5, <1>6, <1>7 DEF TxInv

(* The steps that touch none of it.                                        *)
LEMMA TxAside ==
    ASSUME TypeInv, TxInv,
           UNCHANGED <<tx, cts, status, cachedStatus, sr, seen, ring, access, written,
                       hostLog, txPending, entry>>,
           \/ pc' = pc
           \/ /\ {pc, pc'} \cap (Updating \cup InHand) = {}
              /\ pc \in Refreshing => pc' \in Refreshing
    PROVE  TxInv'
<1>1. Pace'
  BY DEF TxInv, Pace, Unacked, Granted, Writing, Updating, InHand
<1>2. Room'
  <2>1. Unacked' = Unacked /\ Granted' = Granted /\ Writing' = Writing
    BY DEF Unacked, Granted, Writing, Updating, InHand
  <2>2. (pc = "gt.put") <=> (pc' = "gt.put")
    BY DEF InHand
  <2>3. ~cts => Len(tx) <= CtsThreshold + One(pc' \in Refreshing)
    BY Lengths DEF TxInv, Room, One
  <2> QED
    BY <2>1, <2>2, <2>3 DEF TxInv, Room, One
<1>3. Order'
  BY DEF TxInv, Order, Moved, Writing, InHand, One
<1> QED
  BY <1>1, <1>2, <1>3 DEF TxInv

LEMMA TxRefreshCts ==
    ASSUME TypeInv, TxInv, RefreshCts
    PROVE  TxInv'
<1>1. /\ UNCHANGED <<tx, status, cachedStatus, sr, seen, ring, access, written, hostLog,
                     txPending, entry>>
      /\ cts' = (Len(tx) > CtsThreshold \/ hostCts)
      /\ pc \in {"hi.cts", "sync.cts"} /\ pc' \in {"hi.stage", "sync"}
  BY Zenon DEF RefreshCts, Goto, RestOfThread, published, mail, guest, core0Vars
<1>2. ~cts' => Len(tx) <= CtsThreshold
  <2>1. Len(tx) > CtsThreshold \/ Len(tx) <= CtsThreshold
    BY Lengths
  <2> QED
    BY <1>1, <2>1, Zenon
<1>3. Pace'
  BY <1>1 DEF TxInv, Pace, Unacked, Granted, Writing, Updating, InHand
<1>4. Room'
  <2>1. Unacked' = Unacked /\ Granted' = Granted /\ Writing' = Writing
    BY <1>1 DEF Unacked, Granted, Writing, Updating, InHand
  <2>2. pc # "gt.put" /\ pc' # "gt.put" /\ pc' \notin Refreshing
    BY <1>1 DEF Refreshing
  <2> QED
    BY <1>1, <1>2, <2>1, <2>2, Lengths DEF TxInv, Room, One
<1>5. Order'
  BY <1>1 DEF TxInv, Order, Moved, Writing, InHand, One
<1> QED
  BY <1>3, <1>4, <1>5 DEF TxInv

LEMMA TxSyncBuild ==
    ASSUME TypeInv, TxInv, SyncBuild
    PROVE  TxInv'
<1>1. /\ UNCHANGED <<tx, cts, status, cachedStatus, seen, ring, access, written, hostLog,
                     txPending, entry>>
      /\ sr' = Derive(rbf, tbe, cts, txPending, atx, arx)
      /\ pc = "sync" /\ pc' = "sync.compare"
  BY Zenon DEF SyncBuild, At, RestOfThread, flags, published, mail, guest, core0Vars
<1>2. sr'.tdre => ~txPending /\ ~cts
  BY <1>1 DEF Derive
<1>3. Unacked' = Unacked /\ Writing' = Writing /\ pc' \notin Refreshing /\ pc' # "gt.put"
  BY <1>1 DEF Unacked, Writing, Refreshing
<1>4. Granted' => Granted \/ (~txPending /\ ~cts)
  BY <1>1, <1>2 DEF Granted, Updating
<1>5. Pace'
  BY <1>1, <1>3, <1>4 DEF TxInv, Pace
<1>6. Room'
  <2>1. ~cts => Len(tx) <= CtsThreshold
    BY <1>1, Lengths DEF TxInv, Room, One, Refreshing
  <2> QED
    BY <1>1, <1>3, <1>4, <2>1, Lengths DEF TxInv, Room, One
<1>7. Order'
  BY <1>1 DEF TxInv, Order, Moved, Writing, InHand, One
<1> QED
  BY <1>5, <1>6, <1>7 DEF TxInv

LEMMA TxSyncCompare ==
    ASSUME TypeInv, TxInv, SyncCompare
    PROVE  TxInv'
<1>1. /\ UNCHANGED <<tx, cts, status, sr, seen, ring, access, written, hostLog, txPending, entry>>
      /\ cachedStatus' = sr
      /\ pc = "sync.compare" /\ pc' = IF sr # cachedStatus THEN "sync.publish" ELSE ret
  BY Zenon DEF SyncCompare, At, Goto, RestOfThread, flags, published, mail, guest, core0Vars
<1>2. ret \in {"top", "ring", "hi.ret", "gr.ret"}
  BY Zenon DEF TypeInv, TypeOK
<1>3. /\ pc' \in {"top", "ring", "hi.ret", "gr.ret", "sync.publish"}
      /\ pc' # "sync.publish" => cachedStatus' = status'
  BY <1>1, <1>2 DEF TxInv, Pace
<1>4. /\ Unacked' = Unacked /\ Writing' = Writing
      /\ pc' \notin Refreshing \cup InHand /\ pc \notin Refreshing \cup InHand
  BY <1>1, <1>3 DEF Unacked, Writing, Refreshing, InHand
<1>5. Granted' => Granted
  BY <1>1 DEF Granted, Updating
<1>6. Pace'
  BY <1>1, <1>3, <1>4, <1>5 DEF TxInv, Pace, InHand
<1>7. Room'
  BY <1>1, <1>4, <1>5, Lengths DEF TxInv, Room, One, InHand
<1>8. Order'
  BY <1>1, <1>4 DEF TxInv, Order, Moved, InHand, One
<1> QED
  BY <1>6, <1>7, <1>8 DEF TxInv

LEMMA TxSyncPublish ==
    ASSUME TypeInv, TxInv, SyncPublish
    PROVE  TxInv'
<1>1. /\ UNCHANGED <<tx, cts, cachedStatus, sr, seen, ring, access, written, hostLog, txPending,
                     entry>>
      /\ status' = sr /\ pc = "sync.publish" /\ pc' = ret
  BY Zenon DEF SyncPublish, At, Goto, RestOfThread, flags, published, mail, guest, core0Vars
<1>2. ret \in {"top", "ring", "hi.ret", "gr.ret"}
  BY Zenon DEF TypeInv, TypeOK
<1>3. /\ Unacked' = Unacked /\ Writing' = Writing /\ cachedStatus' = status'
      /\ pc' \notin Refreshing \cup InHand /\ pc \notin Refreshing \cup InHand
      /\ pc' # "sync.publish"
  BY <1>1, <1>2 DEF TxInv, Pace, Unacked, Writing, Refreshing, InHand
<1>4. Granted' => Granted
  BY <1>1, <1>2 DEF Granted, Updating
<1>5. Pace'
  BY <1>1, <1>3, <1>4 DEF TxInv, Pace, InHand
<1>6. Room'
  BY <1>1, <1>3, <1>4, Lengths DEF TxInv, Room, One, InHand
<1>7. Order'
  BY <1>1, <1>3 DEF TxInv, Order, Moved, InHand, One
<1> QED
  BY <1>5, <1>6, <1>7 DEF TxInv

(* The thread takes an entry off write_ring: a data write moves from the    *)
(* ring into its hands.                                                    *)
LEMMA TxDrain ==
    ASSUME TypeInv, TxInv, Drain
    PROVE  TxInv'
<1>1. /\ UNCHANGED <<tx, cts, status, cachedStatus, sr, seen, access, written, hostLog, txPending>>
      /\ pc = "ring"
  BY Zenon DEF Drain, At, Goto, flags, published, guest, core0Vars
<1>2. CASE ring = <<>>
  <2>1. UNCHANGED <<ring, entry>> /\ pc' = "reads"
    BY <1>2, Zenon DEF Drain, Goto
  <2> QED
    BY <1>1, <2>1, TxAside DEF Updating, InHand, Refreshing
<1>3. CASE ring # <<>>
  <2>1. /\ ring' = Tail(ring) /\ entry' = Head(ring) /\ sr' = sr
        /\ pc' = IF Head(ring).kind = "data" THEN "gt.ack" ELSE "gc"
    BY <1>3, Zenon DEF Drain
  <2>2. ring \in Seq(Writes)
    BY Zenon DEF TypeInv, TypeOK
  <2>3. /\ DataIn(ring) <=> entry'.kind = "data" \/ DataIn(ring')
        /\ OneData(ring) => OneData(ring') /\ ~(entry'.kind = "data" /\ DataIn(ring'))
        /\ \A b : DataIs(ring, b) =>
                DataIs(ring', b) /\ (entry'.kind = "data" => entry'.byte = b)
    BY <1>3, <2>1, <2>2, RingTake, Zenon
  <2>4. \/ pc' = "gt.ack" /\ entry'.kind = "data"
        \/ pc' = "gc" /\ entry'.kind # "data"
    BY <2>1
  <2>5. Unacked' = Unacked /\ Writing' = Writing
    BY <1>1, <2>3, <2>4 DEF Unacked, Writing
  <2>6. Granted' => Granted
    BY <1>1, <2>4 DEF Granted, Updating
  <2>7. Pace'
    BY <1>1, <2>3, <2>4, <2>5, <2>6 DEF TxInv, Pace
  <2>8. Room'
    BY <1>1, <2>4, <2>5, <2>6, Lengths DEF TxInv, Room, One, Refreshing
  <2>9. Order'
    <3>1. DataIs(ring, Moved + 1)
      BY <1>1, Lengths DEF TxInv, Order, One, Moved
    <3>2. DataIs(ring', Moved + 1) /\ (entry'.kind = "data" => entry'.byte = Moved + 1)
      BY <2>3, <3>1, Zenon
    <3>3. /\ (pc \notin InHand) /\ pc' # "gt.put"
          /\ pc' \in InHand <=> entry'.kind = "data"
          /\ Moved' = Moved /\ Moved \in Nat
      BY <1>1, <2>4, Lengths DEF InHand, Moved
    <3>4. One(pc' \in InHand) + One(DataIn(ring')) = One(DataIn(ring))
      BY <2>3, <3>3 DEF One, TxInv, Pace
    <3>5. DataIs(ring', Moved' + 1 + One(pc' = "gt.put"))
      BY <3>2, <3>3, Lengths DEF One, Moved
    <3>6. written = Moved + One(DataIn(ring)) + One(Writing)
      BY <1>1, <3>3 DEF TxInv, Order, One
    <3>7. written' = Moved' + One(pc' \in InHand) + One(DataIn(ring')) + One(Writing')
      <4>1. {One(DataIn(ring)), One(DataIn(ring')), One(pc' \in InHand), One(Writing)} \subseteq Nat
        BY DEF One
      <4>2. One(Writing') = One(Writing)
        BY <2>5
      <4> QED
        BY <1>1, <3>3, <3>4, <3>6, <4>1, <4>2
    <3> QED
      BY <1>1, <2>4, <3>2, <3>3, <3>5, <3>7, <2>5 DEF TxInv, Order, InHand
  <2> QED
    BY <2>7, <2>8, <2>9 DEF TxInv
<1> QED
  BY <1>2, <1>3

LEMMA TxTransmitAck ==
    ASSUME TypeInv, TxInv, TransmitAck, ~loopClose
    PROVE  TxInv'
<1>1. /\ UNCHANGED <<tx, cts, status, cachedStatus, sr, seen, ring, access, written, hostLog,
                     entry>>
      /\ pc = "gt.ack" /\ pc' = "gt.put"
  BY Zenon DEF TransmitAck, At, Goto, RestOfThread, flags, published, mail, guest, core0Vars
<1>2. ~DataIn(ring) /\ ~Granted /\ ~Writing
  BY <1>1 DEF TxInv, Pace, Unacked
<1>3. ~DataIn(ring)' /\ ~Granted' /\ ~Writing' /\ ~Unacked'
  BY <1>1, <1>2 DEF Granted, Writing, Unacked, Updating
<1>4. Pace'
  BY <1>1, <1>2, <1>3 DEF TxInv, Pace
<1>5. Room'
  <2>1. Len(tx) <= CtsThreshold + 1
    BY <1>1, Lengths DEF TxInv, Room, Unacked, One
  <2>2. ~cts => Len(tx) <= CtsThreshold
    BY <1>1, Lengths DEF TxInv, Room, Refreshing, One
  <2> QED
    BY <1>1, <1>3, <2>1, <2>2, Lengths DEF Room, Refreshing, One
<1>6. Order'
  <2>1. DataIs(ring', Moved' + 1 + One(pc' = "gt.put"))
    BY <1>3, Zenon DEF DataIs, DataIn
  <2>2. /\ \A i \in 1 .. Len(hostLog) : hostLog[i] = i
        /\ \A i \in 1 .. Len(tx) : tx[i] = Len(hostLog) + i
        /\ entry.byte = Moved + 1
        /\ written = Moved + 1 + 0 + 0
    BY <1>1, <1>2 DEF TxInv, Order, InHand, One
  <2>3. written' = Moved' + One(pc' \in InHand) + One(DataIn(ring')) + One(Writing')
    BY <1>1, <1>3, <2>2 DEF InHand, One, Moved
  <2> QED
    BY <1>1, <1>3, <2>1, <2>2, <2>3 DEF Order, Moved
<1> QED
  BY <1>4, <1>5, <1>6 DEF TxInv

(* guest_transmit() finds room: the byte is not dropped.                    *)
LEMMA TxTransmitPut ==
    ASSUME TypeInv, TxInv, TransmitPut, ~loopQueue, QueueMax >= CtsThreshold + 2
    PROVE  TxInv'
<1>1. /\ UNCHANGED <<cts, status, cachedStatus, sr, seen, ring, access, written, hostLog,
                     txPending, entry>>
      /\ tx' = IF Len(tx) < QueueMax THEN Append(tx, entry.byte) ELSE tx
      /\ pc = "gt.put" /\ pc' = "sync.tbe"
  BY Zenon DEF TransmitPut, At, CallSync, RestOfThread, flags, published, mail, guest, core0Vars
<1>2. Len(tx) <= CtsThreshold + 1
  BY <1>1, Lengths DEF TxInv, Room
<1>3. tx' = Append(tx, entry.byte) /\ Len(tx) < QueueMax
  BY <1>1, <1>2, Lengths
<1>4. entry.byte = Moved + 1
  BY <1>1 DEF TxInv, Order, InHand
<1>5. /\ Len(tx') = Len(tx) + 1 /\ tx'[Len(tx) + 1] = Moved + 1
      /\ \A i \in 1 .. Len(tx) : tx'[i] = tx[i]
  <2>1. entry.byte \in Nat
    BY <1>4, Lengths DEF Moved
  <2> QED
    BY <1>3, <1>4, <2>1, Lengths, AppendProperties
<1>6. Unacked' = Unacked /\ Writing' = Writing /\ Granted' = Granted
  BY <1>1 DEF Unacked, Writing, Granted, Updating
<1>7. Pace'
  BY <1>1, <1>6 DEF TxInv, Pace
<1>8. Room'
  <2>1. ~cts => Len(tx) <= CtsThreshold
    BY <1>1, Lengths DEF TxInv, Room, Refreshing, One
  <2>2. Granted \/ Unacked \/ Writing => Len(tx) + 1 <= CtsThreshold + 1
    BY <1>1, Lengths DEF TxInv, Room, One
  <2> QED
    BY <1>1, <1>5, <1>6, <2>1, <2>2, Lengths DEF Room, Refreshing, One
<1>9. Order'
  <2>1. /\ \A i \in 1 .. Len(hostLog) : hostLog[i] = i
        /\ \A i \in 1 .. Len(tx) : tx[i] = Len(hostLog) + i
        /\ DataIs(ring, Moved + 1 + 1)
        /\ Writing => access.byte = written
        /\ written = Moved + 1 + One(DataIn(ring)) + One(Writing)
    BY <1>1 DEF TxInv, Order, InHand, One
  <2>2. Moved' = Moved + 1 /\ Moved \in Nat
    BY <1>1, <1>5, Lengths DEF Moved
  <2>3. ASSUME NEW i \in 1 .. Len(tx') PROVE tx'[i] = Len(hostLog) + i
    <3>1. i \in 1 .. Len(tx) \/ i = Len(tx) + 1
      BY <1>5, Lengths
    <3>2. CASE i \in 1 .. Len(tx)
      BY <1>5, <2>1, <3>2
    <3>3. CASE i = Len(tx) + 1
      BY <1>5, <3>3, Lengths DEF Moved
    <3> QED
      BY <3>1, <3>2, <3>3
  <2>4. One(DataIn(ring)) \in Nat /\ One(Writing) \in Nat /\ One(Writing') = One(Writing)
    BY <1>6 DEF One
  <2>5. pc' \notin InHand /\ One(pc' = "gt.put") = 0 /\ One(pc' \in InHand) = 0
    BY <1>1 DEF InHand, One
  <2>6. DataIs(ring', Moved' + 1 + One(pc' = "gt.put"))
    <3>1. Moved' + 1 + One(pc' = "gt.put") = Moved + 1 + 1
      BY <2>2, <2>5
    <3> QED
      BY <1>1, <2>1, <3>1
  <2>7. written' = Moved' + One(pc' \in InHand) + One(DataIn(ring')) + One(Writing')
    BY <1>1, <2>1, <2>2, <2>4, <2>5
  <2> QED
    BY <1>1, <1>6, <2>1, <2>3, <2>5, <2>6, <2>7 DEF Order
<1> QED
  BY <1>7, <1>8, <1>9 DEF TxInv

(* Core 0 takes a byte from tx: the host has it next.                       *)
LEMMA TxHostReceive ==
    ASSUME TypeInv, TxInv, HostReceive
    PROVE  TxInv'
<1>1. /\ UNCHANGED <<cts, status, cachedStatus, sr, seen, ring, access, written, txPending,
                     entry, pc>>
      /\ tx # <<>> /\ tx' = Tail(tx) /\ hostLog' = Append(hostLog, Head(tx))
  BY Zenon DEF HostReceive, Core0Leaves, flags, published, thread, mail, guest
<1>2. /\ Len(tx) > 0 /\ Len(tx') = Len(tx) - 1 /\ Head(tx) = tx[1] /\ Head(tx) \in Nat
      /\ \A i \in 1 .. Len(tx) - 1 : tx'[i] = tx[i + 1]
  BY <1>1, Lengths, HeadTailProperties
<1>3. /\ Len(hostLog') = Len(hostLog) + 1 /\ hostLog'[Len(hostLog) + 1] = tx[1]
      /\ \A i \in 1 .. Len(hostLog) : hostLog'[i] = hostLog[i]
  BY <1>1, <1>2, Lengths, AppendProperties
<1>4. Unacked' = Unacked /\ Writing' = Writing /\ Granted' = Granted
  BY <1>1 DEF Unacked, Writing, Granted
<1>5. Pace'
  BY <1>1, <1>4 DEF TxInv, Pace
<1>6. Room'
  BY <1>1, <1>2, <1>4, Lengths DEF TxInv, Room, One
<1>7. Order'
  <2>1. /\ \A i \in 1 .. Len(hostLog) : hostLog[i] = i
        /\ \A i \in 1 .. Len(tx) : tx[i] = Len(hostLog) + i
    BY DEF TxInv, Order
  <2>2. Moved' = Moved
    BY <1>2, <1>3, Lengths DEF Moved
  <2>3. ASSUME NEW i \in 1 .. Len(hostLog') PROVE hostLog'[i] = i
    <3>1. i \in 1 .. Len(hostLog) \/ i = Len(hostLog) + 1
      BY <1>3, Lengths
    <3>2. CASE i \in 1 .. Len(hostLog)
      BY <1>3, <2>1, <3>2
    <3>3. CASE i = Len(hostLog) + 1
      BY <1>2, <1>3, <2>1, <3>3, Lengths
    <3> QED
      BY <3>1, <3>2, <3>3
  <2>4. \A i \in 1 .. Len(tx') : tx'[i] = Len(hostLog') + i
    BY <1>2, <1>3, <2>1, Lengths
  <2> QED
    BY <1>1, <1>4, <2>2, <2>3, <2>4 DEF TxInv, Order
<1> QED
  BY <1>5, <1>6, <1>7 DEF TxInv

(* What sync_status() publishes from an interrupt handler.                  *)
LEMMA IsrPublishes ==
    ASSUME NEW f, NEW p, NEW ar, IsrSync(f, p, ar), cachedStatus = status
    PROVE  /\ status' = cachedStatus'
           /\ status' = Derive(f, tbe, cts, p, atx, ar)
BY DEF IsrSync

LEMMA TxRxReadIsr ==
    ASSUME TypeInv, TxInv, RxReadIsr, Updating \subseteq Quiet
    PROVE  TxInv'
<1>1. /\ UNCHANGED <<tx, cts, sr, seen, ring, written, hostLog, txPending, entry, pc>>
      /\ access = [kind |-> "read"] /\ access' = [kind |-> "none"] /\ pc \notin Updating
      /\ IsrSync(FALSE, txPending, FALSE)
  BY Zenon DEF RxReadIsr, IsrMayRun, IsrLeaves, thread, core0Vars, DataRead, NoAccess
<1>2. cachedStatus = status
  BY <1>1 DEF TxInv, Pace, Updating
<1>3. status' = cachedStatus' /\ status' = Derive(FALSE, tbe, cts, txPending, atx, FALSE)
  BY <1>1, <1>2, IsrPublishes, Zenon
<1>4. status'.tdre => ~cts /\ ~txPending
  <2>1. status'.tdre = Derive(FALSE, tbe, cts, txPending, atx, FALSE).tdre
    BY <1>3
  <2>2. Derive(FALSE, tbe, cts, txPending, atx, FALSE).tdre = (tbe /\ ~cts /\ ~txPending)
    BY Zenon DEF Derive
  <2> QED
    BY <2>1, <2>2, Zenon
<1>5. Unacked' = Unacked /\ ~Writing /\ ~Writing'
  BY <1>1 DEF Unacked, Writing
<1>6. Granted' => Granted \/ (~cts /\ ~txPending)
  BY <1>1, <1>4 DEF Granted
<1>7. Pace'
  BY <1>1, <1>3, <1>5, <1>6 DEF TxInv, Pace, Updating
<1>8. Room'
  <2>1. ~cts => Len(tx) + One(pc = "gt.put") <= CtsThreshold + 1
    BY Lengths DEF TxInv, Room, Refreshing, One
  <2> QED
    BY <1>1, <1>5, <1>6, <2>1, Lengths DEF TxInv, Room, One
<1>9. Order'
  BY <1>1, <1>5 DEF TxInv, Order, Moved, One
<1> QED
  BY <1>7, <1>8, <1>9 DEF TxInv

(* The handler of a data write: TDRE is off before the guest can look.      *)
LEMMA TxTxWriteIsr ==
    ASSUME TypeInv, TxInv, TxWriteIsr, Updating \subseteq Quiet
    PROVE  TxInv'
<1>1. /\ UNCHANGED <<tx, cts, sr, seen, written, hostLog, entry, pc>>
      /\ access.kind = "data" /\ access' = [kind |-> "none"] /\ pc \notin Updating
      /\ ring' = Append(ring, access)
      /\ IsrSync(rbf, TRUE, arx)
  BY Zenon DEF TxWriteIsr, IsrMayRun, IsrLeaves, thread, core0Vars, NoAccess
<1>0. txPending'
  <2>1. txPending' = TRUE
    BY Zenon DEF TxWriteIsr
  <2> QED
    BY <2>1
<1>2. cachedStatus = status /\ ~Unacked /\ ~seen.tdre
  BY <1>1 DEF TxInv, Pace, Updating, Writing
<1>3. status' = cachedStatus' /\ status' = Derive(rbf, tbe, cts, TRUE, atx, arx)
  BY <1>1, <1>2, IsrPublishes, Zenon
<1>4. ~status'.tdre
  <2>1. status'.tdre = Derive(rbf, tbe, cts, TRUE, atx, arx).tdre
    BY <1>3
  <2>2. Derive(rbf, tbe, cts, TRUE, atx, arx).tdre = (tbe /\ ~cts /\ ~TRUE)
    BY Zenon DEF Derive
  <2> QED
    BY <2>1, <2>2, Zenon
<1>5. access \in Writes /\ ring \in Seq(Writes)
  <2>1. access \in Writes \cup {NoAccess, DataRead} /\ ring \in Seq(Writes)
    BY Zenon DEF TypeInv, TypeOK
  <2> QED
    BY <1>1, <2>1 DEF NoAccess, DataRead
<1>6. /\ DataIn(ring') /\ OneData(ring')
      /\ \A b : access.byte = b => DataIs(ring', b)
  <2>1. ~DataIn(ring)
    BY <1>2, Zenon DEF Unacked
  <2>2. \A b : DataIs(ring, b)
    BY <2>1, Zenon DEF DataIs, DataIn
  <2>3. OneData(ring)
    BY Zenon DEF TxInv, Pace
  <2> QED
    BY <1>1, <1>5, <2>1, <2>2, <2>3, RingPut, Zenon
<1>7. ~Writing' /\ ~Granted' /\ Unacked' /\ pc # "gt.ack"
  BY <1>1, <1>2, <1>4, <1>6 DEF Writing, Granted, Unacked
<1>8. Pace'
  BY <1>0, <1>1, <1>3, <1>6, <1>7 DEF Pace, Updating
<1>9. Room'
  BY <1>1, Lengths DEF TxInv, Room, One, Writing
<1>10. Order'
  <2>1. /\ \A i \in 1 .. Len(hostLog) : hostLog[i] = i
        /\ \A i \in 1 .. Len(tx) : tx[i] = Len(hostLog) + i
        /\ pc \in InHand => entry.byte = Moved + 1
    BY DEF TxInv, Order
  <2>2. access.byte = written /\ written = Moved + One(pc \in InHand) + 0 + 1
    BY <1>1, <1>2 DEF TxInv, Order, Writing, Unacked, One
  <2>3. One(pc \in InHand) = One(pc = "gt.put") /\ Moved \in Nat /\ Moved' = Moved
    BY <1>1, <1>7, Lengths DEF One, InHand, Moved
  <2>4. access.byte = Moved' + 1 + One(pc' = "gt.put")
    BY <1>1, <2>2, <2>3 DEF One
  <2>5. DataIs(ring', Moved' + 1 + One(pc' = "gt.put"))
    BY <1>6, <2>4, Zenon
  <2>6. written' = Moved' + One(pc' \in InHand) + One(DataIn(ring')) + One(Writing')
    BY <1>1, <1>6, <1>7, <2>2, <2>3 DEF One
  <2> QED
    BY <1>1, <1>7, <2>1, <2>3, <2>5, <2>6 DEF Order
<1> QED
  BY <1>8, <1>9, <1>10 DEF TxInv

LEMMA TxControlIsr ==
    ASSUME TypeInv, TxInv, ControlIsr
    PROVE  TxInv'
<1>1. /\ UNCHANGED <<tx, cts, status, cachedStatus, sr, seen, written, hostLog, txPending, entry,
                     pc>>
      /\ access.kind = "control" /\ access' = [kind |-> "none"]
      /\ ring' = Append(ring, access)
  BY Zenon DEF ControlIsr, IsrLeaves, thread, core0Vars, published, NoAccess
<1>2. access \in Writes /\ ring \in Seq(Writes)
  <2>1. access \in Writes \cup {NoAccess, DataRead} /\ ring \in Seq(Writes)
    BY Zenon DEF TypeInv, TypeOK
  <2> QED
    BY <1>1, <2>1 DEF NoAccess, DataRead
<1>3. access.kind # "data"
  BY <1>1
<1>4. /\ DataIn(ring') <=> DataIn(ring)
      /\ OneData(ring) => OneData(ring')
      /\ \A b : DataIs(ring, b) => DataIs(ring', b)
  BY <1>1, <1>2, <1>3, RingPut, Zenon
<1>5. Unacked' = Unacked /\ Granted' = Granted /\ ~Writing /\ ~Writing'
  BY <1>1, <1>3, <1>4 DEF Unacked, Granted, Writing
<1>6. Pace'
  BY <1>1, <1>4, <1>5 DEF TxInv, Pace
<1>7. Room'
  BY <1>1, <1>5 DEF TxInv, Room
<1>8. Order'
  <2>1. One(DataIn(ring')) = One(DataIn(ring)) /\ One(Writing') = One(Writing)
    BY <1>4, <1>5 DEF One
  <2>2. Moved' = Moved
    BY <1>1 DEF Moved
  <2> QED
    BY <1>1, <1>4, <1>5, <2>1, <2>2 DEF TxInv, Order
<1> QED
  BY <1>6, <1>7, <1>8 DEF TxInv

LEMMA TxGuest ==
    ASSUME TypeInv, TxInv, Guest
    PROVE  TxInv'
<1>1. /\ UNCHANGED <<tx, cts, status, cachedStatus, sr, ring, hostLog, txPending, entry, pc>>
      /\ access = [kind |-> "none"]
  BY Zenon DEF Guest, ReadStatus, ReadData, WriteData, WriteControl, GuestLeaves, flags, published,
               thread, mail, core0Vars, NoAccess
<1>2. ~Writing /\ Unacked' = Unacked
  BY <1>1 DEF Writing, Unacked
<1>3. ASSUME ~Writing', written' = written, Granted' => Granted
      PROVE  TxInv'
  <2>1. Pace'
    BY <1>1, <1>2, <1>3 DEF TxInv, Pace
  <2>2. Room'
    BY <1>1, <1>2, <1>3 DEF TxInv, Room
  <2>3. Order'
    <3>1. One(Writing') = One(Writing) /\ Moved' = Moved
      BY <1>1, <1>2, <1>3 DEF One, Moved
    <3> QED
      BY <1>1, <1>3, <3>1 DEF TxInv, Order
  <2> QED
    BY <2>1, <2>2, <2>3 DEF TxInv
<1>4. CASE ReadStatus
  <2>1. seen' = status /\ UNCHANGED <<access, written>>
    BY <1>4, Zenon DEF ReadStatus
  <2> QED
    BY <1>1, <1>3, <2>1 DEF Writing, Granted
<1>5. CASE ReadData
  <2>1. seen' = ConsoleNone /\ access' = [kind |-> "read"] /\ written' = written
    BY <1>5, Zenon DEF ReadData, DataRead, NoStatus
  <2>2. ~seen'.tdre
    BY <2>1 DEF ConsoleNone
  <2> QED
    BY <1>1, <1>3, <2>1, <2>2 DEF Writing, Granted
<1>6. CASE WriteData
  <2>1. /\ seen.tdre /\ seen' = ConsoleNone /\ written' = written + 1
        /\ access' = [kind |-> "data", byte |-> written + 1]
    BY <1>6, Zenon DEF WriteData, DataWrite, NoStatus
  <2>2. ~seen'.tdre
    BY <2>1 DEF ConsoleNone
  <2>3. Granted /\ Writing' /\ access'.byte = written'
    BY <2>1 DEF Granted, Writing
  <2>4. Pace'
    BY <1>1, <1>2, <2>2, <2>3 DEF TxInv, Pace
  <2>5. Room'
    BY <1>1, <1>2, <2>3 DEF TxInv, Room
  <2>6. Order'
    <3>1. Moved' = Moved /\ Moved \in Nat
      BY <1>1, Lengths DEF Moved
    <3>2. {One(DataIn(ring)), One(pc \in InHand)} \subseteq Nat /\ One(Writing) = 0 /\ One(Writing') = 1
      BY <1>2, <2>3 DEF One
    <3>3. written = Moved + One(pc \in InHand) + One(DataIn(ring)) + One(Writing)
      BY DEF TxInv, Order
    <3>4. written' = Moved' + One(pc' \in InHand) + One(DataIn(ring')) + One(Writing')
      BY <1>1, <2>1, <3>1, <3>2, <3>3
    <3> QED
      BY <1>1, <2>3, <3>1, <3>4 DEF TxInv, Order
  <2> QED
    BY <2>4, <2>5, <2>6 DEF TxInv
<1>7. CASE \E c \in Controls : WriteControl(c)
  <2>1. PICK c \in Controls : WriteControl(c)
    BY <1>7
  <2>2. access' = [kind |-> "control", word |-> c] /\ UNCHANGED <<seen, written>>
    BY <2>1, Zenon DEF WriteControl, ControlWrite
  <2> QED
    BY <1>1, <1>3, <2>2 DEF Writing, Granted
<1> QED
  BY <1>4, <1>5, <1>6, <1>7, Zenon DEF Guest

LEMMA TxStep ==
    ASSUME OneWriter, TypeInv, PlainInv, TxInv, [Next]_vars
    PROVE  TxInv'
<1>p. /\ pc \notin {"rs.queues", "rs.status", "rs.cached", "gt.close", "gt.irq"}
      /\ ~loopClose /\ ~loopQueue
      /\ pc = "gc" => Plain(entry.word)
      /\ Updating \subseteq Quiet /\ QueueMax >= CtsThreshold + 2
  BY Zenon DEF PlainInv, OneWriter
<1>1. CASE Thread
  <2>1. CASE \/ Edge \/ HiTest \/ RefreshTbe \/ HiStage \/ HiFull \/ StageByte \/ HiReceiveIrq
             \/ HiTransmitIrq \/ HiReturn
    <3>1. UNCHANGED <<tx, cts, status, cachedStatus, sr, seen, ring, access, written, hostLog,
                      txPending, entry>>
      BY <2>1, Zenon DEF Edge, HiTest, RefreshTbe, HiStage, HiFull, StageByte, HiReceiveIrq,
           HiTransmitIrq, HiReturn, At, Goto, CallSync, RestOfThread, flags, published, mail,
           guest, core0Vars
    <3>2. /\ pc \in {"top", "hi.test", "hi.tbe", "sync.tbe", "hi.stage", "hi.full", "hi.data",
                     "gr.data", "hi.arx", "hi.atx", "hi.ret"}
          /\ pc' \in {"hi.test", "ring", "hi.tbe", "hi.cts", "sync.cts", "hi.full", "hi.data",
                      "hi.arx", "gr.end", "hi.atx", "sync"}
          /\ pc = "sync.tbe" => pc' = "sync.cts"
      BY <2>1 DEF Edge, HiTest, RefreshTbe, HiStage, HiFull, StageByte, HiReceiveIrq,
           HiTransmitIrq, HiReturn, At, Goto, CallSync
    <3> QED
      BY <3>1, <3>2, TxAside DEF Updating, InHand, Refreshing
  <2>2. CASE \/ GuestControl \/ Reads \/ ReceiveDrop \/ ReceiveStage \/ ReceiveEnd \/ ReceiveReturn
    <3>1. UNCHANGED <<tx, cts, status, cachedStatus, sr, seen, ring, access, written, hostLog,
                      txPending, entry>>
      BY <2>2, Zenon DEF GuestControl, Reads, ReceiveDrop, ReceiveStage, ReceiveEnd, ReceiveReturn,
           Goto, CallSync, RestOfThread, flags, published, mail, guest, core0Vars
    <3>2. /\ pc \in {"gc", "reads", "gr.drop", "gr.stage", "gr.end", "gr.ret"}
          /\ pc' \in {"sync.tbe", "top", "gr.drop", "gr.stage", "gr.end", "gr.data", "sync",
                      "reads"}
      BY <2>2 DEF GuestControl, Reads, ReceiveDrop, ReceiveStage, ReceiveEnd, ReceiveReturn,
           At, Goto, CallSync
    <3> QED
      BY <3>1, <3>2, TxAside DEF Updating, InHand, Refreshing
  <2>3. ~ResetFields
    BY <1>p DEF ResetFields, At, Plain
  <2>4. ~(ResetQueues \/ ResetStatusReg \/ ResetCached \/ TransmitClose \/ TransmitCloseIrq)
    BY <1>p, Zenon DEF ResetQueues, ResetStatusReg, ResetCached, TransmitClose,
                       TransmitCloseIrq, At
  <2> QED
    BY <1>p, <1>1, <2>1, <2>2, <2>3, <2>4, TxRefreshCts, TxSyncBuild, TxSyncCompare, TxSyncPublish,
       TxDrain, TxTransmitAck, TxTransmitPut, Zenon DEF Thread
<1>2. CASE Isr
  BY <1>p, <1>2, TxRxReadIsr, TxTxWriteIsr, TxControlIsr, Zenon DEF Isr
<1>3. CASE QEdge \/ UNCHANGED vars
  <2>1. UNCHANGED <<tx, cts, status, cachedStatus, sr, seen, ring, access, written, hostLog,
                    txPending, entry, pc>>
    BY <1>3, Zenon DEF QEdge, vars, flags, published, thread, mail, guest, core0Vars
  <2> QED
    BY <2>1, TxAside, Zenon
<1>4. CASE Core0 /\ ~HostReceive
  <2>1. UNCHANGED <<tx, cts, status, cachedStatus, sr, seen, ring, access, written, hostLog,
                    txPending, entry, pc>>
    BY <1>4, Zenon DEF Core0, PumpReads, HostTransmit, HostTransmitDirty, BatchEnds, SetHostCts,
         SetHostCtsDirty, Core0Leaves, flags, published, thread, mail, guest
  <2> QED
    BY <2>1, TxAside, Zenon
<1> QED
  BY <1>1, <1>2, <1>3, <1>4, TxHostReceive, TxGuest, Zenon DEF Next

LEMMA InFlightIsTheRest ==
    ASSUME TypeInv, Pace
    PROVE  InFlight = One(DataIn(ring)) + One(pc \in InHand) + One(Writing)
<1> DEFINE S == {i \in 1 .. Len(ring) : IsData(ring[i])}
<1>1. Cardinality(S) = One(DataIn(ring))
  <2>1. CASE ~DataIn(ring)
    <3>1. S = {}
      BY <2>1 DEF DataIn, IsData
    <3> QED
      BY <2>1, <3>1, FS_EmptySet DEF One
  <2>2. CASE DataIn(ring)
    <3>1. PICK i \in 1 .. Len(ring) : ring[i].kind = "data"
      BY <2>2, Zenon DEF DataIn
    <3>2. S = {i}
      BY <3>1 DEF Pace, OneData, IsData
    <3> QED
      BY <2>2, <3>2, FS_Singleton DEF One
  <2> QED
    BY <2>1, <2>2
<1>2. InFlight = Cardinality(S) + One(pc \in InHand) + One(Writing)
  BY DEF InFlight, IsData, Writing, One, InHand
<1> QED
  BY <1>1, <1>2, Zenon

(* A guest that polls TDRE before it writes loses, repeats and reorders no   *)
(* byte, for every queue with two bytes above the threshold and every order *)
(* of interrupts, pumps and mode changes: guest_transmit() never drops one. *)
(* The hypothesis is the code's: it does not hold of a guest that resets    *)
(* the port or loops it back, nor where a handler may interrupt            *)
(* sync_status() between its reading and its publishing.                    *)
THEOREM TxIsExactlyOnce == OneWriter /\ Spec => []TxExactlyOnce
<1>1. TypeInv /\ TxInv => TxExactlyOnce
  <2> SUFFICES ASSUME TypeInv, TxInv PROVE TxExactlyOnce
    OBVIOUS
  <2> DEFINE out == hostLog \o tx
  <2>1. /\ Len(out) = Moved
        /\ \A i \in 1 .. Len(hostLog) : out[i] = hostLog[i]
        /\ \A i \in 1 .. Len(tx) : out[Len(hostLog) + i] = tx[i]
    BY Lengths, ConcatProperties DEF Moved
  <2>2. ASSUME NEW i \in 1 .. Len(out) PROVE out[i] = i
    <3> HIDE DEF out
    <3>1. CASE i \in 1 .. Len(hostLog)
      BY <2>1, <3>1 DEF TxInv, Order
    <3>2. CASE i \notin 1 .. Len(hostLog)
      <4>1. i - Len(hostLog) \in 1 .. Len(tx) /\ Len(hostLog) + (i - Len(hostLog)) = i
        BY <2>1, <2>2, <3>2, Lengths DEF Moved
      <4>2. out[i] = tx[i - Len(hostLog)]
        BY <2>1, <4>1
      <4>3. tx[i - Len(hostLog)] = i
        BY <4>1, Lengths DEF TxInv, Order
      <4> QED
        BY <4>2, <4>3
    <3> QED
      BY <3>1, <3>2
  <2>3. Len(out) + InFlight = written
    <3>1. InFlight = One(DataIn(ring)) + One(pc \in InHand) + One(Writing)
      BY InFlightIsTheRest DEF TxInv
    <3>2. written = Moved + One(pc \in InHand) + One(DataIn(ring)) + One(Writing)
      BY DEF TxInv, Order
    <3>3. {One(DataIn(ring)), One(pc \in InHand), One(Writing)} \subseteq Nat /\ Moved \in Nat
      BY Lengths DEF One, Moved
    <3> HIDE DEF out
    <3> QED
      BY <2>1, <3>1, <3>2, <3>3
  <2> QED
    BY <2>2, <2>3 DEF TxExactlyOnce
<1>2. CASE OneWriter
  <2>1. TypeInv /\ PlainInv /\ TxInv /\ [Next]_vars => TxInv'
    BY <1>2, TxStep
  <2>2. TypeInv /\ PlainInv /\ [Next]_vars => PlainInv'
    BY <1>2, PlainStep DEF OneWriter
  <2> QED
    BY <1>1, <2>1, <2>2, TypeInit, TypeStep, PlainInit, TxInit, PTL DEF Spec
<1>3. CASE ~OneWriter
  BY <1>3, PTL
<1> QED
  BY <1>2, <1>3

-----------------------------------------------------------------------------
(* The other direction: a byte is Unread from the moment it is staged, whole, *)
(* until the guest takes it.                                               *)
Had == Len(guestLog) + One(Unread)

(* RDRF is shown, or about to be, only with a byte to read behind it; and    *)
(* nothing takes RTS away.                                                 *)
Offered ==
    /\ pc = "sync.publish" => cachedStatus = sr
    /\ pc # "sync.publish" => cachedStatus = status
    /\ ~rts /\ pc # "gr.drop"
    /\ access.kind = "control" => access.word.tx # "rts_off"
    /\ seen.rdrf => Unread
    /\ status.rdrf /\ ~Reading => rbf /\ ~Loading
    /\ pc \in Updating /\ sr.rdrf => rbf
    /\ Reading => rbf /\ ~Loading /\ ~seen.rdrf
    /\ Loading => rbf
    /\ pc = "hi.full" => ~rbf

(* Which byte is where: read, in the data register, in rx.                  *)
InTurn ==
    /\ \A i \in 1 .. Len(guestLog) : guestLog[i] = i
    /\ Unread => data = Had
    /\ \A i \in 1 .. Len(rx) : rx[i] = Had + i
    /\ sent = Had + Len(rx)

RxInv == Offered /\ InTurn

(* The controls are plain and leave RTS on, and no interrupt lands between   *)
(* the reading of the fields and the publishing of the byte, nor between    *)
(* RDRF and the data register.                                             *)
OneReader ==
    /\ PlainControls
    /\ \A c \in Controls : c.tx # "rts_off"
    /\ Updating \cup {"hi.data", "gr.data"} \subseteq Quiet

LEMMA RxLengths ==
    TypeInv => /\ rx \in Seq(Nat) /\ Len(rx) \in Nat /\ guestLog \in Seq(Nat)
               /\ Len(guestLog) \in Nat /\ sent \in Nat /\ data \in Nat
BY LenProperties DEF TypeInv, TypeOK

LEMMA RxInit == Init => RxInv
<1> SUFFICES ASSUME Init PROVE RxInv
  OBVIOUS
<1>1. /\ pc = "top" /\ access = [kind |-> "none"] /\ rx = <<>> /\ guestLog = <<>>
      /\ sent = 0 /\ cachedStatus = status /\ seen = ConsoleNone /\ status = ResetStatus
  BY Zenon DEF Init, NoAccess, NoStatus
<1>2. ~rbf /\ ~rts
  BY Zenon DEF Init
<1>3. ~seen.rdrf /\ ~status.rdrf
  BY <1>1 DEF ConsoleNone, ResetStatus
<1>4. Offered
  BY <1>1, <1>2, <1>3 DEF Offered, Updating, Loading, Reading
<1>5. Had = 0 /\ ~Unread
  BY <1>1, <1>2 DEF Had, Unread, One
<1>6. InTurn
  BY <1>1, <1>5 DEF InTurn
<1> QED
  BY <1>4, <1>6 DEF RxInv

RxVars == <<rx, data, rbf, rts, status, cachedStatus, sr, seen, access, sent, guestLog>>

(* The steps that touch none of it.                                        *)
LEMMA RxAside ==
    ASSUME TypeInv, RxInv, UNCHANGED RxVars,
           \/ pc' = pc
           \/ {pc, pc'} \cap (Updating \cup {"hi.full", "hi.data", "gr.data", "gr.drop"}) = {}
    PROVE  RxInv'
<1>1. UNCHANGED <<rx, data, rbf, rts, status, cachedStatus, sr, seen, access, sent, guestLog>>
  BY DEF RxVars
<1>2. Loading' = Loading /\ Reading' = Reading
  BY <1>1 DEF Loading, Reading
<1>3. Unread' = Unread
  BY <1>1, <1>2, Zenon DEF Unread
<1>4. Offered'
  BY <1>1, <1>2, <1>3 DEF RxInv, Offered, Updating
<1>5. Had' = Had
  BY <1>1, <1>3 DEF Had
<1>6. InTurn'
  BY <1>1, <1>3, <1>5 DEF RxInv, InTurn
<1> QED
  BY <1>4, <1>6 DEF RxInv

(* Steps that leave the bytes where they are, and their count.              *)
LEMMA RxInPlace ==
    ASSUME InTurn, UNCHANGED <<rx, data, sent, guestLog>>, Unread' = Unread
    PROVE  InTurn'
<1>1. Had' = Had
  BY DEF Had
<1> QED
  BY <1>1 DEF InTurn

(* has_interrupt() and guest_receive() find the register empty, and set     *)
(* RDRF before the byte is there.                                          *)
LEMMA RxStage ==
    ASSUME TypeInv, RxInv, HiStage \/ HiFull \/ ReceiveStage
    PROVE  RxInv'
<1>1. UNCHANGED <<rx, data, rts, status, cachedStatus, sr, seen, access, sent, guestLog>>
  BY Zenon DEF HiStage, HiFull, ReceiveStage, Goto, RestOfThread, flags, published, mail, guest,
               core0Vars
<1>2. CASE HiStage
  <2>1. /\ rbf' = rbf /\ pc = "hi.stage" /\ pc' \in {"hi.full", "hi.arx"}
        /\ pc' = "hi.full" => ~rbf
    BY <1>2 DEF HiStage, At, Goto, flags
  <2>2. Loading' = Loading /\ Reading' = Reading
    BY <1>1, <2>1 DEF Loading, Reading
  <2>3. Unread' = Unread
    BY <2>1, <2>2, Zenon DEF Unread
  <2>4. Offered'
    BY <1>1, <2>1, <2>2, <2>3 DEF RxInv, Offered, Updating
  <2> QED
    BY <1>1, <2>3, <2>4, RxInPlace DEF RxInv
<1>3. CASE HiFull
  <2>1. /\ pc = "hi.full" /\ pc' = "hi.data" /\ rbf'
    <3>1. pc = "hi.full" /\ pc' = "hi.data" /\ rbf' = TRUE
      BY <1>3, Zenon DEF HiFull, At, Goto
    <3> QED
      BY <3>1
  <2>2. ~rbf /\ ~Reading /\ ~Unread /\ ~seen.rdrf /\ ~status.rdrf
    BY <2>1 DEF RxInv, Offered, Unread, Updating
  <2>3. Loading' /\ ~Reading' /\ ~Unread'
    BY <1>1, <2>1, <2>2 DEF Loading, Reading, Unread
  <2>4. Offered'
    BY <1>1, <2>1, <2>2, <2>3 DEF RxInv, Offered, Updating
  <2>5. Unread' = Unread
    BY <2>2, <2>3 DEF Unread
  <2> QED
    BY <1>1, <2>4, <2>5, RxInPlace DEF RxInv
<1>4. CASE ReceiveStage
  <2>1. /\ pc = "gr.stage" /\ rbf' = (rbf \/ rx # <<>>)
        /\ pc' = IF ~rbf /\ rx # <<>> THEN "gr.data" ELSE "gr.end"
    BY <1>4, Zenon DEF ReceiveStage, At, Goto
  <2>2. CASE ~rbf /\ rx # <<>>
    <3>1. pc' = "gr.data" /\ rbf'
      BY <2>1, <2>2, Zenon
    <3>2. ~Reading /\ ~Unread /\ ~seen.rdrf /\ ~status.rdrf
      BY <2>2 DEF RxInv, Offered, Unread
    <3>3. Loading' /\ ~Reading' /\ ~Unread'
      BY <1>1, <3>1, <3>2 DEF Loading, Reading, Unread
    <3>4. Offered'
      BY <1>1, <2>1, <3>1, <3>2, <3>3 DEF RxInv, Offered, Updating
    <3>5. Unread' = Unread
      BY <3>2, <3>3 DEF Unread
    <3> QED
      BY <1>1, <3>4, <3>5, RxInPlace DEF RxInv
  <2>3. CASE ~(~rbf /\ rx # <<>>)
    <3>1. pc' = "gr.end"
      BY <2>1, <2>3, Zenon
    <3>2. rbf' = rbf
      <4>1. rbf \in BOOLEAN
        BY Zenon DEF TypeInv, TypeOK
      <4>2. rbf' <=> rbf
        BY <2>1, <2>3, Zenon
      <4> QED
        BY <2>1, <4>1, <4>2
    <3> QED
      BY <1>1, <2>1, <3>1, <3>2, RxAside DEF Updating, RxVars
  <2> QED
    BY <2>2, <2>3
<1> QED
  BY <1>2, <1>3, <1>4

(* reg[data_offset] = rx.get(): the next byte is staged.                    *)
LEMMA RxStageByte ==
    ASSUME TypeInv, RxInv, StageByte
    PROVE  RxInv'
<1>1. /\ UNCHANGED <<rbf, rts, status, cachedStatus, sr, seen, access, sent, guestLog>>
      /\ data' = Head(rx) /\ rx' = Tail(rx)
      /\ pc \in {"hi.data", "gr.data"} /\ pc' = IF pc = "hi.data" THEN "hi.arx" ELSE "gr.end"
  BY Zenon DEF StageByte, At, Goto, RestOfThread, flags, published, mail, guest, core0Vars
<1>2. Loading /\ rbf /\ ~Reading /\ ~Unread /\ ~seen.rdrf /\ ~status.rdrf
  BY <1>1 DEF Loading, Unread, RxInv, Offered
<1>3. ~Loading' /\ ~Reading' /\ rbf' /\ Unread' /\ pc' \in {"hi.arx", "gr.end"}
  BY <1>1, <1>2 DEF Loading, Reading, Unread
<1>4. Offered'
  BY <1>1, <1>2, <1>3 DEF RxInv, Offered, Updating
<1>5. /\ rx \in Seq(Nat) /\ rx # <<>>
  BY <1>1 DEF TypeInv, TypeOK
<1>6. /\ Len(rx) > 0 /\ Len(rx') = Len(rx) - 1 /\ data' = rx[1]
      /\ \A i \in 1 .. Len(rx) - 1 : rx'[i] = rx[i + 1]
  BY <1>1, <1>5, RxLengths, HeadTailProperties
<1>7. Had' = Had + 1 /\ Had \in Nat
  BY <1>1, <1>2, <1>3, RxLengths DEF Had, One
<1>8. /\ \A i \in 1 .. Len(guestLog) : guestLog[i] = i
      /\ \A i \in 1 .. Len(rx) : rx[i] = Had + i
      /\ sent = Had + Len(rx)
  BY DEF RxInv, InTurn
<1>9. data' = Had' /\ sent' = Had' + Len(rx')
  <2>1. 1 \in 1 .. Len(rx)
    BY <1>6, RxLengths
  <2>2. rx[1] = Had + 1
    BY <1>8, <2>1
  <2>3. sent' = sent
    BY <1>1
  <2> QED
    BY <1>6, <1>7, <1>8, <2>2, <2>3, RxLengths
<1>10. ASSUME NEW i \in 1 .. Len(rx') PROVE rx'[i] = Had' + i
  <2>1. i \in 1 .. Len(rx) - 1 /\ i + 1 \in 1 .. Len(rx)
    BY <1>6, RxLengths
  <2>2. rx'[i] = rx[i + 1] /\ rx[i + 1] = Had + (i + 1)
    BY <1>6, <1>8, <2>1
  <2> QED
    BY <1>7, <2>1, <2>2, RxLengths
<1> QED
  BY <1>1, <1>4, <1>8, <1>9, <1>10 DEF RxInv, InTurn

LEMMA RxSync ==
    ASSUME TypeInv, RxInv, SyncBuild \/ SyncCompare \/ SyncPublish
    PROVE  RxInv'
<1>1. UNCHANGED <<rx, data, rbf, rts, seen, access, sent, guestLog>>
  BY Zenon DEF SyncBuild, SyncCompare, SyncPublish, Goto, RestOfThread, flags, published, mail,
               guest, core0Vars
<1>2. ret \in {"top", "ring", "hi.ret", "gr.ret"}
  BY Zenon DEF TypeInv, TypeOK
<1>3. /\ pc \in Updating \cup {"sync"}
      /\ pc' \in Updating \cup {"top", "ring", "hi.ret", "gr.ret"}
  BY <1>2 DEF SyncBuild, SyncCompare, SyncPublish, At, Goto, Updating
<1>4. Loading' = Loading /\ Reading' = Reading /\ ~Loading
  BY <1>1, <1>3 DEF Loading, Reading, Updating
<1>5. Unread' = Unread
  BY <1>1, <1>4, Zenon DEF Unread
<1>6. InTurn'
  BY <1>1, <1>5, RxInPlace DEF RxInv
<1>7. CASE SyncBuild
  <2>1. /\ UNCHANGED <<status, cachedStatus>> /\ pc = "sync" /\ pc' = "sync.compare"
        /\ sr' = Derive(rbf, tbe, cts, txPending, atx, arx)
    BY <1>7, Zenon DEF SyncBuild, At, published
  <2>2. sr'.rdrf = rbf
    BY <2>1 DEF Derive
  <2>3. Offered'
    BY <1>1, <1>4, <1>5, <2>1, <2>2 DEF RxInv, Offered
  <2> QED
    BY <1>6, <2>3 DEF RxInv
<1>8. CASE SyncCompare
  <2>1. /\ UNCHANGED <<status, sr>> /\ pc = "sync.compare" /\ cachedStatus' = sr
        /\ pc' = IF sr # cachedStatus THEN "sync.publish" ELSE ret
    BY <1>8, Zenon DEF SyncCompare, At, Goto
  <2>2. Offered'
    BY <1>1, <1>2, <1>4, <1>5, <2>1 DEF RxInv, Offered, Updating
  <2> QED
    BY <1>6, <2>2 DEF RxInv
<1>9. CASE SyncPublish
  <2>1. UNCHANGED <<cachedStatus, sr>> /\ pc = "sync.publish" /\ status' = sr /\ pc' = ret
    BY <1>9, Zenon DEF SyncPublish, At, Goto
  <2>2. Offered'
    BY <1>1, <1>2, <1>4, <1>5, <2>1 DEF RxInv, Offered, Updating
  <2> QED
    BY <1>6, <2>2 DEF RxInv
<1> QED
  BY <1>7, <1>8, <1>9

(* The handler of a data read: the byte the guest has is given up.          *)
LEMMA RxRxReadIsr ==
    ASSUME TypeInv, RxInv, RxReadIsr, Updating \cup {"hi.data", "gr.data"} \subseteq Quiet
    PROVE  RxInv'
<1>1. /\ UNCHANGED <<rx, data, rts, sr, seen, sent, guestLog, pc>>
      /\ access = [kind |-> "read"] /\ access' = [kind |-> "none"]
      /\ pc \notin Updating
      /\ IsrSync(FALSE, txPending, FALSE)
  BY Zenon DEF RxReadIsr, IsrMayRun, IsrLeaves, thread, core0Vars, DataRead, NoAccess
<1>2. ~rbf'
  <2>1. rbf' = FALSE
    BY Zenon DEF RxReadIsr
  <2> QED
    BY <2>1
<1>3. cachedStatus = status
  BY <1>1 DEF RxInv, Offered, Updating
<1>4. status' = cachedStatus' /\ status' = Derive(FALSE, tbe, cts, txPending, atx, FALSE)
  BY <1>1, <1>3, IsrPublishes, Zenon
<1>5. ~status'.rdrf
  BY <1>4 DEF Derive
<1>6. Reading /\ ~Unread /\ ~Reading' /\ ~Unread' /\ ~Loading /\ ~Loading' /\ ~seen.rdrf
  BY <1>1, <1>2 DEF RxInv, Offered, Reading, Unread, Loading
<1>7. Offered'
  BY <1>1, <1>2, <1>4, <1>5, <1>6 DEF RxInv, Offered, Updating
<1>8. Unread' = Unread
  BY <1>6 DEF Unread
<1> QED
  BY <1>1, <1>7, <1>8, RxInPlace DEF RxInv

(* The handlers of a data and a control write.                              *)
LEMMA RxWriteIsrs ==
    ASSUME TypeInv, RxInv, TxWriteIsr \/ ControlIsr,
           Updating \cup {"hi.data", "gr.data"} \subseteq Quiet
    PROVE  RxInv'
<1>1. /\ UNCHANGED <<rx, data, rbf, sr, seen, sent, guestLog, pc>>
      /\ access.kind \in {"data", "control"} /\ access' = [kind |-> "none"]
      /\ pc \notin Updating \cup {"hi.data", "gr.data"}
  BY Zenon DEF TxWriteIsr, ControlIsr, IsrMayRun, IsrLeaves, thread, core0Vars, NoAccess
<1>2. cachedStatus = status
  BY <1>1 DEF RxInv, Offered, Updating
<1>3. ~Reading /\ ~Reading' /\ ~Loading /\ ~Loading'
  BY <1>1 DEF Reading, Loading
<1>4. Unread' = Unread
  BY <1>1, <1>3 DEF Unread
<1>5. ~rts' /\ status' = cachedStatus' /\ (status'.rdrf => rbf)
  <2>1. CASE TxWriteIsr
    <3>1. IsrSync(rbf, TRUE, arx) /\ rts' = rts
      BY <2>1, Zenon DEF TxWriteIsr
    <3>2. status' = cachedStatus' /\ status' = Derive(rbf, tbe, cts, TRUE, atx, arx)
      BY <1>2, <3>1, IsrPublishes, Zenon
    <3>3. status'.rdrf = rbf
      BY <3>2 DEF Derive
    <3> QED
      BY <3>1, <3>2, <3>3 DEF RxInv, Offered
  <2>2. CASE ControlIsr
    <3>1. /\ access.kind = "control" /\ UNCHANGED <<status, cachedStatus>>
          /\ rts' = IF access.word.divide = "reset" THEN rts ELSE access.word.tx = "rts_off"
      BY <2>2, Zenon DEF ControlIsr, published
    <3>2. ~rts /\ access.word.tx # "rts_off"
      BY <3>1 DEF RxInv, Offered
    <3>3. ~rts'
      BY <3>1, <3>2, Zenon
    <3> QED
      BY <1>2, <1>3, <3>1, <3>3 DEF RxInv, Offered
  <2> QED
    BY <2>1, <2>2
<1>6. Offered'
  BY <1>1, <1>3, <1>4, <1>5 DEF RxInv, Offered, Updating
<1> QED
  BY <1>1, <1>4, <1>6, RxInPlace DEF RxInv

(* Core 0 puts the next byte of the host.                                   *)
LEMMA RxHostTransmit ==
    ASSUME TypeInv, RxInv, HostTransmit
    PROVE  RxInv'
<1>1. /\ UNCHANGED <<data, rbf, rts, status, cachedStatus, sr, seen, access, guestLog, pc>>
      /\ rx' = Append(rx, sent + 1) /\ sent' = sent + 1
  BY Zenon DEF HostTransmit, Core0Leaves, flags, published, thread, mail, guest
<1>2. Unread' = Unread /\ Loading' = Loading /\ Reading' = Reading
  BY <1>1 DEF Unread, Loading, Reading
<1>3. Offered'
  BY <1>1, <1>2 DEF RxInv, Offered
<1>4. Had' = Had /\ Had \in Nat
  BY <1>1, <1>2, RxLengths DEF Had, One
<1>5. /\ \A i \in 1 .. Len(guestLog) : guestLog[i] = i
      /\ Unread => data = Had
      /\ \A i \in 1 .. Len(rx) : rx[i] = Had + i
      /\ sent = Had + Len(rx)
  BY DEF RxInv, InTurn
<1>6. /\ Len(rx') = Len(rx) + 1 /\ rx'[Len(rx) + 1] = sent + 1
      /\ \A i \in 1 .. Len(rx) : rx'[i] = rx[i]
  BY <1>1, RxLengths, AppendProperties
<1>7. ASSUME NEW i \in 1 .. Len(rx') PROVE rx'[i] = Had + i
  <2>1. i \in 1 .. Len(rx) \/ i = Len(rx) + 1
    BY <1>6, RxLengths
  <2>2. CASE i \in 1 .. Len(rx)
    BY <1>5, <1>6, <2>2
  <2>3. CASE i = Len(rx) + 1
    BY <1>4, <1>5, <1>6, <2>3, RxLengths
  <2> QED
    BY <2>1, <2>2, <2>3
<1>8. sent' = Had + Len(rx')
  BY <1>1, <1>4, <1>5, <1>6, RxLengths
<1> QED
  BY <1>1, <1>2, <1>3, <1>4, <1>5, <1>7, <1>8 DEF RxInv, InTurn

LEMMA RxGuest ==
    ASSUME TypeInv, RxInv, Guest, \A c \in Controls : c.tx # "rts_off"
    PROVE  RxInv'
<1>1. /\ UNCHANGED <<rx, data, rbf, rts, status, cachedStatus, sr, sent, pc>>
      /\ access = [kind |-> "none"]
  BY Zenon DEF Guest, ReadStatus, ReadData, WriteData, WriteControl, GuestLeaves, flags, published,
               thread, mail, core0Vars, NoAccess
<1>2. ~Reading /\ Loading' = Loading /\ Unread = (rbf /\ ~Loading)
  BY <1>1 DEF Reading, Loading, Unread
<1>3. ASSUME ~Reading', guestLog' = guestLog, seen'.rdrf => seen.rdrf \/ status.rdrf,
             access'.kind = "control" => access'.word.tx # "rts_off"
      PROVE  RxInv'
  <2>1. Unread' = Unread
    BY <1>1, <1>2, <1>3 DEF Unread
  <2>2. Offered'
    <3>1. seen'.rdrf => Unread'
      BY <1>2, <1>3, <2>1 DEF RxInv, Offered
    <3> QED
      BY <1>1, <1>2, <1>3, <3>1 DEF RxInv, Offered
  <2> QED
    BY <1>1, <1>3, <2>1, <2>2, RxInPlace DEF RxInv
<1>4. CASE ReadStatus
  <2>1. seen' = status /\ UNCHANGED <<access, guestLog>>
    BY <1>4, Zenon DEF ReadStatus
  <2> QED
    BY <1>1, <1>2, <1>3, <2>1 DEF Reading
<1>5. CASE ReadData
  <2>1. /\ seen.rdrf /\ seen' = ConsoleNone /\ access' = [kind |-> "read"]
        /\ guestLog' = Append(guestLog, data)
    BY <1>5, Zenon DEF ReadData, DataRead, NoStatus
  <2>2. ~seen'.rdrf
    BY <2>1 DEF ConsoleNone
  <2>3. Unread /\ rbf /\ ~Loading
    BY <2>1 DEF RxInv, Offered, Unread
  <2>4. Reading' /\ ~Unread' /\ ~Loading'
    BY <1>2, <2>1, <2>3 DEF Reading, Unread
  <2>5. Offered'
    BY <1>1, <2>1, <2>2, <2>3, <2>4 DEF RxInv, Offered
  <2>6. /\ Len(guestLog') = Len(guestLog) + 1 /\ guestLog'[Len(guestLog) + 1] = data
        /\ \A i \in 1 .. Len(guestLog) : guestLog'[i] = guestLog[i]
    BY <2>1, RxLengths, AppendProperties
  <2>7. Had' = Had /\ Had = Len(guestLog) + 1
    BY <2>3, <2>4, <2>6, RxLengths DEF Had, One
  <2>8. /\ \A i \in 1 .. Len(guestLog) : guestLog[i] = i
        /\ data = Len(guestLog) + 1
    BY <2>3, <2>7 DEF RxInv, InTurn
  <2>9. ASSUME NEW i \in 1 .. Len(guestLog') PROVE guestLog'[i] = i
    <3>1. i \in 1 .. Len(guestLog) \/ i = Len(guestLog) + 1
      BY <2>6, RxLengths
    <3>2. CASE i \in 1 .. Len(guestLog)
      BY <2>6, <2>8, <3>2
    <3>3. CASE i = Len(guestLog) + 1
      BY <2>6, <2>8, <3>3
    <3> QED
      BY <3>1, <3>2, <3>3
  <2> QED
    BY <1>1, <2>4, <2>5, <2>7, <2>9 DEF RxInv, InTurn
<1>6. CASE WriteData
  <2>1. /\ seen' = ConsoleNone /\ guestLog' = guestLog
        /\ access' = [kind |-> "data", byte |-> written + 1]
    BY <1>6, Zenon DEF WriteData, DataWrite, NoStatus
  <2>2. ~seen'.rdrf
    BY <2>1 DEF ConsoleNone
  <2> QED
    BY <1>3, <2>1, <2>2 DEF Reading
<1>7. CASE \E c \in Controls : WriteControl(c)
  <2>1. PICK c \in Controls : WriteControl(c)
    BY <1>7
  <2>2. access' = [kind |-> "control", word |-> c] /\ UNCHANGED <<seen, guestLog>>
    BY <2>1, Zenon DEF WriteControl, ControlWrite
  <2> QED
    BY <1>3, <2>2 DEF Reading
<1> QED
  BY <1>4, <1>5, <1>6, <1>7, Zenon DEF Guest

LEMMA RxStep ==
    ASSUME OneReader, TypeInv, PlainInv, RxInv, [Next]_vars
    PROVE  RxInv'
<1>p. /\ pc \notin {"rs.queues", "rs.status", "rs.cached", "gt.close", "gt.irq"}
      /\ ~loopClose /\ ~loopQueue
      /\ pc = "gc" => Plain(entry.word)
      /\ Updating \cup {"hi.data", "gr.data"} \subseteq Quiet
      /\ \A c \in Controls : c.tx # "rts_off"
  BY Zenon DEF PlainInv, OneReader
<1>r. ~rts /\ pc # "gr.drop"
  BY DEF RxInv, Offered
<1>1. CASE Thread
  <2>1. CASE \/ Edge \/ HiTest \/ RefreshTbe \/ RefreshCts \/ HiReceiveIrq \/ HiTransmitIrq
             \/ HiReturn
    <3>1. UNCHANGED RxVars
      BY <2>1, Zenon DEF Edge, HiTest, RefreshTbe, RefreshCts, HiReceiveIrq, HiTransmitIrq,
           HiReturn, Goto, CallSync, RestOfThread, published, mail, guest, flags, core0Vars, RxVars
    <3>2. /\ pc \in {"top", "hi.test", "hi.tbe", "sync.tbe", "hi.cts", "sync.cts", "hi.arx",
                     "hi.atx", "hi.ret"}
          /\ pc' \in {"hi.test", "ring", "hi.tbe", "hi.cts", "sync.cts", "hi.stage", "sync",
                      "hi.atx"}
      BY <2>1 DEF Edge, HiTest, RefreshTbe, RefreshCts, HiReceiveIrq, HiTransmitIrq, HiReturn,
           At, Goto, CallSync
    <3> QED
      BY <3>1, <3>2, RxAside DEF Updating
  <2>2. CASE Drain \/ GuestControl \/ TransmitAck \/ TransmitPut
    <3>1. UNCHANGED RxVars
      <4>1. UNCHANGED <<data, rbf, rts, status, cachedStatus, seen, access, sent, guestLog>>
        BY <2>2, Zenon DEF Drain, GuestControl, TransmitAck, TransmitPut, RestOfThread, flags,
             published, mail, guest, core0Vars
      <4>2. sr' = sr /\ rx' = rx
        BY <1>p, <2>2, Zenon DEF Drain, GuestControl, TransmitAck, TransmitPut, Goto, CallSync
      <4> QED
        BY <4>1, <4>2 DEF RxVars
    <3>2. /\ pc \in {"ring", "gc", "gt.ack", "gt.put"}
          /\ pc' \in {"reads", "gt.ack", "gc", "sync.tbe", "gt.close", "gt.put"}
      BY <2>2 DEF Drain, GuestControl, TransmitAck, TransmitPut, At, Goto, CallSync
    <3> QED
      BY <3>1, <3>2, RxAside DEF Updating
  <2>3. CASE Reads \/ ReceiveEnd \/ ReceiveReturn
    <3>1. UNCHANGED RxVars
      BY <2>3, Zenon DEF Reads, ReceiveEnd, ReceiveReturn, Goto, CallSync, RestOfThread, published,
           mail, guest, flags, core0Vars, RxVars
    <3>2. /\ pc \in {"reads", "gr.end", "gr.ret"}
          /\ pc' \in {"top", "gr.stage", "sync", "reads"}
      BY <1>r, <2>3 DEF Reads, ReceiveEnd, ReceiveReturn, At, Goto, CallSync
    <3> QED
      BY <3>1, <3>2, RxAside DEF Updating
  <2>4. ~ResetFields /\ ~ReceiveDrop
    BY <1>p, <1>r DEF ResetFields, ReceiveDrop, At, Plain
  <2>5. ~(ResetQueues \/ ResetStatusReg \/ ResetCached \/ TransmitClose \/ TransmitCloseIrq)
    BY <1>p, Zenon DEF ResetQueues, ResetStatusReg, ResetCached, TransmitClose,
                       TransmitCloseIrq, At
  <2> QED
    BY <1>1, <2>1, <2>2, <2>3, <2>4, <2>5, RxStage, RxStageByte, RxSync, Zenon DEF Thread
<1>2. CASE Isr
  BY <1>p, <1>2, RxRxReadIsr, RxWriteIsrs, Zenon DEF Isr
<1>3. CASE QEdge \/ UNCHANGED vars
  <2>1. UNCHANGED RxVars /\ pc' = pc
    BY <1>3, Zenon DEF QEdge, vars, flags, published, thread, mail, guest, core0Vars, RxVars
  <2> QED
    BY <2>1, RxAside, Zenon
<1>4. CASE Core0 /\ ~HostTransmit
  <2>1. UNCHANGED RxVars /\ pc' = pc
    BY <1>4, Zenon DEF Core0, PumpReads, HostReceive, HostTransmitDirty, BatchEnds, SetHostCts,
         SetHostCtsDirty, Core0Leaves, flags, published, thread, mail, guest, RxVars
  <2> QED
    BY <2>1, RxAside, Zenon
<1> QED
  BY <1>p, <1>1, <1>2, <1>3, <1>4, RxHostTransmit, RxGuest, Zenon DEF Next

(* A guest that polls RDRF before it reads has every byte of the host once,  *)
(* in order, however the two places that stage a byte (has_interrupt() and  *)
(* guest_receive()) and the handler that gives it up fall among each other. *)
(* Turning RTS off throws a staged byte away, so the hypothesis leaves it   *)
(* out.                                                                    *)
THEOREM RxIsExactlyOnce == OneReader /\ Spec => []RxExactlyOnce
<1>1. RxInv => RxExactlyOnce
  BY DEF RxInv, InTurn, RxExactlyOnce
<1>2. CASE OneReader
  <2>1. TypeInv /\ PlainInv /\ RxInv /\ [Next]_vars => RxInv'
    BY <1>2, RxStep
  <2>2. TypeInv /\ PlainInv /\ [Next]_vars => PlainInv'
    BY <1>2, PlainStep DEF OneReader
  <2> QED
    BY <1>1, <2>1, <2>2, TypeInit, TypeStep, PlainInit, RxInit, PTL DEF Spec
<1>3. CASE ~OneReader
  BY <1>3, PTL
<1> QED
  BY <1>2, <1>3

-----------------------------------------------------------------------------
(* The two directions of the port as FIFOs.  What an end is owed is numbers *)
(* in a row, from the one after the done-th to the begun-th; and that gets  *)
(* one more at its end, or one fewer at its head.                          *)
Owed(done, begun) == [i \in 1 .. begun - done |-> done + i]

LEMMA OwedIs ==
    ASSUME NEW done \in Nat, NEW begun \in Nat, done <= begun
    PROVE  /\ Owed(done, begun) \in Seq(Nat)
           /\ Len(Owed(done, begun)) = begun - done
           /\ \A i \in 1 .. begun - done : Owed(done, begun)[i] = done + i
<1>1. begun - done \in Nat
  OBVIOUS
<1> QED
  BY <1>1 DEF Owed

LEMMA OwedMore ==
    ASSUME NEW done \in Nat, NEW begun \in Nat, done <= begun
    PROVE  Owed(done, begun + 1) = Append(Owed(done, begun), begun + 1)
<1> DEFINE s == Owed(done, begun)
           t == Owed(done, begun + 1)
<1>1. /\ s \in Seq(Nat) /\ Len(s) = begun - done
      /\ \A i \in 1 .. begun - done : s[i] = done + i
  BY OwedIs
<1>2. /\ t \in Seq(Nat) /\ Len(t) = begun + 1 - done
      /\ \A i \in 1 .. begun + 1 - done : t[i] = done + i
  BY OwedIs
<1> HIDE DEF s, t
<1>3. Append(s, begun + 1) \in Seq(Nat) /\ Len(Append(s, begun + 1)) = Len(t)
  BY <1>1, <1>2
<1>4. ASSUME NEW i \in 1 .. Len(t) PROVE Append(s, begun + 1)[i] = t[i]
  <2>1. CASE i = Len(s) + 1
    BY <1>1, <1>2, <2>1
  <2>2. CASE i # Len(s) + 1
    <3>1. i \in 1 .. Len(s)
      BY <1>1, <1>2, <2>2
    <3>2. Append(s, begun + 1)[i] = s[i]
      BY <1>1, <3>1, AppendProperties
    <3> QED
      BY <1>1, <1>2, <3>1, <3>2
  <2> QED
    BY <2>1, <2>2
<1>5. Append(s, begun + 1) = t
  BY <1>2, <1>3, <1>4, SeqEqual
<1> QED
  BY <1>5 DEF s, t

LEMMA OwedFewer ==
    ASSUME NEW done \in Nat, NEW begun \in Nat, done < begun
    PROVE  /\ Owed(done, begun) # <<>>
           /\ Head(Owed(done, begun)) = done + 1
           /\ Tail(Owed(done, begun)) = Owed(done + 1, begun)
<1> DEFINE s == Owed(done, begun)
           t == Owed(done + 1, begun)
<1>1. /\ s \in Seq(Nat) /\ Len(s) = begun - done
      /\ \A i \in 1 .. begun - done : s[i] = done + i
  BY OwedIs
<1>2. /\ t \in Seq(Nat) /\ Len(t) = begun - (done + 1)
      /\ \A i \in 1 .. begun - (done + 1) : t[i] = done + 1 + i
  BY OwedIs
<1> HIDE DEF s, t
<1>3. s # <<>> /\ Head(s) = done + 1
  BY <1>1
<1>4. Tail(s) \in Seq(Nat) /\ Len(Tail(s)) = Len(t)
  BY <1>1, <1>2, <1>3, HeadTailProperties
<1>5. ASSUME NEW i \in 1 .. Len(t) PROVE Tail(s)[i] = t[i]
  <2>1. Tail(s)[i] = s[i + 1]
    BY <1>1, <1>3, <1>4, <1>5, HeadTailProperties
  <2> QED
    BY <1>1, <1>2, <2>1
<1>6. Tail(s) = t
  BY <1>2, <1>4, <1>5, SeqEqual
<1> QED
  BY <1>3, <1>6 DEF s, t

LEMMA OwedNone == Owed(0, 0) = <<>>
<1>1. Owed(0, 0) \in Seq(Nat) /\ Len(Owed(0, 0)) = 0
  BY OwedIs
<1> QED
  BY <1>1

LEMMA NewestOfAppend ==
    ASSUME NEW s \in Seq(Nat), NEW e \in Nat
    PROVE  Newest(Append(s, e)) = e
<1>1. Append(s, e) # <<>> /\ Append(s, e)[Len(Append(s, e))] = e
  OBVIOUS
<1> QED
  BY <1>1 DEF Newest

(* What the host is owed: at most a byte in the loop's hand, one in the      *)
(* write ring, one under way to it, and tx.                                *)
LEMMA TxOwes ==
    ASSUME TypeInv, TxInv
    PROVE  /\ written \in Nat /\ Len(hostLog) \in Nat /\ Len(tx) \in Nat
           /\ Len(hostLog) + Len(tx) <= written /\ Len(hostLog) <= written
           /\ access = NoAccess /\ seen.tdre =>
                  written - Len(hostLog) = Len(tx) + One(pc = "gt.put")
<1>1. written = Len(hostLog) + Len(tx) + One(pc \in InHand) + One(DataIn(ring)) + One(Writing)
  BY DEF TxInv, Order, Moved
<1>2. {One(pc \in InHand), One(DataIn(ring)), One(Writing)} \subseteq Nat
  BY DEF One
<1>3. ASSUME access = NoAccess, seen.tdre
      PROVE  One(Writing) = 0 /\ One(DataIn(ring)) = 0 /\ One(pc \in InHand) = One(pc = "gt.put")
  <2>1. ~Writing
    BY <1>3 DEF Writing, NoAccess
  <2>2. ~Unacked
    BY <1>3 DEF TxInv, Pace, Granted
  <2> QED
    BY <2>1, <2>2 DEF Unacked, InHand, One
<1>4. Len(hostLog) + Len(tx) <= written /\ Len(hostLog) <= written
  BY <1>1, <1>2, Lengths
<1> QED
  BY <1>1, <1>2, <1>3, <1>4, Lengths

LEMMA HostOwedIs == TypeInv /\ TxInv => HostOwed = Owed(Len(hostLog), written)
<1> SUFFICES ASSUME TypeInv, TxInv PROVE HostOwed = Owed(Len(hostLog), written)
  OBVIOUS
<1> DEFINE rest == [i \in 1 .. InFlight |-> Len(hostLog) + Len(tx) + i]
           owed == Owed(Len(hostLog), written)
<1>1. InFlight \in Nat /\ written = Len(hostLog) + Len(tx) + InFlight
  <2>1. InFlight = One(DataIn(ring)) + One(pc \in InHand) + One(Writing)
    BY InFlightIsTheRest DEF TxInv
  <2>2. {One(DataIn(ring)), One(pc \in InHand), One(Writing)} \subseteq Nat
    BY DEF One
  <2>3. written = Len(hostLog) + Len(tx) + One(pc \in InHand) + One(DataIn(ring)) + One(Writing)
    BY DEF TxInv, Order, Moved
  <2> QED
    BY <2>1, <2>2, <2>3, Lengths
<1>2. /\ rest \in Seq(Nat) /\ Len(rest) = InFlight
      /\ \A i \in 1 .. InFlight : rest[i] = Len(hostLog) + Len(tx) + i
  BY <1>1, Lengths
<1>3. /\ owed \in Seq(Nat) /\ Len(owed) = written - Len(hostLog)
      /\ \A i \in 1 .. written - Len(hostLog) : owed[i] = Len(hostLog) + i
  BY TxOwes, OwedIs, Zenon
<1> HIDE DEF rest, owed
<1>4. tx \o rest \in Seq(Nat) /\ Len(tx \o rest) = Len(owed)
  <2>1. tx \o rest \in Seq(Nat) /\ Len(tx \o rest) = Len(tx) + Len(rest)
    BY <1>2, Lengths, ConcatProperties
  <2> QED
    BY <1>1, <1>2, <1>3, <2>1, Lengths
<1>5. ASSUME NEW i \in 1 .. Len(owed) PROVE (tx \o rest)[i] = owed[i]
  <2>1. owed[i] = Len(hostLog) + i
    BY <1>3, <1>5
  <2>2. CASE i <= Len(tx)
    <3>1. i \in 1 .. Len(tx) /\ (tx \o rest)[i] = tx[i]
      BY <1>2, <1>4, <1>5, <2>2, Lengths, ConcatProperties
    <3> QED
      BY <2>1, <3>1 DEF TxInv, Order
  <2>3. CASE i > Len(tx)
    <3>1. i - Len(tx) \in 1 .. InFlight
      BY <1>1, <1>3, <1>5, <2>3, Lengths
    <3>2. (tx \o rest)[i] = rest[i - Len(tx)]
      BY <1>2, <1>4, <1>5, <2>3, <3>1, Lengths, ConcatProperties
    <3>3. rest[i - Len(tx)] = Len(hostLog) + i
      BY <1>2, <3>1, <1>5, <1>3, Lengths
    <3> QED
      BY <2>1, <3>2, <3>3
  <2> QED
    <3>1. i \in Nat /\ Len(tx) \in Nat
      BY <1>1, <1>3, <1>5, Lengths
    <3>2. i <= Len(tx) \/ i > Len(tx)
      BY <3>1
    <3> QED
      BY <2>2, <2>3, <3>2, Zenon
<1>6. tx \o rest = owed
  BY <1>3, <1>4, <1>5, SeqEqual
<1> QED
  BY <1>6 DEF rest, owed, HostOwed

LEMMA HostOwedNext == (TypeInv /\ TxInv => HostOwed = Owed(Len(hostLog), written))'
BY HostOwedIs, PTL

LEMMA TxLineInit == Init /\ TypeInv /\ TxInv => TxLine!Init
<1> SUFFICES ASSUME Init, TypeInv, TxInv PROVE TxLine!Init
  OBVIOUS
<1>1. hostLog = <<>> /\ written = 0
  BY Zenon DEF Init
<1>2. HostOwed = Owed(0, 0)
  BY <1>1, HostOwedIs
<1> QED
  BY <1>1, <1>2, OwedNone DEF TxLine!Init, Newest

LEMMA TxLinePut ==
    ASSUME TypeInv, TxInv, TypeInv', TxInv', WriteData
    PROVE  TxLine!Put(written + 1) /\ written + 1 \in 1 .. MaxWrites
<1>1. /\ access = NoAccess /\ seen.tdre /\ written < MaxWrites
      /\ written' = written + 1 /\ hostLog' = hostLog
  BY Zenon DEF WriteData, GuestLeaves, core0Vars
<1>2. written - Len(hostLog) = Len(tx) + One(pc = "gt.put")
  BY <1>1, TxOwes
<1>3. Len(tx) + One(pc = "gt.put") <= CtsThreshold + 1
  BY <1>1 DEF TxInv, Room, Granted
<1>o. /\ HostOwed = Owed(Len(hostLog), written)
      /\ HostOwed' = Owed(Len(hostLog), written)'
  BY HostOwedIs, HostOwedNext
<1>4. Len(HostOwed) < (CtsThreshold + 3) - 1
  <2>1. Len(Owed(Len(hostLog), written)) = written - Len(hostLog)
    BY TxOwes, OwedIs, Zenon
  <2>2. One(pc = "gt.put") \in Nat
    BY DEF One
  <2> QED
    BY <1>o, <1>2, <1>3, <2>1, <2>2, TxOwes, Lengths
<1>5. HostOwed' = Append(HostOwed, written + 1)
  <2>1. Owed(Len(hostLog), written + 1) = Append(Owed(Len(hostLog), written), written + 1)
    BY TxOwes, OwedMore, Zenon
  <2> QED
    BY <1>o, <1>1, <2>1
<1>6. UNCHANGED Newest(hostLog)
  BY <1>1
<1>7. written + 1 \in 1 .. MaxWrites
  BY <1>1, TxOwes, AciaAssumption
<1> QED
  BY <1>4, <1>5, <1>6, <1>7 DEF TxLine!Put

LEMMA TxLineGet ==
    ASSUME TypeInv, TxInv, TypeInv', TxInv', HostReceive
    PROVE  TxLine!Get
<1>o. /\ HostOwed = Owed(Len(hostLog), written)
      /\ HostOwed' = Owed(Len(hostLog), written)'
  BY HostOwedIs, HostOwedNext
<1>1. tx # <<>> /\ hostLog' = Append(hostLog, Head(tx)) /\ written' = written
  BY Zenon DEF HostReceive, Core0Leaves, guest
<1>2. /\ Len(tx) > 0 /\ Head(tx) = tx[1] /\ Head(tx) \in Nat
      /\ hostLog \in Seq(Nat) /\ Len(hostLog') = Len(hostLog) + 1
  BY <1>1, Lengths
<1>3. tx[1] = Len(hostLog) + 1
  BY <1>2, Lengths DEF TxInv, Order
<1>4. Len(hostLog) < written
  BY <1>2, TxOwes
<1>5. /\ Owed(Len(hostLog), written) # <<>>
      /\ Head(Owed(Len(hostLog), written)) = Len(hostLog) + 1
      /\ Tail(Owed(Len(hostLog), written)) = Owed(Len(hostLog) + 1, written)
  BY <1>4, TxOwes, OwedFewer
<1>6. Newest(hostLog)' = Head(HostOwed)
  BY <1>o, <1>1, <1>2, <1>3, <1>5, NewestOfAppend
<1>7. HostOwed' = Tail(HostOwed)
  BY <1>o, <1>1, <1>2, <1>5
<1> QED
  BY <1>o, <1>5, <1>6, <1>7 DEF TxLine!Get

(* Nothing else is seen of the line from its ends.                         *)
LEMMA TxLineStutter ==
    ASSUME [Next]_vars, ~WriteData, ~HostReceive
    PROVE  UNCHANGED <<hostLog, written>>
<1>1. CASE Thread
  BY <1>1, Zenon DEF Thread, Edge, HiTest, RefreshTbe, RefreshCts, HiStage, HiFull, StageByte,
     HiReceiveIrq, HiTransmitIrq, HiReturn, SyncBuild, SyncCompare, SyncPublish, Drain,
     GuestControl, ResetFields, ResetQueues, ResetStatusReg, ResetCached, TransmitAck, TransmitPut,
     TransmitClose, TransmitCloseIrq, Reads, ReceiveDrop, ReceiveStage, ReceiveEnd,
     ReceiveReturn, RestOfThread, guest, core0Vars
<1>2. CASE Isr \/ QEdge
  BY <1>2, Zenon DEF Isr, RxReadIsr, TxWriteIsr, ControlIsr, IsrLeaves, QEdge, core0Vars, guest
<1>3. CASE Core0 /\ ~HostReceive
  BY <1>3, Zenon DEF Core0, PumpReads, HostTransmit, HostTransmitDirty, BatchEnds, SetHostCts,
     SetHostCtsDirty, Core0Leaves, guest
<1>4. CASE Guest /\ ~WriteData
  BY <1>4, Zenon DEF Guest, ReadStatus, ReadData, WriteControl, GuestLeaves, core0Vars
<1>5. CASE UNCHANGED vars
  BY <1>5, Zenon DEF vars, guest, core0Vars
<1> QED
  BY <1>1, <1>2, <1>3, <1>4, <1>5, Zenon DEF Next

LEMMA TxLineStep ==
    ASSUME TypeInv, TxInv, TypeInv', TxInv', [Next]_vars
    PROVE  [TxLine!Next]_TxLine!fifoVars
<1>1. CASE WriteData
  BY <1>1, TxLinePut, Zenon DEF TxLine!Next
<1>2. CASE HostReceive
  BY <1>2, TxLineGet, Zenon DEF TxLine!Next
<1>3. CASE ~WriteData /\ ~HostReceive
  <2>1. UNCHANGED <<hostLog, written>>
    BY <1>3, TxLineStutter
  <2>2. /\ HostOwed = Owed(Len(hostLog), written)
        /\ HostOwed' = Owed(Len(hostLog), written)'
    BY HostOwedIs, HostOwedNext
  <2> QED
    BY <2>1, <2>2 DEF TxLine!fifoVars
<1> QED
  BY <1>1, <1>2, <1>3

(* From a guest that polls TDRE to the USB host, the port is the bounded     *)
(* FIFO that its queue alone is: handler, write ring, loop and flow control *)
(* add no disorder, and no more than two bytes to CTS_THRESHOLD.           *)
THEOREM TxRefinesFifo == OneWriter /\ Spec => TxIsFifo
<1>1. CASE OneWriter
  <2>1. TypeInv /\ PlainInv /\ TxInv /\ [Next]_vars => TxInv'
    BY <1>1, TxStep
  <2>2. TypeInv /\ PlainInv /\ [Next]_vars => PlainInv'
    BY <1>1, PlainStep DEF OneWriter
  <2>3. TypeInv /\ TxInv /\ TypeInv' /\ TxInv' /\ [Next]_vars => [TxLine!Next]_TxLine!fifoVars
    BY TxLineStep
  <2> QED
    BY <2>1, <2>2, <2>3, TypeInit, TypeStep, PlainInit, TxInit, TxLineInit, PTL
       DEF Spec, TxIsFifo, TxLine!Spec
<1>2. CASE ~OneWriter
  BY <1>2, PTL
<1> QED
  BY <1>1, <1>2

-----------------------------------------------------------------------------
(* What the guest is owed: the data register's byte, unless it was read, and *)
(* rx.                                                                     *)
LEMMA RxOwes ==
    ASSUME TypeInv, RxInv
    PROVE  /\ sent \in Nat /\ Len(guestLog) \in Nat /\ Len(rx) \in Nat
           /\ Len(guestLog) <= sent
           /\ sent - Len(guestLog) = One(Unread) + Len(rx)
<1>1. sent = Len(guestLog) + One(Unread) + Len(rx)
  BY DEF RxInv, InTurn, Had
<1>2. One(Unread) \in Nat
  BY DEF One
<1>3. Len(guestLog) <= sent
  BY <1>1, <1>2, RxLengths
<1> QED
  BY <1>1, <1>2, <1>3, RxLengths

LEMMA GuestOwedIs == TypeInv /\ RxInv => GuestOwed = Owed(Len(guestLog), sent)
<1> SUFFICES ASSUME TypeInv, RxInv PROVE GuestOwed = Owed(Len(guestLog), sent)
  OBVIOUS
<1> DEFINE first == IF Unread THEN <<data>> ELSE <<>>
           owed == Owed(Len(guestLog), sent)
<1>1. /\ first \in Seq(Nat) /\ Len(first) = One(Unread)
      /\ Unread => first[1] = data
  BY RxLengths DEF One
<1>2. /\ owed \in Seq(Nat) /\ Len(owed) = sent - Len(guestLog)
      /\ \A i \in 1 .. sent - Len(guestLog) : owed[i] = Len(guestLog) + i
  BY RxOwes, OwedIs, Zenon
<1> HIDE DEF first, owed
<1>3. first \o rx \in Seq(Nat) /\ Len(first \o rx) = Len(owed)
  <2>1. first \o rx \in Seq(Nat) /\ Len(first \o rx) = Len(first) + Len(rx)
    BY <1>1, RxLengths, ConcatProperties
  <2> QED
    BY <1>1, <1>2, <2>1, RxOwes
<1>4. ASSUME NEW i \in 1 .. Len(owed) PROVE (first \o rx)[i] = owed[i]
  <2>1. owed[i] = Len(guestLog) + i
    BY <1>2, <1>4
  <2>2. CASE i <= Len(first)
    <3>1. Unread /\ i = 1
      BY <1>1, <1>4, <2>2 DEF One
    <3>2. (first \o rx)[i] = data
      BY <1>1, <3>1, RxLengths, ConcatProperties DEF One
    <3> QED
      BY <2>1, <3>1, <3>2 DEF RxInv, InTurn, Had, One
  <2>3. CASE i > Len(first)
    <3>1. i - Len(first) \in 1 .. Len(rx)
      BY <1>1, <1>2, <1>4, <2>3, RxOwes
    <3>2. (first \o rx)[i] = rx[i - Len(first)]
      BY <1>1, <1>4, <2>3, <3>1, RxLengths, ConcatProperties
    <3>3. rx[i - Len(first)] = Had + (i - Len(first))
      BY <3>1 DEF RxInv, InTurn
    <3>4. Had = Len(guestLog) + Len(first)
      BY <1>1 DEF Had
    <3> QED
      BY <2>1, <3>1, <3>2, <3>3, <3>4, <1>1, <1>4, RxLengths
  <2> QED
    <3>1. i \in Nat /\ Len(first) \in Nat
      BY <1>1, <1>2, <1>4, RxOwes
    <3>2. i <= Len(first) \/ i > Len(first)
      BY <3>1
    <3> QED
      BY <2>2, <2>3, <3>2, Zenon
<1>5. first \o rx = owed
  BY <1>2, <1>3, <1>4, SeqEqual
<1> QED
  BY <1>5 DEF first, owed, GuestOwed

LEMMA GuestOwedNext == (TypeInv /\ RxInv => GuestOwed = Owed(Len(guestLog), sent))'
BY GuestOwedIs, PTL

LEMMA RxLineInit == Init /\ TypeInv /\ RxInv => RxLine!Init
<1> SUFFICES ASSUME Init, TypeInv, RxInv PROVE RxLine!Init
  OBVIOUS
<1>1. guestLog = <<>> /\ sent = 0
  BY Zenon DEF Init
<1>2. GuestOwed = Owed(0, 0)
  BY <1>1, GuestOwedIs
<1> QED
  BY <1>1, <1>2, OwedNone DEF RxLine!Init, Newest

LEMMA RxLinePut ==
    ASSUME TypeInv, RxInv, TypeInv', RxInv', HostTransmit
    PROVE  RxLine!Put(sent + 1) /\ sent + 1 \in 1 .. MaxSends
<1>1. /\ sent < MaxSends /\ Len(rx) < QueueMax
      /\ sent' = sent + 1 /\ guestLog' = guestLog
  BY Zenon DEF HostTransmit, Core0Leaves, guest
<1>o. /\ GuestOwed = Owed(Len(guestLog), sent)
      /\ GuestOwed' = Owed(Len(guestLog), sent)'
  BY GuestOwedIs, GuestOwedNext
<1>2. Len(GuestOwed) < (QueueMax + 2) - 1
  <2>1. Len(Owed(Len(guestLog), sent)) = sent - Len(guestLog)
    BY RxOwes, OwedIs, Zenon
  <2>2. One(Unread) \in {0, 1}
    BY DEF One
  <2> QED
    BY <1>o, <1>1, <2>1, <2>2, RxOwes, AciaAssumption
<1>3. GuestOwed' = Append(GuestOwed, sent + 1)
  <2>1. Owed(Len(guestLog), sent + 1) = Append(Owed(Len(guestLog), sent), sent + 1)
    BY RxOwes, OwedMore, Zenon
  <2> QED
    BY <1>o, <1>1, <2>1
<1>4. UNCHANGED Newest(guestLog)
  BY <1>1
<1>5. sent + 1 \in 1 .. MaxSends
  BY <1>1, RxOwes, AciaAssumption
<1> QED
  BY <1>2, <1>3, <1>4, <1>5 DEF RxLine!Put

LEMMA RxLineGet ==
    ASSUME TypeInv, RxInv, TypeInv', RxInv', ReadData
    PROVE  RxLine!Get
<1>o. /\ GuestOwed = Owed(Len(guestLog), sent)
      /\ GuestOwed' = Owed(Len(guestLog), sent)'
  BY GuestOwedIs, GuestOwedNext
<1>1. seen.rdrf /\ guestLog' = Append(guestLog, data) /\ sent' = sent
  BY Zenon DEF ReadData, GuestLeaves, core0Vars
<1>2. Unread
  BY <1>1 DEF RxInv, Offered
<1>3. data = Len(guestLog) + 1
  BY <1>2 DEF RxInv, InTurn, Had, One
<1>4. Len(guestLog) < sent
  BY <1>2, RxOwes DEF One
<1>5. guestLog \in Seq(Nat) /\ data \in Nat /\ Len(guestLog') = Len(guestLog) + 1
  BY <1>1, RxLengths
<1>6. /\ Owed(Len(guestLog), sent) # <<>>
      /\ Head(Owed(Len(guestLog), sent)) = Len(guestLog) + 1
      /\ Tail(Owed(Len(guestLog), sent)) = Owed(Len(guestLog) + 1, sent)
  BY <1>4, RxOwes, OwedFewer
<1>7. Newest(guestLog)' = Head(GuestOwed)
  BY <1>o, <1>1, <1>3, <1>5, <1>6, NewestOfAppend
<1>8. GuestOwed' = Tail(GuestOwed)
  BY <1>o, <1>1, <1>5, <1>6
<1> QED
  BY <1>o, <1>6, <1>7, <1>8 DEF RxLine!Get

LEMMA RxLineStutter ==
    ASSUME [Next]_vars, ~HostTransmit, ~ReadData
    PROVE  UNCHANGED <<guestLog, sent>>
<1>1. CASE Thread
  BY <1>1, Zenon DEF Thread, Edge, HiTest, RefreshTbe, RefreshCts, HiStage, HiFull, StageByte,
     HiReceiveIrq, HiTransmitIrq, HiReturn, SyncBuild, SyncCompare, SyncPublish, Drain,
     GuestControl, ResetFields, ResetQueues, ResetStatusReg, ResetCached, TransmitAck, TransmitPut,
     TransmitClose, TransmitCloseIrq, Reads, ReceiveDrop, ReceiveStage, ReceiveEnd,
     ReceiveReturn, RestOfThread, guest, core0Vars
<1>2. CASE Isr \/ QEdge
  BY <1>2, Zenon DEF Isr, RxReadIsr, TxWriteIsr, ControlIsr, IsrLeaves, QEdge, core0Vars, guest
<1>3. CASE Core0 /\ ~HostTransmit
  BY <1>3, Zenon DEF Core0, PumpReads, HostReceive, HostTransmitDirty, BatchEnds, SetHostCts,
     SetHostCtsDirty, Core0Leaves, guest
<1>4. CASE Guest /\ ~ReadData
  BY <1>4, Zenon DEF Guest, ReadStatus, WriteData, WriteControl, GuestLeaves, core0Vars
<1>5. CASE UNCHANGED vars
  BY <1>5, Zenon DEF vars, guest, core0Vars
<1> QED
  BY <1>1, <1>2, <1>3, <1>4, <1>5, Zenon DEF Next

LEMMA RxLineStep ==
    ASSUME TypeInv, RxInv, TypeInv', RxInv', [Next]_vars
    PROVE  [RxLine!Next]_RxLine!fifoVars
<1>1. CASE HostTransmit
  BY <1>1, RxLinePut, Zenon DEF RxLine!Next
<1>2. CASE ReadData
  BY <1>2, RxLineGet, Zenon DEF RxLine!Next
<1>3. CASE ~HostTransmit /\ ~ReadData
  <2>1. UNCHANGED <<guestLog, sent>>
    BY <1>3, RxLineStutter
  <2>2. /\ GuestOwed = Owed(Len(guestLog), sent)
        /\ GuestOwed' = Owed(Len(guestLog), sent)'
    BY GuestOwedIs, GuestOwedNext
  <2> QED
    BY <2>1, <2>2 DEF RxLine!fifoVars
<1> QED
  BY <1>1, <1>2, <1>3

(* From the host to a guest that polls RDRF and keeps RTS on, the port is a  *)
(* bounded FIFO of rx and one byte more, whichever of the two places stages *)
(* that byte.                                                              *)
THEOREM RxRefinesFifo == OneReader /\ Spec => RxIsFifo
<1>1. CASE OneReader
  <2>1. TypeInv /\ PlainInv /\ RxInv /\ [Next]_vars => RxInv'
    BY <1>1, RxStep
  <2>2. TypeInv /\ PlainInv /\ [Next]_vars => PlainInv'
    BY <1>1, PlainStep DEF OneReader
  <2>3. TypeInv /\ RxInv /\ TypeInv' /\ RxInv' /\ [Next]_vars => [RxLine!Next]_RxLine!fifoVars
    BY RxLineStep
  <2> QED
    BY <2>1, <2>2, <2>3, TypeInit, TypeStep, PlainInit, RxInit, RxLineInit, PTL
       DEF Spec, RxIsFifo, RxLine!Spec
<1>2. CASE ~OneReader
  BY <1>2, PTL
<1> QED
  BY <1>1, <1>2

=============================================================================
