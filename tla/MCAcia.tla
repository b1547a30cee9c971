------------------------------- MODULE MCAcia -------------------------------
(* Instances of Acia for TLC: the sets of control words and the windows of  *)
(* the runs.                                                                *)
EXTENDS Acia

Word(d, t, r) == [divide |-> d, tx |-> t, rx |-> r]

(* Interrupts anywhere; none between the thread's reading of the fields and *)
(* its publishing of the status byte, nor between RDRF and data.            *)
Anywhere == {}
NotInUpdate == {"sync.compare", "sync.publish", "hi.data", "gr.data"}

NoControls == {}

(* The two loopbacks, with the receive interrupt on.                        *)
Loopbacks == {Word("div64", "off", TRUE), Word("run", "break", TRUE)}

(* Both interrupts on, RTS off, and a master reset.                         *)
Modes == {Word("run", "irq", TRUE), Word("run", "rts_off", FALSE),
          Word("reset", "off", FALSE)}
=============================================================================
