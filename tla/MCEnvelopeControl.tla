------------------------- MODULE MCEnvelopeControl -------------------------
(***************************************************************************)
(* The knobs at the real constants of the firmware.                        *)
(***************************************************************************)
EXTENDS EnvelopeControl

(* main.cpp: 10, 30, 3000 and 80 ms, amplitudes 1.1 and 0.8.               *)
MCGlobals0 == [k \in Knobs |->
  CASE k = "att_l" -> 10 [] k = "dec_l" -> 30 [] k = "sus_l" -> 3000 [] k = "rel_l" -> 80
    [] k = "peak_att" -> 1397 [] k = "peak_sus" -> 1016 [] OTHER -> 0]
MCRange == [t \in Times |->
  CASE t \in {"att_h", "dec_h"} -> 5000 [] t \in {"att_l", "dec_l"} -> 200
    [] t = "sus_h" -> 20000 [] t = "sus_l" -> 800 [] t = "rel_h" -> 10000 [] t = "rel_l" -> 400]
MCLimit == [att |-> 5000, dec |-> 5000, sus |-> 20000, rel |-> 10000]
MCSlack == {-1, 0, 1}
MCNotes == 0 .. 127

Knob(k, pars) == {[type |-> "knob", knob |-> k, par |-> p] : p \in pars}

(* Lengths that are refused, zero, middling, or the longest there are.     *)
MCTurns == Knob("dec_l", {0}) \cup Knob("sus_h", {64, 127}) \cup Knob("rel_h", {0, 64, 127})
             \cup Knob("rel_l", {0}) \cup Knob("peak_att", {0, 127}) \cup Knob("peak_sus", {0, 1, 127})
=============================================================================
