--------------------------- MODULE MCSynthSystem ---------------------------
(***************************************************************************)
(* Small instances of the firmware with the engine for TLC.  An envelope   *)
(* of two or three samples a stage: the time knobs go up to 2 ms at 1000   *)
(* samples a second, and amplitude 1.0 is 4.                               *)
(***************************************************************************)
EXTENDS SynthSystem

Knob0(t) == [k \in Knobs |->
  CASE k = "peak_att" -> 127 [] k = "peak_sus" -> 64 [] k \in DOMAIN t -> t[k] [] OTHER -> 0]

MCKeys     == 0 .. NumKeys - 1
MCUnitF    == [k \in MCKeys |-> 1]
MCGlobals0 == Knob0([att_l |-> 2, dec_l |-> 2, sus_l |-> 2, rel_l |-> 1])
MCSlowRel  == Knob0([att_l |-> 2, dec_l |-> 2, sus_l |-> 2, rel_l |-> 2])
MCRange    == [t \in Times |-> 2]
MCLimit    == [s \in {"att", "dec", "sus", "rel"} |-> 4]
MCNoSlack  == {0}
MCZero     == [r \in 0 .. 15 |-> 0]

(* What the firmware may write: the envelope, the pedal as it comes or     *)
(* complemented, and the wheels.                                           *)
MCEnvelopeWrites == ((0 .. 6) \X Steps) \cup ({11, 12} \X {0})
MCCtrlWrites == ((0 .. 5) \X Steps) \cup ({6} \X {0, 64, 63, 127})

(* Notes: a note on, a note off with velocity 0, and a note for channel 1. *)
Note(type, channel, note, vel) ==
  [type |-> type, channel |-> channel, note |-> note, vel |-> vel]
Strikes  == {Note("note_on", 0, k, 64) : k \in MCKeys}
Releases == {Note("note_off", 0, k, 0) : k \in MCKeys}
Pedals   == {[type |-> "pedal", channel |-> 0, par |-> p] : p \in {0, PedalOn}}
Flips    == {[type |-> "flip", channel |-> 1, par |-> p] : p \in {0, 127}}
Faster   == {[type |-> "knob", knob |-> "rel_l", par |-> 0]}
Elsewhere == {Note("note_on", 1, 0, 64), Note("note_on", 0, NumKeys, 64), [type |-> "other"]}

(* The wheels and their switches at rest: no property reads them.          *)
Wheels == {[type |-> "switch", channel |-> 0, reg |-> 11, par |-> 0],
           [type |-> "bend", channel |-> 0, val |-> 8192]}

MCPlay    == Strikes \cup Releases \cup Elsewhere
MCPlayAll == MCPlay \cup Wheels \cup Pedals \cup Flips
MCHardOff == Strikes \cup {Note("note_off", 0, k, 64) : k \in MCKeys}
MCKnobs   == Strikes \cup Releases \cup Faster
=============================================================================
