------------------------------ MODULE MCSynthIP ------------------------------
(***************************************************************************)
(* Small instances of the engine for TLC.                                  *)
(***************************************************************************)
EXTENDS SynthIP

(* Control files: registers not named are zero.                            *)
Ctrl(patt, att, dec, psus, sus, rel) ==
  [r \in 0 .. 15 |->
     CASE r = 0 -> patt [] r = 1 -> att [] r = 2 -> dec
       [] r = 3 -> psus [] r = 4 -> sus [] r = 5 -> rel [] OTHER -> 0]

MCUnitF == [k \in 0 .. NumKeys - 1 |-> 1]

(* An envelope of several steps a stage, with an attack that overshoots its*)
(* peak and, struck again and again, wraps; pedal and bend at any clock.   *)
MCFrameCtrl == Ctrl(8, 3, 2, 4, 1, 2)
MCPedalBend == {6, 11} \X {0, 1}

(* The premises of theorem QuietDecay hold of this instance.               *)
ASSUME GentleSettings == EnvelopeAtRest /\ Gentle(CtrlInit)
=============================================================================
