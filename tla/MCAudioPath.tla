------------------------------ MODULE MCAudioPath ------------------------------
(***************************************************************************)
(* A small instance of the engine with its sample FIFO for TLC.            *)
(***************************************************************************)
EXTENDS AudioPath

Ctrl(patt, att, dec, psus, sus, rel) ==
  [r \in 0 .. 15 |->
     CASE r = 0 -> patt [] r = 1 -> att [] r = 2 -> dec
       [] r = 3 -> psus [] r = 4 -> sus [] r = 5 -> rel [] OTHER -> 0]

MCUnitF == [k \in 0 .. NumKeys - 1 |-> 1]

(* Two keys, so that a scan has a middle, of two strikes to the peak, one  *)
(* step of decay and one of release, with the pedal at any clock.          *)
MCVoiceCtrl == Ctrl(2, 1, 1, 1, 0, 1)
MCPedal     == {6} \X {0, PedalOn}

(* The premises of theorem StreamUnbroken hold of this instance.           *)
ASSUME NoBendSettings == NoBend /\ Unbent(CtrlInit)
=============================================================================
