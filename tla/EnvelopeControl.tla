-------------------------- MODULE EnvelopeControl --------------------------
(***************************************************************************)
(* The firmware with the control registers it sets, at the real scale of   *)
(* its arithmetic: knobs are turned in any order, and each poll's register *)
(* writes reach the bus one by one before the next poll.                   *)
(***************************************************************************)
EXTENDS MidiFirmware

VARIABLE CTRL   \* the control registers, as the software sees them

ctlVars == <<fwVars, CTRL>>

CtlInit == FwInit /\ CTRL = [r \in 0 .. 15 |-> 0]

Turn == MIDI_poll /\ UNCHANGED CTRL

(* The processor's next access; one to a key leaves CTRL alone.            *)
BusWrite ==
  /\ todo # << >>
  /\ CTRL' = IF Head(todo).acc = "ctrl" THEN [CTRL EXCEPT ![Head(todo).reg] = Head(todo).val]
                                       ELSE CTRL
  /\ todo' = Tail(todo)
  /\ UNCHANGED <<globals, ped_flip, controller>>

CtlNext == Turn \/ BusWrite

CtlSpec == CtlInit /\ [][CtlNext]_ctlVars

-----------------------------------------------------------------------------
(* The six registers as calc_adsr() computed them together.                *)
Envelope == [i \in 1 .. 6 |-> CTRL[i - 1]]

(* Between two polls the envelope registers are one consistent setting, of *)
(* the lengths and amplitudes the knobs stand at, uncut by the bus's width,*)
(* unless these lengths are refused.                                       *)
SettingsCurrent ==
  todo = << >> /\ Accepted(globals) => Envelope \in Settings(globals)

(* Between two polls, in whatever order knobs were accepted and refused,   *)
(* the registers fit one another: the sustain level is not above the peak, *)
(* a decay step does not pass it, and a sustain step fits where a release  *)
(* step does.                                                              *)
SettingsFit ==
  todo = << >> =>
    /\ CTRL[3] <= CTRL[0]
    /\ CTRL[2] <= CTRL[0] - CTRL[3]
    /\ CTRL[4] <= CTRL[5]
    /\ CTRL[5] <= CTRL[3]
=============================================================================
