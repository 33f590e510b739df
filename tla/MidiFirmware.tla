---------------------------- MODULE MidiFirmware ----------------------------
(***************************************************************************)
(* The firmware's main loop once the USB device runs: MIDI_poll() of       *)
(* main.cpp with set_note(), set_ctrl() and calc_adsr() of                 *)
(* audio_synth.cpp, and the controller at the other end of the cable.      *)
(*                                                                         *)
(* A poll takes one packet from the USB driver and turns its first event   *)
(* into the bus accesses of todo, which the processor then makes one by    *)
(* one while the engine runs; what the software does between two accesses  *)
(* is not visible to the engine.                                           *)
(***************************************************************************)
EXTENDS CalcAdsr, Sequences, FiniteSets

CONSTANTS
  Notes,       \* note numbers the engine has a voice for: 0..127
  RegMod,      \* the bus keeps the low 20 bits of a control register's data
  Events,      \* events the controller may send
  MaxEvents,   \* events the controller may put into one USB packet
  PedalMin,    \* the pedal's parameter from which it is down: 64
  Globals0     \* the initial globals of main.cpp

ASSUME FirmwareAssumption ==
  /\ Notes \subseteq Nat
  /\ RegMod \in Nat \ {0}
  /\ MaxEvents \in Nat \ {0}
  /\ PedalMin \in Nat \ {0}
  /\ Globals0 \in [Knobs -> Nat]

(* What a status byte, a control number and two 7-bit parameters can say,  *)
(* by the branch of MIDI_poll() that takes it.  The switches' registers are*)
(* MOD_ON to BEND_ON of audio_synth.h; a bend is put together from both    *)
(* parameters.                                                             *)
Pars       == 0 .. ParMax
Channels   == 0 .. 15
MidiEvents ==
  [type : {"note_on", "note_off"}, channel : Channels, note : Pars, vel : Pars]
    \cup [type : {"switch"}, channel : Channels, reg : 7 .. 11, par : Pars]
    \cup [type : {"pedal", "flip"}, channel : Channels, par : Pars]
    \cup [type : {"knob"}, knob : Knobs, par : Pars]
    \cup [type : {"bend"}, channel : Channels, val : Nat]
    \cup [type : {"other"}]

ASSUME EventAssumption == Events \subseteq MidiEvents

(* The widest registers: the capped peak, and the truncated sum of two     *)
(* amplitudes below the cap, fit the width the bus keeps.                  *)
ASSUME RegisterAssumption ==
  /\ PEAK_CAP < RegMod
  /\ \A peak \in 0 .. 2 * PeakDen - 1, e \in Slack : (peak * AMP_ONE) \div PeakDen + e < RegMod

VARIABLES
  globals,     \* att_h .. rel_l, peak_att, peak_sus
  ped_flip,    \* the pedal is inverted
  todo,        \* bus accesses still to be made, in order
  keyDown,     \* the controller's own keys of channel 0
  pedalDown,   \* where its pedal is, by the last it said of it
  inverted     \* it has said that its pedal reads low when it is down

controller == <<keyDown, pedalDown, inverted>>
fwVars == <<globals, ped_flip, todo, controller>>

(* Control registers by number (audio_synth.h).                            *)
RegSUS  == 6
RegBEND == 12

(* The accesses of the processor to the engine.                            *)
Press(key, vel)    == [acc |-> "press", key |-> key, vel |-> vel]
Read(key)          == [acc |-> "read", key |-> key]
WriteBack(key)     == [acc |-> "back", key |-> key]

SetReg(reg, value) == [acc |-> "ctrl", reg |-> reg, val |-> value % RegMod]

(* Mutant: notes of every channel are played.                              *)
AnyChannel(channel, note, vel) ==
  IF note \notin Notes THEN << >>
  ELSE IF vel = 0 THEN <<Read(note), WriteBack(note)>>
  ELSE <<Press(note, vel)>>

(* set_note(): velocity 0 releases the note by writing back the velocity   *)
(* it reads, whose play bit reads as 0; any other velocity strikes it.     *)
set_note(channel, note, vel) ==
  IF channel # 0 \/ note \notin Notes THEN << >>
  ELSE IF vel = 0 THEN <<Read(note), WriteBack(note)>>
  ELSE <<Press(note, vel)>>

set_ctrl(channel, par, val) == IF channel = 0 THEN <<SetReg(par, val)>> ELSE << >>

(* calc_adsr(): nothing when the lengths are refused, else the six envelope*)
(* registers one after another.                                            *)
calc_adsr(g) ==
  IF ~Accepted(g) THEN {<< >>}
  ELSE {[i \in 1 .. 6 |-> SetReg(i - 1, s[i])] : s \in Settings(g)}

-----------------------------------------------------------------------------
(* What MIDI_poll() does with an event, by the kind of its status byte and *)
(* control number.  NOTE_OFF and NOTE_ON share a branch.                   *)
OnNote(e) ==
  /\ e.type \in {"note_on", "note_off"}
  /\ todo' = set_note(e.channel, e.note, e.vel)
  /\ UNCHANGED <<globals, ped_flip>>

(* MOD_WHEEL, MOD_WHEEL_ON, SAMPLE_1_SEL, SAMPLE_2_SEL and BEND_ON_ pass   *)
(* their parameter to the register of their own.                           *)
OnSwitch(e) ==
  /\ e.type = "switch"
  /\ todo' = set_ctrl(e.channel, e.reg, e.par)
  /\ UNCHANGED <<globals, ped_flip>>

(* Mutant: the pedal's inversion is not looked at.                         *)
OnPedalAsSent(e) ==
  /\ e.type = "pedal"
  /\ todo' = set_ctrl(e.channel, RegSUS, e.par)
  /\ UNCHANGED <<globals, ped_flip>>

(* Mutant: a number is negated where its bits should be.                   *)
OnPedalNegated(e) ==
  /\ e.type = "pedal"
  /\ todo' = set_ctrl(e.channel, RegSUS, IF ped_flip THEN -e.par ELSE e.par)
  /\ UNCHANGED <<globals, ped_flip>>

(* ~long_par is a 32-bit complement, of which the bus keeps the low bits.  *)
OnPedal(e) ==
  /\ e.type = "pedal"
  /\ todo' = set_ctrl(e.channel, RegSUS, IF ped_flip THEN -1 - e.par ELSE e.par)
  /\ UNCHANGED <<globals, ped_flip>>

(* The conversion to bool of any channel's parameter: TRUE unless zero.    *)
OnFlip(e) ==
  /\ e.type = "flip"
  /\ ped_flip' = (e.par # 0)
  /\ todo' = << >>
  /\ UNCHANGED globals

(* Mutant: the lengths of before the turn.                                 *)
OnKnobLate(e) ==
  /\ e.type = "knob"
  /\ globals' = [globals EXCEPT ![e.knob] = KnobValue(e.knob, e.par)]
  /\ todo' \in calc_adsr(globals)
  /\ UNCHANGED ped_flip

(* A knob changes its global before calc_adsr() may refuse the lengths.    *)
OnKnob(e) ==
  /\ e.type = "knob"
  /\ globals' = [globals EXCEPT ![e.knob] = KnobValue(e.knob, e.par)]
  /\ todo' \in calc_adsr(globals')
  /\ UNCHANGED ped_flip

OnBend(e) ==
  /\ e.type = "bend"
  /\ todo' = set_ctrl(e.channel, RegBEND, e.val)
  /\ UNCHANGED <<globals, ped_flip>>

(* Volume goes to the codec; every other event is ignored.                 *)
OnOther(e) ==
  /\ e.type = "other"
  /\ UNCHANGED <<globals, ped_flip, todo>>

(* The controller's keys after a packet it sent: the last event about a    *)
(* key says where it is.                                                   *)
KeysAfter(down, packet) ==
  [k \in Notes |->
     LET about == {i \in DOMAIN packet : /\ packet[i].type \in {"note_on", "note_off"}
                                         /\ packet[i].channel = 0 /\ packet[i].note = k}
         last  == packet[CHOOSE i \in about : \A j \in about : j <= i]
     IN  IF about = {} THEN down[k] ELSE last.type = "note_on" /\ last.vel > 0]

(* Whether its pedal reads low when it is down, after the first n events of*)
(* the packet; the switch has no channel of its own.                       *)
InvertedAfter(inv, packet, n) ==
  LET about == {i \in 1 .. n : packet[i].type = "flip"}
  IN  IF about = {} THEN inv ELSE packet[CHOOSE i \in about : \A j \in about : j <= i].par # 0

(* Where its pedal is: the last parameter sent for it says so, by the      *)
(* inversion it was sent under.  A later inversion is about later ones.    *)
PedalAfter(down, inv, packet) ==
  LET about == {i \in DOMAIN packet : packet[i].type = "pedal" /\ packet[i].channel = 0}
      last  == CHOOSE i \in about : \A j \in about : j <= i
  IN  IF about = {} THEN down
      ELSE (packet[last].par >= PedalMin) # InvertedAfter(inv, packet, last)

(* One pass of the main loop that finds a packet: only the first four      *)
(* bytes, its first event, are looked at.                                  *)
MIDI_poll ==
  /\ todo = << >>
  /\ \E n \in 1 .. MaxEvents : \E packet \in [1 .. n -> Events] :
       /\ LET e == packet[1]
          IN  OnNote(e) \/ OnSwitch(e) \/ OnPedal(e) \/ OnFlip(e) \/ OnKnob(e)
                \/ OnBend(e) \/ OnOther(e)
       /\ keyDown' = KeysAfter(keyDown, packet)
       /\ pedalDown' = PedalAfter(pedalDown, inverted, packet)
       /\ inverted' = InvertedAfter(inverted, packet, n)

(* main() calls calc_adsr() once before it starts USB.                     *)
FwInit ==
  /\ globals = Globals0
  /\ ped_flip = FALSE
  /\ todo \in calc_adsr(Globals0)
  /\ keyDown = [k \in Notes |-> FALSE]
  /\ pedalDown = FALSE
  /\ inverted = FALSE

Accesses ==
  [acc : {"press"}, key : Notes, vel : Nat] \cup [acc : {"read", "back"}, key : Notes]
    \cup [acc : {"ctrl"}, reg : 0 .. 15, val : 0 .. RegMod - 1]

FwTypeOK ==
  /\ globals \in [Knobs -> Nat]
  /\ ped_flip \in BOOLEAN
  /\ todo \in Seq(Accesses) /\ Len(todo) <= 6
  /\ keyDown \in [Notes -> BOOLEAN] /\ pedalDown \in BOOLEAN /\ inverted \in BOOLEAN
=============================================================================
