------------------------------ MODULE DataPath ------------------------------
(***************************************************************************)
(* The combinational half of one voice: src/datapath.sv and the register   *)
(* decoding at the head of src/synth_ip.sv.  Every operator is a function  *)
(* of register contents; the registers themselves, and the clock edges     *)
(* that load them, are the state of module SynthIP.                        *)
(*                                                                         *)
(* Widths are constants so that a small instance overflows where the 21-   *)
(* and 24-bit registers of the code do.  The arithmetic that turns a table *)
(* sample, an amplitude and a velocity into a 32-bit product is data that  *)
(* no property here tells apart: a contribution is kept as the record of   *)
(* its operands (Contribution), and module ToneMix has the arithmetic.     *)
(***************************************************************************)
EXTENDS Integers

CONSTANTS
  AmpMod,     \* values of the amplitude register: 2^21
  StepMod,    \* values of a control register: 2^20
  PhaseMod,   \* values of the phase accumulator: 2^24
  EntrySpan,  \* phase units per wavetable entry: 2^12
  PedalOn,    \* the pedal values from which the pedal is down, of twice as many: 2^6
  BendOne     \* the pitch-bend value that means "no bend": 2^13

ASSUME DataPathAssumption ==
  /\ AmpMod \in Nat \ {0}
  /\ StepMod \in Nat \ {0}
  /\ StepMod <= AmpMod
  /\ PhaseMod \in Nat \ {0}
  /\ EntrySpan \in Nat \ {0}
  /\ PedalOn \in Nat \ {0}
  /\ BendOne \in Nat \ {0}

(* The amplitude register, a control register and the phase accumulator.   *)
Amps   == 0 .. AmpMod - 1
Steps  == 0 .. StepMod - 1
Phases == 0 .. PhaseMod - 1

(* The three play bits of a key (play_reg): the set of the bits that are 1.*)
Held     == 0      \* the key is down: PLAY[0]
Attack   == 1      \* the attack is pending or running: PLAY[1]
Sounding == 2      \* the voice has contributed and has not ended: PLAY[2]
PlayBits == {Held, Attack, Sounding}

(* The control registers the voice reads; c is the file ctrl_reg.          *)
PEAK_ATT(c) == c[0]
ATT_STEP(c) == c[1]
DEC_STEP(c) == c[2]
PEAK_SUS(c) == c[3]
SUS_STEP(c) == c[4]
REL_STEP(c) == c[5]
SUS(c)      == c[6] % (2 * PedalOn) >= PedalOn
BEND_MUX(c) == c[11] % 2 = 1
BEND(c)     == c[12] % (2 * BendOne)

NOTE_ON(play, c) == Held \in play \/ SUS(c)
ATT_ON(play)     == Attack \in play

(* Mutant: an adder wide enough never to wrap.                             *)
WideAttack(amp, c) == amp + ATT_STEP(c)

(* The four candidate amplitudes, wrapping as the 21-bit adders do.        *)
ATT_AMP(amp, c) == (amp + ATT_STEP(c)) % AmpMod
DEC_AMP(amp, c) == (amp - DEC_STEP(c)) % AmpMod
SUS_AMP(amp, c) == (amp - SUS_STEP(c)) % AmpMod
REL_AMP(amp, c) == (amp - REL_STEP(c)) % AmpMod

(* The amplitude a visit stores: attack, else decay above the sustain      *)
(* level, else sustain or release.                                         *)
AMP_MUX_O(amp, play, c) ==
  IF ATT_ON(play) THEN ATT_AMP(amp, c)
  ELSE IF amp > PEAK_SUS(c) THEN DEC_AMP(amp, c)
  ELSE IF NOTE_ON(play, c) THEN SUS_AMP(amp, c)
  ELSE REL_AMP(amp, c)

(* Mutants: the note is cut off as soon as it is released; it ends only at *)
(* an amplitude of exactly zero.                                           *)
CutOnRelease(amp, play, c) == ~NOTE_ON(play, c) /\ ~ATT_ON(play)
EndAtZero(amp, play, c)    == AMP_MUX_O(amp, play, c) = 0 /\ ~ATT_ON(play)

ATT_OFF(amp, play, c)  == ATT_AMP(amp, c) >= PEAK_ATT(c) \/ ~ATT_ON(play)
NOTE_END(amp, play, c) == AMP_MUX_O(amp, play, c) < REL_STEP(c) /\ ~ATT_ON(play)

(* Mutant: the end of the note clears the Held bit only.                   *)
NeverSilent(amp, play, c) ==
  {bit \in PlayBits :
     \/ bit = Sounding
     \/ bit = Attack   /\ ~ATT_OFF(amp, play, c)
     \/ bit = Held     /\ Held \in play /\ ~NOTE_END(amp, play, c)}

(* The play bits the engine stores when it has visited the key.            *)
NEXT_PLAY(amp, play, c) ==
  {bit \in PlayBits :
     \/ bit = Sounding /\ ~NOTE_END(amp, play, c)
     \/ bit = Attack   /\ ~ATT_OFF(amp, play, c)
     \/ bit = Held     /\ Held \in play /\ ~NOTE_END(amp, play, c)}

(* The phase after one sample at phase step f, bent or not.                *)
PHASE_INC(phase, f, c) ==
  (phase + (IF BEND_MUX(c) THEN (f * BEND(c)) \div BendOne ELSE f)) % PhaseMod

(* The wavetable entry a phase addresses: PHASE[23:12].                    *)
ADDR(phase) == phase \div EntrySpan

(* What one voice adds to TONE: which key, the table entry it was read     *)
(* from, and the two factors it is scaled by.                              *)
Contribution(key, addr, amp, vel) ==
  [key |-> key, addr |-> addr, amp |-> amp, vel |-> vel]
=============================================================================
