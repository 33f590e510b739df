------------------------------ MODULE CalcAdsr ------------------------------
(***************************************************************************)
(* The envelope arithmetic of the firmware: calc_adsr() of audio_synth.cpp *)
(* and the knob handlers of MIDI_poll() in main.cpp that feed it.          *)
(*                                                                         *)
(* The two amplitudes are floats in the code.  Here they are integers in   *)
(* units of 1/PeakDen, and the rounding of the float division and sum is a *)
(* choice: a register computed from one may differ by Slack from the exact *)
(* value (multiplying by 0x80000 is exact, truncation is not).             *)
(***************************************************************************)
EXTENDS Integers

CONSTANTS
  F_S,        \* samples per second: 44100
  AMP_ONE,    \* register value of amplitude 1.0: 0x80000
  PEAK_CAP,   \* register value of amplitude 2.0: 0xFFFFF
  ParMax,     \* largest value of a MIDI control: 0x7F
  PeakUnit,   \* one control step of sustain amplitude, in units of 1/PeakDen
  TimeRange,  \* full range of each time knob, in milliseconds
  Limit,      \* longest attack, decay, sustain and release accepted
  Slack       \* rounding errors a float may leave in a register

PeakDen == ParMax * PeakUnit
Times   == {"att_h", "att_l", "dec_h", "dec_l", "sus_h", "sus_l", "rel_h", "rel_l"}
Knobs   == Times \cup {"peak_att", "peak_sus"}

ASSUME CalcAssumption ==
  /\ {F_S, AMP_ONE, PEAK_CAP, ParMax, PeakUnit} \subseteq Nat \ {0}
  /\ TimeRange \in [Times -> Nat]
  /\ Limit \in [{"att", "dec", "sus", "rel"} -> Nat]
  /\ Slack \subseteq Int

(* A knob turned to par: the global it sets, by integer division.          *)
KnobValue(knob, par) ==
  CASE knob \in Times     -> (par * TimeRange[knob]) \div ParMax
    [] knob = "peak_att"  -> 2 * par * PeakUnit
    [] knob = "peak_sus"  -> par * PeakUnit

(* The lengths the globals ask for, in milliseconds.                       *)
Attacked(g)  == g.att_h + g.att_l
Decayed(g)   == g.dec_h + g.dec_l
Sustained(g) == g.sus_h + g.sus_l
Released(g)  == g.rel_h + g.rel_l

(* Mutant: the lengths are not compared with one another.                  *)
AcceptedAlone(g) ==
  /\ Attacked(g) <= Limit.att
  /\ Decayed(g) <= Limit.dec
  /\ Sustained(g) <= Limit.sus
  /\ Released(g) <= Limit.rel

(* The early returns of calc_adsr().                                       *)
Accepted(g) ==
  /\ Attacked(g) <= Limit.att
  /\ Decayed(g) <= Limit.dec
  /\ Sustained(g) <= Limit.sus
  /\ Sustained(g) >= Released(g)
  /\ Released(g) <= Limit.rel

(* A length in samples, never zero.                                        *)
LEN(ms) == LET n == (ms * F_S) \div 1000 IN IF n = 0 THEN 1 ELSE n

Truncations(peak) == {v \in {(peak * AMP_ONE) \div PeakDen + e : e \in Slack} : v >= 0}

(* The attack amplitude is added to the sustain amplitude and capped at 2. *)
PeakAtts(g) ==
  IF g.peak_att + g.peak_sus >= 2 * PeakDen THEN {PEAK_CAP}
  ELSE Truncations(g.peak_att + g.peak_sus)

PeakSuss(g) == IF g.peak_sus = 0 THEN {0} ELSE Truncations(g.peak_sus)

(* The six register values for the two amplitudes, in the order the        *)
(* registers are numbered and written.                                     *)
Setting(g, pa, ps) ==
  <<pa, pa \div LEN(Attacked(g)), (pa - ps) \div LEN(Decayed(g)),
    ps, ps \div LEN(Sustained(g)), ps \div LEN(Released(g))>>

(* Rounding is monotonic: the sum is never below its summand.              *)
Settings(g) ==
  {Setting(g, p[1], p[2]) : p \in {p \in PeakAtts(g) \X PeakSuss(g) :
     IF g.peak_att = 0 THEN p[1] = p[2] ELSE p[1] >= p[2]}}
=============================================================================
