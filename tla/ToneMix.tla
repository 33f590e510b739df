------------------------------ MODULE ToneMix ------------------------------
(***************************************************************************)
(* The arithmetic of the mix, which DataPath keeps as operands: how        *)
(* datapath.sv makes a table's sample, or two of them and the modulation   *)
(* wheel, into what is added to TONE, and how the sum is limited.          *)
(*                                                                         *)
(* A register is the number its bits spell, and Signed() what it stands    *)
(* for: a word of n bits has Half = 2^(n-1).                               *)
(***************************************************************************)
EXTENDS Integers

CONSTANTS
  SampleHalf,         \* of a table's sample; 2^15
  ModSpan,            \* positions of the wheel; 2^7
  AmpSpan,            \* amplitudes; 2^21
  VelSpan,            \* velocities; 2^7
  GainUnit            \* of the product of the two; 2^12

PlayHalf == SampleHalf * ModSpan
GainSpan == (AmpSpan * VelSpan) \div GainUnit
ToneHalf == SampleHalf * GainSpan

\* As 2^21 * 2^7 = 2^16 * 2^12.
Widths ==
  /\ {SampleHalf, ModSpan, AmpSpan, VelSpan, GainUnit, GainSpan} \subseteq Nat \ {0}
  /\ AmpSpan * VelSpan = GainSpan * GainUnit

VARIABLES
  TONE,
  level,              \* what TONE should stand for
  voice               \* the voice mixed last: its samples and what was heard

vars == <<TONE, level, voice>>

SAMPLES == 0 .. 2 * SampleHalf - 1
Signed(word, half) == IF word < half THEN word ELSE word - 2 * half
Limited(x, half) == IF x < -half THEN -half ELSE IF x >= half THEN half - 1 ELSE x

\* Six copies of the sign bit: the word is one bit short of PLAY_SAMPLE's, whose
\* highest bit is left zero.
SEXT_SAMPLE_N(sample) ==
  IF sample < SampleHalf THEN sample ELSE sample + PlayHalf - 2 * SampleHalf

MOD_SAMPLE(sample1, sample2, mod) ==
  (SEXT_SAMPLE_N(sample1) * mod + SEXT_SAMPLE_N(sample2) * (ModSpan - 1 - mod))
    % (2 * PlayHalf)

PLAY_SAMPLE(sample1, sample2, mod_mux, mod) ==
  IF mod_mux THEN MOD_SAMPLE(sample1, sample2, mod) ELSE sample1 * ModSpan

\* PLAY_SAMPLE[22:7]
Heard(play) == play \div ModSpan

SEXT_SAMPLE(play) ==
  IF Heard(play) < SampleHalf THEN Heard(play)
  ELSE Heard(play) + 2 * ToneHalf - 2 * SampleHalf

\* AMP[27:12]
Gain(amp, vel) == (amp * vel) \div GainUnit

AMP_SAMPLE(play, amp, vel) == (SEXT_SAMPLE(play) * Gain(amp, vel)) % (2 * ToneHalf)

\* Two operands of one sign whose sum has the other: the sum is at its limit.
TONE_INC(tone, inc) ==
  LET sum == (tone + inc) % (2 * ToneHalf)
  IN IF tone >= ToneHalf /\ inc >= ToneHalf /\ sum < ToneHalf THEN ToneHalf
     ELSE IF tone < ToneHalf /\ inc < ToneHalf /\ sum >= ToneHalf THEN ToneHalf - 1
     ELSE sum

-----------------------------------------------------------------------------
Silence == [sample1 |-> 0, sample2 |-> 0, heard |-> 0]

Init == TONE = 0 /\ level = 0 /\ voice = Silence

\* A visit to a key, with LD_TONE and TONE_MUX.
Mix(sample1, sample2, mod_mux, mod, amp, vel) ==
  LET play == PLAY_SAMPLE(sample1, sample2, mod_mux, mod)
      heard == Signed(Heard(play), SampleHalf)
  IN /\ TONE' = TONE_INC(TONE, AMP_SAMPLE(play, amp, vel))
     /\ level' = Limited(level + heard * Gain(amp, vel), ToneHalf)
     /\ voice' = [sample1 |-> sample1, sample2 |-> sample2, heard |-> heard]

\* The sum starts again with the next sample.
Clear == TONE' = 0 /\ level' = 0 /\ UNCHANGED voice

Next ==
  \/ \E sample1, sample2 \in SAMPLES, mod_mux \in BOOLEAN, mod \in 0 .. ModSpan - 1,
        amp \in 0 .. AmpSpan - 1, vel \in 0 .. VelSpan - 1 :
       Mix(sample1, sample2, mod_mux, mod, amp, vel)
  \/ Clear

Spec == Init /\ [][Next]_vars

-----------------------------------------------------------------------------
(***************************************************************************)
(* TONE is the sum of what was heard of the voices, each as loud as its    *)
(* amplitude and velocity make it, limited at both ends and never wrapped, *)
(* in whatever order loud voices of either sign come (datapath.sv:122-135).*)
(***************************************************************************)
SumLimited == TONE \in 0 .. 2 * ToneHalf - 1 /\ Signed(TONE, ToneHalf) = level

(***************************************************************************)
(* "Allows the mod wheel to be used to mix 2 wavetable outputs together"   *)
(* (README.md:33): a mix of two samples is not beyond both of them, other  *)
(* than towards silence.                                                   *)
(***************************************************************************)
MixedBetween ==
  LET first == Signed(voice.sample1, SampleHalf)
      second == Signed(voice.sample2, SampleHalf)
  IN /\ voice.heard >= 0 \/ voice.heard >= first \/ voice.heard >= second
     /\ voice.heard <= 0 \/ voice.heard <= first \/ voice.heard <= second

=============================================================================
