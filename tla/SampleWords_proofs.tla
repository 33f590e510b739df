-------------------------- MODULE SampleWords_proofs --------------------------
(***************************************************************************)
(* Theorems about the words of the samples, for registers of any widths:   *)
(* the sum of the voices is limited and never wraps (ToneMix), and the     *)
(* serial line brings every word whole to both channels (I2S).             *)
(***************************************************************************)
EXTENDS ToneMix, I2S, TLAPS

-----------------------------------------------------------------------------
(* Products, quotients and remainders                                      *)

LEMMA TimesLess ==
  ASSUME NEW a \in Nat, NEW b \in Nat, NEW m \in Nat, NEW k \in Nat, a < m, b < k
  PROVE  a * b \in Nat /\ a * b < m * k
<1>1. a * b \in Nat /\ m * k \in Int /\ a * k \in Int
  OBVIOUS
<1>2. a * b <= a * k
  <2>1. a * (k - b) >= 0
    OBVIOUS
  <2>2. QED
    BY <2>1
<1>3. a * k < m * k
  <2>1. (m - a) * k >= 1
    <3>1. m - a >= 1 /\ k >= 1
      OBVIOUS
    <3>2. QED
      BY <3>1
  <2>2. QED
    BY <2>1
<1>4. QED
  BY <1>1, <1>2, <1>3

LEMMA DivRange ==
  ASSUME NEW a \in Nat, NEW m \in Nat \ {0}, NEW k \in Nat, a < k * m
  PROVE  a \div m \in 0 .. k - 1
<1> DEFINE q == a \div m
<1>1. q \in Int /\ a = m * q + (a % m) /\ a % m \in 0 .. m - 1
  OBVIOUS
<1>2. q >= 0
  <2>1. ASSUME q <= -1 PROVE FALSE
    <3>1. m * q <= -m
      BY <1>1, <2>1
    <3>2. QED
      BY <1>1, <3>1
  <2>2. QED
    BY <1>1, <2>1
<1>3. q < k
  <2>1. ASSUME q >= k PROVE FALSE
    <3>1. m * q >= k * m
      BY <1>1, <2>1
    <3>2. QED
      BY <1>1, <3>1
  <2>2. QED
    BY <1>1, <2>1
<1>4. QED
  BY <1>1, <1>2, <1>3

LEMMA ModIs ==
  ASSUME NEW T \in Nat \ {0}, NEW q \in Int, NEW r \in 0 .. T - 1
  PROVE  (T * q + r) % T = r
<1> DEFINE x == T * q + r
           p == x \div T
           s == x % T
<1>1. x \in Int
  OBVIOUS
<1>2. p \in Int /\ s \in 0 .. T - 1 /\ x = T * p + s
  BY <1>1
<1> HIDE DEF p, s
<1>3. T * (q - p) = s - r
  BY <1>2
<1>4. ~(q - p >= 1)
  <2>1. ASSUME q - p >= 1 PROVE T * (q - p) >= T
    BY <1>2, <2>1
  <2>2. QED
    BY <1>2, <1>3, <2>1
<1>5. ~(q - p <= -1)
  <2>1. ASSUME q - p <= -1 PROVE T * (q - p) <= -T
    BY <1>2, <2>1
  <2>2. QED
    BY <1>2, <1>3, <2>1
<1>6. q = p
  BY <1>2, <1>4, <1>5
<1>7. s = r
  BY <1>2, <1>3, <1>6
<1>8. QED
  BY <1>7 DEF s

-----------------------------------------------------------------------------
(* Words and what they stand for                                           *)

Word(x, half) == IF x >= 0 THEN x ELSE x + 2 * half

LEMMA ModWord ==
  ASSUME NEW half \in Nat \ {0}, NEW x \in -half .. half - 1
  PROVE  x % (2 * half) = Word(x, half)
<1>1. 2 * half \in Nat \ {0}
  OBVIOUS
<1>2. CASE x >= 0
  <2>1. (2 * half * 0 + x) % (2 * half) = x
    BY <1>1, <1>2, ModIs
  <2>2. QED
    BY <1>2, <2>1 DEF Word
<1>3. CASE x < 0
  <2>1. (2 * half * (-1) + (x + 2 * half)) % (2 * half) = x + 2 * half
    BY <1>1, <1>3, ModIs
  <2>2. 2 * half * (-1) + (x + 2 * half) = x
    OBVIOUS
  <2>3. QED
    BY <1>3, <2>1, <2>2 DEF Word
<1>4. QED
  BY <1>2, <1>3

(* The adder: the sum of two signed words, limited at both ends.           *)
LEMMA TONE_INCLimited ==
  ASSUME ToneHalf \in Nat \ {0},
         NEW x \in -ToneHalf .. ToneHalf - 1, NEW y \in -ToneHalf .. ToneHalf - 1
  PROVE  TONE_INC(Word(x, ToneHalf), Word(y, ToneHalf)) = Word(Limited(x + y, ToneHalf), ToneHalf)
<1> DEFINE T == 2 * ToneHalf
           z == Word(x, ToneHalf) + Word(y, ToneHalf)
           sum == z % T
<1>1. T \in Nat \ {0} /\ z \in 0 .. 2 * T - 2
  BY DEF Word
<1>2. sum = IF z < T THEN z ELSE z - T
  <2>1. CASE z < T
    <3>1. (T * 0 + z) % T = z /\ T * 0 + z = z
      BY <1>1, <2>1, ModIs
    <3>2. QED
      BY <2>1, <3>1
  <2>2. CASE z >= T
    <3> HIDE DEF T, z
    <3>1. z - T \in 0 .. T - 1
      BY <1>1, <2>2
    <3>2. (T * 1 + (z - T)) % T = z - T
      BY <1>1, <3>1, ModIs
    <3>3. T * 1 + (z - T) = z
      BY <1>1
    <3>4. QED
      BY <1>1, <2>2, <3>2, <3>3
  <2>3. QED
    BY <1>1, <2>1, <2>2
<1>3. TONE_INC(Word(x, ToneHalf), Word(y, ToneHalf)) =
        IF Word(x, ToneHalf) >= ToneHalf /\ Word(y, ToneHalf) >= ToneHalf /\ sum < ToneHalf
        THEN ToneHalf
        ELSE IF Word(x, ToneHalf) < ToneHalf /\ Word(y, ToneHalf) < ToneHalf /\ sum >= ToneHalf
        THEN ToneHalf - 1 ELSE sum
  BY DEF TONE_INC
<1> HIDE DEF sum
<1>4. QED
  BY <1>1, <1>2, <1>3 DEF Word, Limited

(* The multiplier: the product of a signed sample and a gain fits.         *)
LEMMA ProductFits ==
  ASSUME Widths, NEW h \in -SampleHalf .. SampleHalf - 1, NEW g \in 0 .. GainSpan - 1
  PROVE  /\ ToneHalf \in Nat \ {0}
         /\ h * g \in -ToneHalf .. ToneHalf - 1
         /\ ((IF h >= 0 THEN h ELSE h + 2 * ToneHalf) * g) % (2 * ToneHalf) = Word(h * g, ToneHalf)
<1>1. SampleHalf \in Nat \ {0} /\ GainSpan \in Nat \ {0}
  BY DEF Widths
<1>2. ToneHalf \in Nat \ {0}
  BY <1>1 DEF ToneHalf
<1>3. CASE h >= 0
  <2>1. h * g \in Nat /\ h * g < ToneHalf
    BY <1>1, <1>3, TimesLess DEF ToneHalf
  <2>2. h * g \in -ToneHalf .. ToneHalf - 1
    BY <1>2, <2>1
  <2>3. QED
    BY <1>2, <1>3, <2>2, ModWord
<1>4. CASE h < 0 /\ g = 0
  <2>1. h * g = 0 /\ (h + 2 * ToneHalf) * g = 0
    BY <1>2, <1>4
  <2>2. 0 % (2 * ToneHalf) = Word(0, ToneHalf)
    BY <1>2, ModWord
  <2>3. QED
    BY <1>2, <1>4, <2>1, <2>2
<1>5. CASE h < 0 /\ g # 0
  <2>1. (-h) * g \in Nat /\ (-h) * g < (SampleHalf + 1) * GainSpan
    BY <1>1, <1>5, TimesLess
  <2>2. (-h) * g <= ToneHalf
    <3>1. (-h) * g <= SampleHalf * g
      <4>1. (SampleHalf + h) * g >= 0
        BY <1>1, <1>5
      <4>2. QED
        BY <1>1, <4>1
    <3>2. SampleHalf * g <= SampleHalf * GainSpan
      <4>1. SampleHalf * (GainSpan - g) >= 0
        BY <1>1, <1>5
      <4>2. QED
        BY <1>1, <4>1
    <3>3. h * g \in Int /\ SampleHalf * g \in Int /\ SampleHalf * GainSpan \in Int
      BY <1>1
    <3>4. QED
      BY <3>1, <3>2, <3>3 DEF ToneHalf
  <2>3. h * g <= -1 /\ h * g \in Int /\ h * g = -((-h) * g)
    BY <1>1, <1>5
  <2>4. h * g \in -ToneHalf .. -1
    BY <1>2, <2>2, <2>3
  <2>5. (2 * ToneHalf * (g - 1) + (h * g + 2 * ToneHalf)) % (2 * ToneHalf) = h * g + 2 * ToneHalf
    <3>1. h * g + 2 * ToneHalf \in 0 .. 2 * ToneHalf - 1 /\ 2 * ToneHalf \in Nat \ {0} /\ g - 1 \in Int
      BY <1>2, <2>4
    <3>2. QED
      BY <3>1, ModIs
  <2>6. 2 * ToneHalf * (g - 1) + (h * g + 2 * ToneHalf) = (h + 2 * ToneHalf) * g
    BY <1>2, <2>3
  <2>7. QED
    BY <1>2, <1>5, <2>4, <2>5, <2>6 DEF Word
<1>6. QED
  BY <1>3, <1>4, <1>5

-----------------------------------------------------------------------------
(* A voice                                                                 *)

LEMMA GainFits ==
  ASSUME Widths, NEW amp \in 0 .. AmpSpan - 1, NEW vel \in 0 .. VelSpan - 1
  PROVE  Gain(amp, vel) \in 0 .. GainSpan - 1
<1>1. /\ AmpSpan \in Nat \ {0} /\ VelSpan \in Nat \ {0} /\ GainUnit \in Nat \ {0}
      /\ GainSpan \in Nat \ {0} /\ AmpSpan * VelSpan = GainSpan * GainUnit
  BY DEF Widths
<1>2. amp * vel \in Nat /\ amp * vel < GainSpan * GainUnit
  BY <1>1, TimesLess
<1>3. QED
  BY <1>1, <1>2, DivRange DEF Gain

LEMMA HeardFits ==
  ASSUME Widths, NEW sample1 \in SAMPLES, NEW sample2 \in SAMPLES,
         NEW mod_mux \in BOOLEAN, NEW mod \in 0 .. ModSpan - 1
  PROVE  Heard(PLAY_SAMPLE(sample1, sample2, mod_mux, mod)) \in SAMPLES
<1>1. SampleHalf \in Nat \ {0} /\ ModSpan \in Nat \ {0} /\ 2 * SampleHalf \in Nat
  BY DEF Widths
<1>2. PlayHalf \in Nat \ {0} /\ 2 * PlayHalf = (2 * SampleHalf) * ModSpan
  BY <1>1 DEF PlayHalf
<1> DEFINE play == PLAY_SAMPLE(sample1, sample2, mod_mux, mod)
<1>3. play \in Nat /\ play < (2 * SampleHalf) * ModSpan
  <2>1. CASE mod_mux
    <3>1. SEXT_SAMPLE_N(sample1) \in Int /\ SEXT_SAMPLE_N(sample2) \in Int
      BY <1>1, <1>2 DEF SEXT_SAMPLE_N, SAMPLES
    <3>2. MOD_SAMPLE(sample1, sample2, mod) \in 0 .. 2 * PlayHalf - 1
      <4>1. ASSUME NEW x \in Int PROVE x % (2 * PlayHalf) \in 0 .. 2 * PlayHalf - 1
        BY <1>2
      <4>2. QED
        BY <1>1, <3>1, <4>1 DEF MOD_SAMPLE
    <3>3. QED
      BY <1>2, <2>1, <3>2 DEF PLAY_SAMPLE
  <2>2. CASE ~mod_mux
    <3>1. sample1 * ModSpan \in Nat /\ sample1 * ModSpan < (2 * SampleHalf) * ModSpan
      <4>1. (2 * SampleHalf - sample1) * ModSpan >= 1
        BY <1>1 DEF SAMPLES
      <4>2. QED
        BY <1>1, <4>1 DEF SAMPLES
    <3>2. QED
      BY <2>2, <3>1 DEF PLAY_SAMPLE
  <2>3. QED
    BY <2>1, <2>2
<1> HIDE DEF play
<1>4. play \div ModSpan \in 0 .. 2 * SampleHalf - 1
  BY <1>1, <1>3, DivRange
<1>5. QED
  BY <1>4 DEF play, Heard, SAMPLES

LEMMA MixKeeps ==
  ASSUME Widths, SumLimited, level \in -ToneHalf .. ToneHalf - 1,
         NEW sample1 \in SAMPLES, NEW sample2 \in SAMPLES, NEW mod_mux \in BOOLEAN,
         NEW mod \in 0 .. ModSpan - 1, NEW amp \in 0 .. AmpSpan - 1,
         NEW vel \in 0 .. VelSpan - 1,
         Mix(sample1, sample2, mod_mux, mod, amp, vel)
  PROVE  SumLimited' /\ level' \in -ToneHalf .. ToneHalf - 1
<1> DEFINE play == PLAY_SAMPLE(sample1, sample2, mod_mux, mod)
           h == Signed(Heard(play), SampleHalf)
           g == Gain(amp, vel)
<1>1. Heard(play) \in SAMPLES /\ g \in 0 .. GainSpan - 1
  BY HeardFits, GainFits
<1>2. /\ TONE' = TONE_INC(TONE, AMP_SAMPLE(play, amp, vel))
      /\ level' = Limited(level + h * g, ToneHalf)
  BY DEF Mix
<1>3. SEXT_SAMPLE(play) = (IF h >= 0 THEN h ELSE h + 2 * ToneHalf) /\ h \in -SampleHalf .. SampleHalf - 1
  <2>1. SampleHalf \in Nat \ {0} /\ GainSpan \in Nat \ {0}
    BY DEF Widths
  <2>2. ToneHalf \in Nat
    BY <2>1 DEF ToneHalf
  <2>3. QED
    BY <1>1, <2>1, <2>2 DEF SEXT_SAMPLE, SAMPLES, Signed
<1> HIDE DEF play, h, g
<1>4. /\ ToneHalf \in Nat \ {0} /\ h * g \in -ToneHalf .. ToneHalf - 1
      /\ AMP_SAMPLE(play, amp, vel) = Word(h * g, ToneHalf)
  <2>1. AMP_SAMPLE(play, amp, vel) =
          ((IF h >= 0 THEN h ELSE h + 2 * ToneHalf) * g) % (2 * ToneHalf)
    BY <1>3 DEF AMP_SAMPLE, g
  <2>2. QED
    BY <1>1, <1>3, <2>1, ProductFits
<1>5. TONE = Word(level, ToneHalf)
  BY <1>4 DEF SumLimited, Signed, Word
<1>6. TONE' = Word(level', ToneHalf)
  BY <1>2, <1>4, <1>5, TONE_INCLimited
<1>7. level' \in -ToneHalf .. ToneHalf - 1
  <2> DEFINE p == h * g
  <2>1. p \in Int /\ level' = Limited(level + p, ToneHalf)
    BY <1>2, <1>4
  <2> HIDE DEF p
  <2>2. QED
    BY <1>4, <2>1 DEF Limited
<1>8. TONE' \in 0 .. 2 * ToneHalf - 1 /\ Signed(TONE', ToneHalf) = level'
  <2>1. ToneHalf \in Nat \ {0}
    BY <1>4
  <2>2. ASSUME NEW l \in -ToneHalf .. ToneHalf - 1
        PROVE  /\ Word(l, ToneHalf) \in 0 .. 2 * ToneHalf - 1
               /\ Signed(Word(l, ToneHalf), ToneHalf) = l
    BY <2>1 DEF Signed, Word
  <2>3. QED
    BY <1>6, <1>7, <2>2
<1>9. ToneHalf' = ToneHalf
  BY DEF ToneHalf, GainSpan
<1>10. QED
  BY <1>7, <1>8, <1>9 DEF SumLimited, Signed

(***************************************************************************)
(* TONE is the limited sum of the voices, for registers of every width     *)
(* that fit one another, whatever the voices are (datapath.sv:122-135).    *)
(***************************************************************************)
THEOREM NeverWraps ==
  ASSUME Widths
  PROVE  Spec => []SumLimited
<1> DEFINE SumInv == SumLimited /\ level \in -ToneHalf .. ToneHalf - 1
<1>1. ToneHalf \in Nat \ {0}
  BY DEF Widths, ToneHalf
<1>2. Init => SumInv
  BY <1>1 DEF Init, SumLimited, Signed
<1>3. SumInv /\ [Next]_vars => SumInv'
  <2> SUFFICES ASSUME SumInv, [Next]_vars PROVE SumInv'
    OBVIOUS
  <2>1. CASE Clear
    BY <1>1, <2>1 DEF Clear, SumLimited, Signed
  <2>2. CASE UNCHANGED vars
    BY <2>2 DEF vars, SumLimited
  <2>3. ASSUME NEW sample1 \in SAMPLES, NEW sample2 \in SAMPLES, NEW mod_mux \in BOOLEAN,
               NEW mod \in 0 .. ModSpan - 1, NEW amp \in 0 .. AmpSpan - 1,
               NEW vel \in 0 .. VelSpan - 1,
               Mix(sample1, sample2, mod_mux, mod, amp, vel)
        PROVE  SumInv'
    BY <2>3, MixKeeps
  <2>4. QED
    BY <2>1, <2>2, <2>3 DEF Next
<1>4. SumInv => SumLimited
  OBVIOUS
<1>5. QED
  BY <1>2, <1>3, <1>4, PTL DEF Spec

-----------------------------------------------------------------------------
(* The serial line.  MCLK edge number 4 * Width * h + 4 * n + t of the     *)
(* counter's round is quarter t of bit time n of the half with LRCLK = h.  *)
Place(h, n, t) == 4 * (Width * h + n) + t

(* The registers of the divider as the edge at that place leaves them.     *)
At(h, n, t) ==
  /\ COUNTER = (Place(h, n, t) + 1) % CounterMod
  /\ SCLK = IF t >= 2 THEN 1 ELSE 0
  /\ LRCLK = h

(* LRCLK has changed and no rising SCLK has come since: what the last one  *)
(* saw, and the number of the bit time it was in.                          *)
Unseen(n, t)  == n = 0 /\ t < 2
Seen(h, n, t) == IF Unseen(n, t) THEN 1 - h ELSE h
LastBit(n, t) == IF Unseen(n, t) THEN Width - 1 ELSE IF t < 2 THEN n - 1 ELSE n

LineTypes ==
  /\ FLAG \in {0, 1} /\ PHASE_COUNTER \in 0 .. Width - 1
  /\ DIN \in Bits /\ AUDIO \in Samples /\ lrSeen \in {0, 1}
  /\ LRCLK \in {0, 1}
  /\ slot \in Seq(Bits) /\ received \in Seq(Bits) /\ changes \in 0 .. SyncCap

(* The bits of the slot so far are the first of one sample; until the      *)
(* reader moves on, of the sample it still shows.                          *)
SlotInStep(h, n, t) ==
  /\ Len(slot) = LastBit(n, t)
  /\ \A i \in 1 .. Len(slot) : slot[i].bit = Width - i /\ slot[i].sample = slot[1].sample
  /\ ~(Unseen(n, t) /\ h = 1) => \A i \in 1 .. Len(slot) : slot[i].sample = AUDIO

(* The bit on the wire until the next rising SCLK is the one whose turn it *)
(* is, and only in the first bit time may it be of the sample before.      *)
WireInStep(n, t) ==
  t < 2 => /\ DIN.bit = Width - 1 - LastBit(n, t)
           /\ n >= 1 => DIN.sample = AUDIO

SlotWhole ==
  /\ Len(received) = Width
  /\ \A i \in 1 .. Width : received[i].bit = Width - i
  /\ \A i \in 1 .. Width - 1 : received[i].sample = received[1].sample

(* Between the two halves of a frame the sample stays.                     *)
SecondHalf ==
  lrSeen = 0 =>
    /\ LRCLK = 0 => received[1].sample = AUDIO
    /\ \A i \in 1 .. Len(slot) : slot[i].sample = received[1].sample

(* Whatever the registers hold at power-up, the codec knows LRCLK after    *)
(* the first change it sees, the transmitter after the second, the third   *)
(* aligns the bit counter, and the fourth ends the first whole slot.       *)
InStep(h, n, t) ==
  /\ changes >= 1 => lrSeen = Seen(h, n, t)
  /\ changes >= 2 => FLAG = Seen(h, n, t)
  /\ changes >= 3 => /\ PHASE_COUNTER = LastBit(n, t)
                     /\ WireInStep(n, t)
                     /\ SlotInStep(h, n, t)
  /\ changes = SyncCap => SlotWhole /\ SecondHalf

(* Before the first edge the divider may hold anything.                    *)
PoweredUp == COUNTER \in 0 .. CounterMod - 1 /\ changes = 0

LineInv ==
  /\ LineTypes
  /\ \/ PoweredUp
     \/ \E h \in {0, 1}, n \in 0 .. Width - 1, t \in 0 .. 3 : At(h, n, t) /\ InStep(h, n, t)

-----------------------------------------------------------------------------
(* The clock divider                                                       *)

LEMMA SmallMod ==
  ASSUME NEW m \in Nat \ {0}, NEW x \in 0 .. m - 1
  PROVE  x % m = x
  OBVIOUS

LEMMA SelfMod ==
  ASSUME NEW m \in Nat \ {0}
  PROVE  m % m = 0
  OBVIOUS

LEMMA DivIs ==
  ASSUME NEW T \in Nat \ {0}, NEW r \in 0 .. T - 1
  PROVE  r \div T = 0 /\ (T + r) \div T = 1
<1>1. r \div T = 0
  OBVIOUS
<1>2. (T + r) \div T = 1
  <2> DEFINE x == T + r
             p == x \div T
             s == x % T
  <2>1. p \in Int /\ s \in 0 .. T - 1 /\ x = T * p + s
    OBVIOUS
  <2> HIDE DEF p, s
  <2>2. ~(p >= 2)
    <3>1. ASSUME p >= 2 PROVE T * p >= T + T
      BY <2>1, <3>1
    <3>2. QED
      BY <2>1, <3>1
  <2>3. ~(p <= 0)
    <3>1. ASSUME p <= 0 PROVE T * p <= 0
      BY <2>1, <3>1
    <3>2. QED
      BY <2>1, <3>1
  <2>4. p = 1
    BY <2>1, <2>2, <2>3
  <2>5. QED
    BY <2>4 DEF p
<1>3. QED
  BY <1>1, <1>2

(* Every value of the counter is a place in the round.                     *)
LEMMA PlaceOf ==
  ASSUME NEW c \in 0 .. CounterMod - 1
  PROVE  \E h \in {0, 1}, n \in 0 .. Width - 1, t \in 0 .. 3 : c = Place(h, n, t)
<1>1. Width \in Nat /\ c \in 0 .. 8 * Width - 1
  BY I2SAssumption DEF CounterMod
<1>2. CASE c < 4 * Width
  <2>1. /\ c \div 4 \in 0 .. Width - 1 /\ c % 4 \in 0 .. 3
        /\ c = 4 * (c \div 4) + (c % 4)
    BY <1>1, <1>2
  <2>2. Width * 0 = 0
    BY <1>1
  <2>3. c = Place(0, c \div 4, c % 4)
    BY <2>1, <2>2 DEF Place
  <2>4. QED
    BY <2>1, <2>3
<1>3. CASE c >= 4 * Width
  <2> DEFINE r == c - 4 * Width
  <2>1. /\ r \in Nat /\ r \div 4 \in 0 .. Width - 1 /\ r % 4 \in 0 .. 3
        /\ r = 4 * (r \div 4) + (r % 4)
    BY <1>1, <1>3
  <2>2. Width * 1 = Width
    BY <1>1
  <2>3. c = Place(1, r \div 4, r % 4)
    BY <1>1, <2>1, <2>2 DEF Place
  <2>4. QED
    BY <2>1, <2>3
<1>4. QED
  BY <1>1, <1>2, <1>3

(* What the divider puts on its outputs there.                             *)
LEMMA PlaceClocks ==
  ASSUME NEW h \in {0, 1}, NEW n \in 0 .. Width - 1, NEW t \in 0 .. 3
  PROVE  /\ Place(h, n, t) \in 0 .. CounterMod - 1
         /\ (Place(h, n, t) \div 2) % 2 = IF t >= 2 THEN 1 ELSE 0
         /\ Place(h, n, t) \div (CounterMod \div 2) = h
<1>1. Width \in Nat \ {0} /\ n \in Int /\ t \in Int
  BY I2SAssumption
<1>2. CounterMod \div 2 = 4 * Width
  BY <1>1 DEF CounterMod
<1>3. 4 * n + t \in 0 .. 4 * Width - 1 /\ 4 * Width \in Nat \ {0}
  BY <1>1
<1>4. CASE h = 0
  <2>1. Place(h, n, t) = 4 * n + t
    <3>1. Width * 0 = 0
      BY <1>1
    <3>2. QED
      BY <1>1, <1>4, <3>1 DEF Place
  <2>2. Place(h, n, t) \div (CounterMod \div 2) = 0
    BY <1>2, <1>3, <2>1, DivIs
  <2>3. ((4 * n + t) \div 2) % 2 = IF t >= 2 THEN 1 ELSE 0
    BY <1>1
  <2>4. QED
    BY <1>1, <1>3, <1>4, <2>1, <2>2, <2>3 DEF CounterMod
<1>5. CASE h = 1
  <2>1. Place(h, n, t) = 4 * Width + (4 * n + t)
    <3>1. Width * 1 = Width
      BY <1>1
    <3>2. QED
      BY <1>1, <1>5, <3>1 DEF Place
  <2>2. Place(h, n, t) \div (CounterMod \div 2) = 1
    BY <1>2, <1>3, <2>1, DivIs
  <2>3. ((4 * Width + (4 * n + t)) \div 2) % 2 = IF t >= 2 THEN 1 ELSE 0
    BY <1>1
  <2>4. QED
    BY <1>1, <1>3, <1>5, <2>1, <2>2, <2>3 DEF CounterMod
<1>6. QED
  BY <1>4, <1>5

(* An edge of the divider with the counter at a place.                     *)
LEMMA DividerEdge ==
  ASSUME NEW h \in {0, 1}, NEW n \in 0 .. Width - 1, NEW t \in 0 .. 3,
         COUNTER = Place(h, n, t), ClockDivider
  PROVE  At(h, n, t)'
  BY PlaceClocks DEF ClockDivider, At

(* The place after a place.                                                *)
LEMMA NextPlace ==
  ASSUME NEW h \in {0, 1}, NEW n \in 0 .. Width - 1, NEW t \in 0 .. 3, At(h, n, t)
  PROVE  COUNTER = IF t < 3 THEN Place(h, n, t + 1)
                   ELSE IF n < Width - 1 THEN Place(h, n + 1, 0)
                   ELSE Place(1 - h, 0, 0)
<1>1. Width \in Nat \ {0} /\ n \in Int /\ t \in Int /\ h \in Int /\ CounterMod = 8 * Width
  BY I2SAssumption DEF CounterMod
<1>2. Width * 0 = 0 /\ Width * 1 = Width /\ CounterMod \in Nat \ {0}
  BY <1>1
<1>3. COUNTER = (Place(h, n, t) + 1) % CounterMod
  BY DEF At
<1>4. CASE ~(h = 1 /\ n = Width - 1 /\ t = 3)
  <2>1. Place(h, n, t) + 1 \in 0 .. CounterMod - 1
    <3>1. CASE h = 0
      BY <1>1, <1>2, <3>1 DEF Place
    <3>2. CASE h = 1
      BY <1>1, <1>2, <1>4, <3>2 DEF Place
    <3>3. QED
      BY <3>1, <3>2
  <2>2. COUNTER = Place(h, n, t) + 1
    BY <1>2, <1>3, <2>1, SmallMod
  <2>3. CASE t < 3
    <3>1. Width * h \in Int
      BY <1>1
    <3>2. QED
      BY <1>1, <2>2, <2>3, <3>1 DEF Place
  <2>4. CASE t = 3 /\ n < Width - 1
    <3>1. Width * h \in Int
      BY <1>1
    <3>2. QED
      BY <1>1, <2>2, <2>4, <3>1 DEF Place
  <2>5. CASE t = 3 /\ n = Width - 1
    <3>1. h = 0 /\ 1 - h = 1
      BY <1>4, <2>5
    <3>2. QED
      BY <1>1, <1>2, <2>2, <2>5, <3>1 DEF Place
  <2>6. QED
    BY <1>1, <2>3, <2>4, <2>5
<1>5. CASE h = 1 /\ n = Width - 1 /\ t = 3
  <2>1. Place(h, n, t) + 1 = CounterMod
    BY <1>1, <1>2, <1>5 DEF Place
  <2>2. COUNTER = 0
    BY <1>2, <1>3, <2>1, SelfMod
  <2>3. Place(1 - h, 0, 0) = 0
    BY <1>1, <1>2, <1>5 DEF Place
  <2>4. QED
    BY <1>1, <1>5, <2>2, <2>3
<1>6. QED
  BY <1>4, <1>5

-----------------------------------------------------------------------------
(* Every step keeps the types of the registers on the line.                *)
LEMMA LineTypesStep ==
  ASSUME LineTypes, LRCLK' \in {0, 1}, MCLK
  PROVE  LineTypes'
<1>1. Width \in Nat \ {0, 1} /\ SyncCap = 4
  BY I2SAssumption DEF SyncCap
<1>2. AUDIO' \in Samples
  BY DEF MCLK, ReadFifo, LineTypes
<1>3. FLAG' \in {0, 1} /\ PHASE_COUNTER' \in 0 .. Width - 1
  <2>1. PHASE_COUNTER + 1 \in Int
    BY <1>1 DEF LineTypes
  <2>2. (PHASE_COUNTER + 1) % Width \in 0 .. Width - 1
    BY <1>1, <2>1
  <2>3. QED
    BY <1>1, <2>2 DEF MCLK, CountBits, LineTypes
<1>4. DIN' \in Bits
  <2>1. ASSUME NEW word \in {AUDIO, AUDIO'}
        PROVE  [sample |-> word, bit |-> Width - 1 - PHASE_COUNTER] \in Bits
    BY <1>1, <1>2 DEF LineTypes, Bits
  <2>2. QED
    BY <2>1 DEF MCLK, SendBit, LineTypes
<1>5. /\ lrSeen' \in {0, 1} /\ slot' \in Seq(Bits) /\ received' \in Seq(Bits)
      /\ changes' \in 0 .. SyncCap
  <2> DEFINE bits == IF Len(slot) < Width THEN Append(slot, DIN) ELSE slot
  <2>1. bits \in Seq(Bits) /\ << >> \in Seq(Bits)
    BY DEF LineTypes
  <2>2. (IF changes < SyncCap THEN changes + 1 ELSE changes) \in 0 .. SyncCap
    BY <1>1 DEF LineTypes
  <2>3. CASE ~RisingSCLK
    BY <2>3 DEF MCLK, Receive, LineTypes
  <2>4. CASE RisingSCLK
    BY <2>1, <2>2, <2>4 DEF MCLK, Receive, LineTypes
  <2>5. QED
    BY <2>3, <2>4
<1>6. QED
  BY <1>2, <1>3, <1>4, <1>5 DEF LineTypes

(* The first edge after power-up can make the codec see one change.        *)
LEMMA LineFirst ==
  ASSUME LineTypes, PoweredUp, NEW h \in {0, 1}, NEW n \in 0 .. Width - 1, NEW t \in 0 .. 3,
         At(h, n, t)', MCLK
  PROVE  changes' <= 1 /\ InStep(h, n, t)'
<1>1. changes' <= 1
  BY DEF MCLK, Receive, PoweredUp, SyncCap
<1>2. ASSUME changes' >= 1 PROVE lrSeen' = Seen(h, n, t)
  <2>1. RisingSCLK
    BY <1>2 DEF MCLK, Receive, PoweredUp
  <2>2. t >= 2 /\ LRCLK' = h
    BY <2>1 DEF RisingSCLK, At
  <2>3. QED
    BY <2>1, <2>2 DEF MCLK, Receive, Seen, Unseen
<1>3. changes' \in Int
  BY DEF MCLK, Receive, PoweredUp, SyncCap
<1>4. QED
  BY <1>1, <1>2, <1>3 DEF InStep, SyncCap

(* Edges of MCLK between those of SCLK change nothing on the line.         *)
LEMMA LineQuiet ==
  ASSUME LineTypes, NEW h \in {0, 1}, NEW n \in 0 .. Width - 1, NEW t \in {0, 2},
         At(h, n, t), InStep(h, n, t), At(h, n, t + 1)', MCLK
  PROVE  InStep(h, n, t + 1)'
<1>1. SCLK' = SCLK /\ LRCLK' = LRCLK
  BY DEF At
<1>2. UNCHANGED <<AUDIO, FLAG, PHASE_COUNTER, DIN, lrSeen, slot, received, changes>>
  BY <1>1 DEF MCLK, ReadFifo, RisingLRCLK, CountBits, RisingSCLK, SendBit, FallingSCLK, Receive
<1>3. (t < 2 <=> t + 1 < 2)
  OBVIOUS
<1>4. /\ Unseen(n, t) <=> Unseen(n, t + 1)
      /\ Seen(h, n, t) = Seen(h, n, t + 1)
      /\ LastBit(n, t) = LastBit(n, t + 1)
  BY <1>3 DEF Unseen, Seen, LastBit
<1>5. QED
  BY <1>1, <1>2, <1>3, <1>4 DEF InStep, WireInStep, SlotInStep, SlotWhole, SecondHalf

(* One more bit of a slot.                                                 *)
LEMMA BitAppended ==
  ASSUME NEW s \in Seq(Bits), NEW d \in Bits
  PROVE  /\ Append(s, d) \in Seq(Bits)
         /\ Len(Append(s, d)) = Len(s) + 1 /\ Len(s) \in Nat
         /\ Append(s, d)[Len(s) + 1] = d
         /\ \A i \in 1 .. Len(s) : Append(s, d)[i] = s[i]
  OBVIOUS

(* A rising SCLK within a half: one more bit of the slot.                  *)
LEMMA LineBit ==
  ASSUME LineTypes, NEW h \in {0, 1}, NEW n \in 1 .. Width - 1,
         At(h, n, 1), InStep(h, n, 1), At(h, n, 2)', MCLK, changes >= 1
  PROVE  InStep(h, n, 2)'
<1>1. Width \in Nat \ {0, 1} /\ SyncCap = 4 /\ changes \in 0 .. 4
  BY I2SAssumption DEF SyncCap, LineTypes
<1>2. SCLK = 0 /\ SCLK' = 1 /\ LRCLK = h /\ LRCLK' = h /\ RisingSCLK /\ ~FallingSCLK /\ ~RisingLRCLK
  BY DEF At, RisingSCLK, FallingSCLK, RisingLRCLK
<1>3. /\ ~Unseen(n, 1) /\ ~Unseen(n, 2) /\ Seen(h, n, 1) = h /\ Seen(h, n, 2) = h
      /\ LastBit(n, 1) = n - 1 /\ LastBit(n, 2) = n
  BY DEF Unseen, Seen, LastBit
<1>4. lrSeen = h
  BY <1>3 DEF InStep
<1>5. /\ AUDIO' = AUDIO /\ DIN' = DIN /\ FLAG' = h
      /\ PHASE_COUNTER' = IF h # FLAG THEN 0 ELSE (PHASE_COUNTER + 1) % Width
      /\ lrSeen' = h /\ received' = received /\ changes' = changes
      /\ slot' = IF Len(slot) < Width THEN Append(slot, DIN) ELSE slot
  BY <1>2, <1>4 DEF MCLK, ReadFifo, CountBits, SendBit, Receive
<1>6. ASSUME changes >= 3
      PROVE  /\ PHASE_COUNTER' = n
             /\ SlotInStep(h, n, 2)'
             /\ \A i \in 1 .. Len(slot') : i \in 1 .. Len(slot) \/ slot'[i].sample = AUDIO
             /\ \A i \in 1 .. Len(slot) : i \in 1 .. Len(slot') /\ slot'[i] = slot[i]
  <2>1. /\ PHASE_COUNTER = n - 1 /\ DIN.bit = Width - 1 - (n - 1) /\ DIN.sample = AUDIO
        /\ Len(slot) = n - 1
        /\ \A i \in 1 .. Len(slot) : slot[i].bit = Width - i /\ slot[i].sample = AUDIO
    BY <1>3, <1>6 DEF InStep, WireInStep, SlotInStep
  <2>2. FLAG = h
    BY <1>1, <1>3, <1>6 DEF InStep
  <2>3. PHASE_COUNTER' = n
    <3>1. PHASE_COUNTER + 1 = n /\ n \in 0 .. Width - 1
      BY <1>1, <2>1
    <3>2. n % Width = n
      BY <1>1, <3>1, SmallMod
    <3>3. QED
      BY <1>5, <2>2, <3>1, <3>2
  <2>4. /\ Len(slot') = n /\ slot'[n] = DIN
        /\ \A i \in 1 .. n - 1 : slot'[i] = slot[i]
    <3>1. slot' = Append(slot, DIN)
      BY <1>1, <1>5, <2>1
    <3>2. slot \in Seq(Bits) /\ DIN \in Bits
      BY DEF LineTypes
    <3>3. n = Len(slot) + 1
      BY <2>1
    <3>4. QED
      BY <2>1, <3>1, <3>2, <3>3, BitAppended
  <2>5. ASSUME NEW i \in 1 .. n PROVE slot'[i].bit = Width - i /\ slot'[i].sample = AUDIO
    <3>1. CASE i = n
      BY <1>1, <2>1, <2>4, <3>1
    <3>2. CASE i # n
      <4>1. i \in 1 .. n - 1 /\ i \in 1 .. Len(slot)
        BY <2>1, <3>2
      <4>2. QED
        BY <2>1, <2>4, <4>1
    <3>3. QED
      BY <3>1, <3>2
  <2>6. SlotInStep(h, n, 2)'
    <3>1. 1 \in 1 .. n
      OBVIOUS
    <3>2. \A i \in 1 .. n : slot'[i].sample = slot'[1].sample
      BY <2>5, <3>1
    <3>3. QED
      BY <1>3, <1>5, <2>4, <2>5, <3>2 DEF SlotInStep
  <2>7. QED
    BY <2>1, <2>3, <2>4, <2>5, <2>6
<1>7. ASSUME changes = SyncCap PROVE SlotWhole' /\ SecondHalf'
  <2>1. SlotWhole'
    BY <1>5, <1>7 DEF InStep, SlotWhole
  <2>2. SecondHalf'
    <3>1. SecondHalf
      BY <1>7 DEF InStep
    <3>2. QED
      BY <1>1, <1>2, <1>4, <1>5, <1>6, <1>7, <3>1 DEF SecondHalf
  <2>3. QED
    BY <2>1, <2>2
<1>8. QED
  BY <1>1, <1>3, <1>5, <1>6, <1>7 DEF InStep, WireInStep

(* The first rising SCLK of a half: the codec finds LRCLK changed, ends the*)
(* slot with the bit on the wire, and the transmitter aligns its counter.  *)
LEMMA LineEndsSlot ==
  ASSUME LineTypes, NEW h \in {0, 1},
         At(h, 0, 1), InStep(h, 0, 1), At(h, 0, 2)', MCLK, changes >= 1
  PROVE  InStep(h, 0, 2)'
<1>1. Width \in Nat \ {0, 1} /\ SyncCap = 4 /\ changes \in 0 .. 4
  BY I2SAssumption DEF SyncCap, LineTypes
<1>2. SCLK = 0 /\ SCLK' = 1 /\ LRCLK = h /\ LRCLK' = h /\ RisingSCLK /\ ~FallingSCLK /\ ~RisingLRCLK
  BY DEF At, RisingSCLK, FallingSCLK, RisingLRCLK
<1>3. /\ Unseen(0, 1) /\ ~Unseen(0, 2) /\ Seen(h, 0, 1) = 1 - h /\ Seen(h, 0, 2) = h
      /\ LastBit(0, 1) = Width - 1 /\ LastBit(0, 2) = 0 /\ 1 - h # h
  BY DEF Unseen, Seen, LastBit
<1>4. lrSeen = 1 - h
  BY <1>3 DEF InStep
<1>5. /\ AUDIO' = AUDIO /\ FLAG' = h
      /\ PHASE_COUNTER' = IF h # FLAG THEN 0 ELSE (PHASE_COUNTER + 1) % Width
      /\ lrSeen' = h /\ slot' = << >>
      /\ changes' = IF changes < SyncCap THEN changes + 1 ELSE changes
      /\ received' = IF Len(slot) < Width THEN Append(slot, DIN) ELSE slot
  BY <1>2, <1>3, <1>4 DEF MCLK, ReadFifo, CountBits, SendBit, Receive
<1>6. changes' >= 2
  BY <1>1, <1>5
<1>7. changes' >= 3 => changes >= 2
  BY <1>1, <1>5
<1>8. Len(slot') = 0
  BY <1>5
<1>9. ASSUME changes >= 2
      PROVE  PHASE_COUNTER' = 0 /\ SlotInStep(h, 0, 2)' /\ WireInStep(0, 2)'
  <2>1. FLAG = 1 - h
    BY <1>3, <1>9 DEF InStep
  <2>2. PHASE_COUNTER' = 0
    BY <1>3, <1>5, <2>1
  <2>3. SlotInStep(h, 0, 2)' /\ WireInStep(0, 2)'
    BY <1>3, <1>8 DEF SlotInStep, WireInStep
  <2>4. QED
    BY <2>2, <2>3
<1>10. ASSUME changes' = SyncCap PROVE SlotWhole' /\ SecondHalf'
  <2>1. changes >= 3
    BY <1>1, <1>5, <1>10
  <2>2. /\ Len(slot) = Width - 1 /\ DIN.bit = 0
        /\ \A i \in 1 .. Width - 1 : slot[i].bit = Width - i /\ slot[i].sample = slot[1].sample
        /\ h = 0 => \A i \in 1 .. Width - 1 : slot[i].sample = AUDIO
    BY <1>1, <1>3, <2>1 DEF InStep, WireInStep, SlotInStep
  <2>3. /\ Len(received') = Width /\ received'[Width] = DIN
        /\ \A i \in 1 .. Width - 1 : received'[i] = slot[i]
    <3>1. received' = Append(slot, DIN)
      BY <1>1, <1>5, <2>2
    <3>2. slot \in Seq(Bits) /\ DIN \in Bits
      BY DEF LineTypes
    <3>3. Len(slot) + 1 = Width
      BY <1>1, <2>2
    <3>4. QED
      BY <2>2, <3>1, <3>2, <3>3, BitAppended
  <2>4. 1 \in 1 .. Width - 1
    BY <1>1
  <2>5. ASSUME NEW i \in 1 .. Width PROVE received'[i].bit = Width - i
    BY <1>1, <2>2, <2>3, <2>5
  <2>6. SlotWhole'
    BY <2>2, <2>3, <2>4, <2>5 DEF SlotWhole
  <2>7. h = 0 => received'[1].sample = AUDIO'
    BY <1>5, <2>2, <2>3, <2>4
  <2>8. SecondHalf'
    BY <1>2, <1>5, <1>8, <2>7 DEF SecondHalf
  <2>9. QED
    BY <2>6, <2>8
<1>11. QED
  BY <1>3, <1>5, <1>6, <1>7, <1>9, <1>10 DEF InStep

(* A falling SCLK within a half puts the next bit on the wire.             *)
LEMMA LineNextBit ==
  ASSUME LineTypes, NEW h \in {0, 1}, NEW n \in 0 .. Width - 2,
         At(h, n, 3), InStep(h, n, 3), At(h, n + 1, 0)', MCLK
  PROVE  InStep(h, n + 1, 0)'
<1>1. Width \in Nat \ {0, 1} /\ n + 1 >= 1
  BY I2SAssumption
<1>2. SCLK = 1 /\ SCLK' = 0 /\ LRCLK = h /\ LRCLK' = h /\ ~RisingSCLK /\ FallingSCLK /\ ~RisingLRCLK
  BY DEF At, RisingSCLK, FallingSCLK, RisingLRCLK
<1>3. /\ ~Unseen(n, 3) /\ ~Unseen(n + 1, 0) /\ Seen(h, n, 3) = h /\ Seen(h, n + 1, 0) = h
      /\ LastBit(n, 3) = n /\ LastBit(n + 1, 0) = n
  BY <1>1 DEF Unseen, Seen, LastBit
<1>4. /\ UNCHANGED <<AUDIO, FLAG, PHASE_COUNTER, lrSeen, slot, received, changes>>
      /\ DIN' = [sample |-> AUDIO, bit |-> Width - 1 - PHASE_COUNTER]
  BY <1>2 DEF MCLK, ReadFifo, CountBits, SendBit, Receive
<1>5. changes >= 3 => WireInStep(n + 1, 0)' /\ SlotInStep(h, n + 1, 0)'
  BY <1>3, <1>4 DEF InStep, WireInStep, SlotInStep
<1>6. changes = SyncCap => SlotWhole' /\ SecondHalf'
  BY <1>2, <1>4 DEF InStep, SlotWhole, SecondHalf
<1>7. QED
  BY <1>3, <1>4, <1>5, <1>6 DEF InStep

(* The falling SCLK with which LRCLK changes: the last bit of the sample   *)
(* goes out, and as LRCLK rises the FIFO may show another sample.          *)
LEMMA LineNextHalf ==
  ASSUME LineTypes, NEW h \in {0, 1},
         At(h, Width - 1, 3), InStep(h, Width - 1, 3), At(1 - h, 0, 0)', MCLK
  PROVE  InStep(1 - h, 0, 0)'
<1>1. Width \in Nat \ {0, 1} /\ SyncCap = 4 /\ changes \in 0 .. 4
  BY I2SAssumption DEF SyncCap, LineTypes
<1>2. SCLK = 1 /\ SCLK' = 0 /\ LRCLK = h /\ LRCLK' = 1 - h /\ ~RisingSCLK /\ FallingSCLK
  BY DEF At, RisingSCLK, FallingSCLK
<1>3. /\ ~Unseen(Width - 1, 3) /\ Unseen(0, 0)
      /\ Seen(h, Width - 1, 3) = h /\ Seen(1 - h, 0, 0) = h
      /\ LastBit(Width - 1, 3) = Width - 1 /\ LastBit(0, 0) = Width - 1
  BY <1>1 DEF Unseen, Seen, LastBit
<1>4. /\ UNCHANGED <<FLAG, PHASE_COUNTER, lrSeen, slot, received, changes>>
      /\ h = 1 => AUDIO' = AUDIO
      /\ DIN'.bit = Width - 1 - PHASE_COUNTER
  BY <1>2 DEF MCLK, ReadFifo, RisingLRCLK, CountBits, SendBit, Receive
<1>5. changes >= 3 => WireInStep(0, 0)' /\ SlotInStep(1 - h, 0, 0)'
  <2>1. CASE h = 1
    BY <1>3, <1>4, <2>1 DEF InStep, WireInStep, SlotInStep
  <2>2. CASE h = 0
    BY <1>3, <1>4, <2>2 DEF InStep, WireInStep, SlotInStep
  <2>3. QED
    BY <2>1, <2>2
<1>6. ASSUME changes = SyncCap PROVE SlotWhole' /\ SecondHalf'
  <2>1. SlotWhole /\ SecondHalf /\ lrSeen = h
    BY <1>1, <1>3, <1>6 DEF InStep
  <2>2. SlotWhole'
    BY <1>4, <2>1 DEF SlotWhole
  <2>3. SecondHalf'
    BY <1>2, <1>4, <2>1 DEF SecondHalf
  <2>4. QED
    BY <2>2, <2>3
<1>7. QED
  BY <1>3, <1>4, <1>5, <1>6 DEF InStep

LEMMA LineStart == I2SInit => LineInv
<1> SUFFICES ASSUME I2SInit PROVE LineInv
  OBVIOUS
<1>1. Width \in Nat \ {0, 1}
  BY I2SAssumption
<1>2. DIN \in Bits /\ << >> \in Seq(Bits)
  BY <1>1 DEF I2SInit, Bits
<1>3. QED
  BY <1>2 DEF I2SInit, LineInv, LineTypes, PoweredUp, SyncCap

(* Before the codec has seen a change the next place is all that is known. *)
LEMMA LineStep ==
  ASSUME LineInv, [MCLK]_i2sVars
  PROVE  LineInv'
<1>1. CASE UNCHANGED i2sVars
  BY <1>1 DEF i2sVars, LineInv, LineTypes, PoweredUp, At, InStep, WireInStep, SlotInStep,
              SlotWhole, SecondHalf
<1>2. CASE MCLK /\ PoweredUp
  <2>1. PICK h \in {0, 1}, n \in 0 .. Width - 1, t \in 0 .. 3 : COUNTER = Place(h, n, t)
    BY <1>2, PlaceOf DEF PoweredUp
  <2>2. At(h, n, t)'
    BY <1>2, <2>1, DividerEdge DEF MCLK
  <2>3. LineTypes /\ LRCLK' \in {0, 1}
    BY <2>2 DEF LineInv, At
  <2>4. LineTypes'
    BY <1>2, <2>3, LineTypesStep
  <2>5. QED
    BY <1>2, <2>2, <2>3, <2>4, LineFirst DEF LineInv
<1>3. CASE MCLK /\ ~PoweredUp
  <2>1. PICK h \in {0, 1}, n \in 0 .. Width - 1, t \in 0 .. 3 : At(h, n, t) /\ InStep(h, n, t)
    BY <1>3 DEF LineInv
  <2>2. Width \in Nat \ {0, 1} /\ ClockDivider /\ LineTypes
    BY <1>3, I2SAssumption DEF LineInv, MCLK
  <2>3. COUNTER \in 0 .. CounterMod - 1
    <3>1. Place(h, n, t) + 1 \in Int /\ CounterMod \in Nat \ {0}
      BY <2>2, PlaceClocks DEF CounterMod
    <3>2. QED
      BY <2>1, <3>1 DEF At
  <2>4. changes >= 1
    BY <1>3, <2>2, <2>3 DEF PoweredUp, LineTypes
  <2>5. ASSUME NEW h2 \in {0, 1}, NEW n2 \in 0 .. Width - 1, NEW t2 \in 0 .. 3,
               At(h2, n2, t2)', InStep(h2, n2, t2)'
        PROVE  LineInv'
    <3>1. LineTypes'
      BY <1>3, <2>2, <2>5, LineTypesStep DEF At
    <3>2. QED
      BY <2>5, <3>1 DEF LineInv
  <2>6. CASE t < 3
    <3>1. t + 1 \in 0 .. 3 /\ At(h, n, t + 1)'
      BY <2>1, <2>2, <2>6, NextPlace, DividerEdge
    <3>2. CASE t \in {0, 2}
      <4>1. InStep(h, n, t + 1)'
        BY <1>3, <2>1, <2>2, <3>1, <3>2, LineQuiet
      <4>2. QED
        BY <2>5, <3>1, <4>1
    <3>3. CASE t = 1 /\ n # 0
      <4>1. n \in 1 .. Width - 1 /\ At(h, n, 1) /\ InStep(h, n, 1) /\ At(h, n, 2)'
        BY <2>1, <3>1, <3>3
      <4>2. InStep(h, n, 2)'
        BY <1>3, <2>2, <2>4, <4>1, LineBit
      <4>3. QED
        BY <2>5, <4>1, <4>2
    <3>4. CASE t = 1 /\ n = 0
      <4>1. At(h, 0, 1) /\ InStep(h, 0, 1) /\ At(h, 0, 2)'
        BY <2>1, <3>1, <3>4
      <4>2. InStep(h, 0, 2)'
        BY <1>3, <2>2, <2>4, <4>1, LineEndsSlot
      <4>3. QED
        BY <2>5, <3>4, <4>1, <4>2
    <3>5. QED
      BY <2>6, <3>2, <3>3, <3>4
  <2>7. CASE t = 3 /\ n # Width - 1
    <3>1. n \in 0 .. Width - 2 /\ n + 1 \in 0 .. Width - 1 /\ At(h, n, 3) /\ InStep(h, n, 3)
      BY <2>1, <2>2, <2>7
    <3>2. At(h, n + 1, 0)'
      BY <2>1, <2>2, <2>7, <3>1, NextPlace, DividerEdge
    <3>3. InStep(h, n + 1, 0)'
      BY <1>3, <2>2, <3>1, <3>2, LineNextBit
    <3>4. QED
      BY <2>5, <3>1, <3>2, <3>3
  <2>8. CASE t = 3 /\ n = Width - 1
    <3>1. 1 - h \in {0, 1} /\ 0 \in 0 .. Width - 1 /\ At(h, Width - 1, 3) /\ InStep(h, Width - 1, 3)
      BY <2>1, <2>2, <2>8
    <3>2. At(1 - h, 0, 0)'
      BY <2>1, <2>2, <2>8, <3>1, NextPlace, DividerEdge
    <3>3. InStep(1 - h, 0, 0)'
      BY <1>3, <2>2, <3>1, <3>2, LineNextHalf
    <3>4. QED
      BY <2>5, <3>1, <3>2, <3>3
  <2>9. QED
    BY <2>6, <2>7, <2>8
<1>4. QED
  BY <1>1, <1>2, <1>3

(* Whatever the registers of transmitter and codec hold at power-up, every *)
(* slot from the fourth on brings one whole sample, most significant bit   *)
(* first, for samples of any width; its last bit alone may be of the next. *)
THEOREM SlotsWhole == I2SSpec => []WholeSample
<1>1. LineInv => WholeSample
  <2> SUFFICES ASSUME LineInv, changes = SyncCap PROVE SlotWhole
    BY DEF WholeSample, SlotWhole
  <2>1. ~PoweredUp
    BY DEF PoweredUp, SyncCap
  <2>2. QED
    BY <2>1 DEF LineInv, InStep
<1>2. QED
  BY <1>1, LineStart, LineStep, PTL DEF I2SSpec

(* The two channels of a frame play the same sample, for samples of any    *)
(* width: the FIFO moves on once a frame.                                  *)
THEOREM ChannelsAlike == I2SSpec => BothChannels
<1>1. LineInv /\ [MCLK]_i2sVars
        => [lrSeen = 0 /\ lrSeen' = 1 /\ changes = SyncCap
              => received'[1].sample = received[1].sample]_i2sVars
  <2> SUFFICES ASSUME LineInv, MCLK, lrSeen = 0, lrSeen' = 1, changes = SyncCap
               PROVE  received'[1].sample = received[1].sample
    BY DEF i2sVars
  <2>1. Width \in Nat \ {0, 1} /\ ~PoweredUp /\ slot \in Seq(Bits) /\ DIN \in Bits
    BY I2SAssumption DEF PoweredUp, SyncCap, LineInv, LineTypes
  <2>2. PICK h \in {0, 1}, n \in 0 .. Width - 1, t \in 0 .. 3 : At(h, n, t) /\ InStep(h, n, t)
    BY <2>1 DEF LineInv
  <2>3. RisingSCLK /\ LRCLK' # lrSeen
    BY DEF MCLK, Receive
  <2>4. lrSeen = Seen(h, n, t) /\ Len(slot) = LastBit(n, t) /\ SecondHalf
    BY <2>2 DEF InStep, SyncCap, SlotInStep
  <2>5. Len(slot) = Width - 1
    <3>1. t = 1
      <4>1. At(h, n, t + 1)' \/ t = 3
        BY <2>1, <2>2, NextPlace, DividerEdge DEF MCLK
      <4>2. SCLK = 0 /\ SCLK' = 1
        BY <2>3 DEF RisingSCLK
      <4>3. QED
        BY <2>2, <4>1, <4>2 DEF At
    <3>2. LRCLK' = h
      BY <2>1, <2>2, <3>1, NextPlace, DividerEdge DEF MCLK, At
    <3>3. n = 0
      BY <2>3, <2>4, <3>1, <3>2 DEF Seen, Unseen
    <3>4. QED
      BY <2>4, <3>1, <3>3 DEF LastBit, Unseen
  <2>6. received' = Append(slot, DIN)
    BY <2>1, <2>3, <2>5 DEF MCLK, Receive
  <2>7. received'[1] = slot[1] /\ 1 \in 1 .. Len(slot)
    <3>1. 1 \in 1 .. Len(slot)
      BY <2>1, <2>5
    <3>2. QED
      BY <2>1, <2>6, <3>1, BitAppended
  <2>8. QED
    BY <2>4, <2>7 DEF SecondHalf
<1>2. QED
  BY <1>1, LineStart, LineStep, PTL DEF I2SSpec, BothChannels
===============================================================================
