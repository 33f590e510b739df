-------------------------- MODULE SynthSystem_proofs --------------------------
(***************************************************************************)
(* Theorems about the firmware with the engine, for every number of keys,  *)
(* every width, every timing of the bus and every stream of MIDI events.   *)
(***************************************************************************)
EXTENDS SynthSystem, EnvelopeControl, SynthIP_proofs

-----------------------------------------------------------------------------
(* The envelope arithmetic                                                 *)

(* A quotient lies between zero and its dividend, and a larger divisor does*)
(* not make it larger.                                                     *)
LEMMA QuotientNat ==
  ASSUME NEW x \in Nat, NEW n \in Nat \ {0}
  PROVE  /\ x \div n \in Nat /\ x \div n <= x
         /\ n * (x \div n) <= x /\ x < n * (x \div n) + n
<1> DEFINE q == x \div n
<1>1. q \in Int /\ n * q <= x /\ x < n * q + n
  OBVIOUS
<1>2. q >= 0
  <2>1. q <= -1 => n * q <= n * (-1)
    BY <1>1
  <2>2. QED
    BY <1>1, <2>1
<1>3. n * q >= q
  BY <1>1, <1>2
<1>4. QED
  BY <1>1, <1>2, <1>3

LEMMA QuotientFalls ==
  ASSUME NEW x \in Nat, NEW m \in Nat \ {0}, NEW n \in Nat \ {0}, m <= n
  PROVE  x \div n <= x \div m
<1> DEFINE p == x \div m
           q == x \div n
<1>1. p \in Nat /\ q \in Nat /\ n * q <= x /\ x < m * p + m
  BY QuotientNat
<1>2. SUFFICES ASSUME q >= p + 1 PROVE FALSE
  BY <1>1
<1>3. m * q >= m * (p + 1)
  BY <1>1, <1>2
<1>4. n * q >= m * q
  BY <1>1
<1>5. m * (p + 1) = m * p + m
  BY <1>1
<1>6. QED
  BY <1>1, <1>3, <1>4, <1>5

LEMMA QuotientGrows ==
  ASSUME NEW x \in Nat, NEW y \in Nat, NEW n \in Nat \ {0}, x <= y
  PROVE  x \div n <= y \div n
<1> DEFINE p == x \div n
           q == y \div n
<1>1. p \in Nat /\ q \in Nat /\ n * p <= x /\ y < n * q + n
  BY QuotientNat
<1>2. SUFFICES ASSUME p >= q + 1 PROVE FALSE
  BY <1>1
<1>3. n * p >= n * (q + 1)
  BY <1>1, <1>2
<1>4. n * (q + 1) = n * q + n
  BY <1>1
<1>5. QED
  BY <1>1, <1>3, <1>4

(* A length in samples is never zero, and a longer time is no fewer.       *)
LEMMA LenGrows ==
  ASSUME NEW a \in Nat, NEW b \in Nat, a <= b
  PROVE  LEN(a) \in Nat \ {0} /\ LEN(b) \in Nat \ {0} /\ LEN(a) <= LEN(b)
<1>1. a * F_S \in Nat /\ b * F_S \in Nat /\ a * F_S <= b * F_S
  BY CalcAssumption
<1>2. /\ (a * F_S) \div 1000 \in Nat /\ (b * F_S) \div 1000 \in Nat
      /\ (a * F_S) \div 1000 <= (b * F_S) \div 1000
  BY <1>1, QuotientNat, QuotientGrows
<1>3. QED
  BY <1>2 DEF LEN

(* The amplitudes are natural numbers, and the attack's fits the bus.      *)
LEMMA PeakType ==
  ASSUME NEW g \in [Knobs -> Nat]
  PROVE  /\ \A pa \in PeakAtts(g) : pa \in Nat /\ pa < RegMod
         /\ \A ps \in PeakSuss(g) : ps \in Nat
<1>1. g.peak_att \in Nat /\ g.peak_sus \in Nat /\ PeakDen \in Nat \ {0}
  BY CalcAssumption DEF Knobs, PeakDen
<1>2. ASSUME NEW peak \in Nat, NEW v \in Truncations(peak)
      PROVE  v \in Nat /\ (peak < 2 * PeakDen => v < RegMod)
  <2>1. PICK e \in Slack : v = (peak * AMP_ONE) \div PeakDen + e /\ v >= 0
    BY <1>2 DEF Truncations
  <2>2. (peak * AMP_ONE) \div PeakDen \in Int /\ e \in Int
    BY <1>1, CalcAssumption
  <2>3. v \in Nat
    BY <2>1, <2>2
  <2>4. ASSUME peak < 2 * PeakDen PROVE v < RegMod
    <3>1. peak \in 0 .. 2 * PeakDen - 1
      BY <1>1, <2>4
    <3>2. QED
      BY <2>1, <3>1, RegisterAssumption
  <2>5. QED
    BY <2>3, <2>4
<1>3. PEAK_CAP \in Nat /\ PEAK_CAP < RegMod
  BY CalcAssumption, RegisterAssumption
<1>4. \A pa \in PeakAtts(g) : pa \in Nat /\ pa < RegMod
  BY <1>1, <1>2, <1>3 DEF PeakAtts
<1>5. \A ps \in PeakSuss(g) : ps \in Nat
  BY <1>1, <1>2 DEF PeakSuss
<1>6. QED
  BY <1>4, <1>5

(* A setting of calc_adsr() is made from two amplitudes and four lengths.  *)
LEMMA SettingForm ==
  ASSUME NEW g \in [Knobs -> Nat], NEW s \in Settings(g)
  PROVE  \E pa, ps \in Nat : pa < RegMod /\ ps <= pa /\ s = Setting(g, pa, ps)
<1>1. PICK p \in PeakAtts(g) \X PeakSuss(g) :
        /\ IF g.peak_att = 0 THEN p[1] = p[2] ELSE p[1] >= p[2]
        /\ s = Setting(g, p[1], p[2])
  BY DEF Settings
<1>2. p[1] \in Nat /\ p[1] < RegMod /\ p[2] \in Nat /\ p[1] >= p[2]
  BY <1>1, PeakType
<1>3. QED
  BY <1>1, <1>2

(* Six natural numbers that the bus does not cut.                          *)
LEMMA SettingType ==
  ASSUME NEW g \in [Knobs -> Nat], NEW s \in Settings(g)
  PROVE  s \in [1 .. 6 -> 0 .. RegMod - 1]
<1>1. PICK pa, ps \in Nat : pa < RegMod /\ ps <= pa /\ s = Setting(g, pa, ps)
  BY SettingForm
<1>2. /\ Attacked(g) \in Nat /\ Decayed(g) \in Nat /\ Sustained(g) \in Nat /\ Released(g) \in Nat
  BY DEF Attacked, Decayed, Sustained, Released, Knobs, Times
<1>3. \A ms \in Nat : LEN(ms) \in Nat \ {0}
  BY LenGrows
<1>4. RegMod \in Nat
  BY FirmwareAssumption
<1>5. \A x \in Nat, n \in Nat \ {0} : x < RegMod => x \div n \in 0 .. RegMod - 1
  BY <1>4, QuotientNat
<1>6. pa - ps \in Nat /\ pa - ps < RegMod /\ ps < RegMod
  BY <1>1, <1>4
<1>7. /\ pa \in 0 .. RegMod - 1 /\ ps \in 0 .. RegMod - 1
  BY <1>1, <1>4, <1>6
<1>8. pa \div LEN(Attacked(g)) \in 0 .. RegMod - 1
  BY <1>1, <1>2, <1>3, <1>5
<1>9. (pa - ps) \div LEN(Decayed(g)) \in 0 .. RegMod - 1
  BY <1>2, <1>3, <1>5, <1>6
<1>10. /\ ps \div LEN(Sustained(g)) \in 0 .. RegMod - 1
       /\ ps \div LEN(Released(g)) \in 0 .. RegMod - 1
  BY <1>1, <1>2, <1>3, <1>5, <1>6
<1>11. QED
  BY <1>1, <1>7, <1>8, <1>9, <1>10 DEF Setting

(* The registers of an accepted setting fit one another.                   *)
LEMMA SettingFits ==
  ASSUME NEW g \in [Knobs -> Nat], NEW s \in Settings(g), Accepted(g)
  PROVE  s[4] <= s[1] /\ s[3] <= s[1] - s[4] /\ s[5] <= s[6] /\ s[6] <= s[4]
<1>1. PICK pa, ps \in Nat : pa < RegMod /\ ps <= pa /\ s = Setting(g, pa, ps)
  BY SettingForm
<1>2. /\ Decayed(g) \in Nat /\ Sustained(g) \in Nat /\ Released(g) \in Nat
      /\ Released(g) <= Sustained(g)
  BY DEF Decayed, Sustained, Released, Knobs, Times, Accepted
<1>3. /\ LEN(Decayed(g)) \in Nat \ {0}
      /\ LEN(Sustained(g)) \in Nat \ {0} /\ LEN(Released(g)) \in Nat \ {0}
      /\ LEN(Released(g)) <= LEN(Sustained(g))
  BY <1>2, LenGrows
<1>4. pa - ps \in Nat
  BY <1>1
<1>5. /\ (pa - ps) \div LEN(Decayed(g)) <= pa - ps
      /\ ps \div LEN(Released(g)) <= ps
      /\ ps \div LEN(Sustained(g)) <= ps \div LEN(Released(g))
  BY <1>3, <1>4, QuotientNat, QuotientFalls
<1>6. QED
  BY <1>1, <1>5 DEF Setting
-----------------------------------------------------------------------------
(* What the firmware puts on the bus                                       *)

(* The six writes of a setting.                                            *)
Writes(s) == [i \in 1 .. 6 |-> [acc |-> "ctrl", reg |-> i - 1, val |-> s[i]]]

LEMMA CalcForm ==
  ASSUME NEW g \in [Knobs -> Nat], NEW t \in calc_adsr(g)
  PROVE  \/ ~Accepted(g) /\ t = << >>
         \/ Accepted(g) /\ \E s \in Settings(g) : t = Writes(s)
<1>1. CASE ~Accepted(g)
  BY <1>1 DEF calc_adsr
<1>2. CASE Accepted(g)
  <2>1. PICK s \in Settings(g) : t = [i \in 1 .. 6 |-> SetReg(i - 1, s[i])]
    BY <1>2 DEF calc_adsr
  <2>2. ASSUME NEW i \in 1 .. 6
        PROVE  SetReg(i - 1, s[i]) = [acc |-> "ctrl", reg |-> i - 1, val |-> s[i]]
    <3>1. s[i] \in 0 .. RegMod - 1
      BY SettingType
    <3>2. s[i] % RegMod = s[i]
      BY <3>1, ModSmall, FirmwareAssumption
    <3>3. QED
      BY <3>2 DEF SetReg
  <2>3. t = Writes(s)
    BY <2>1, <2>2 DEF Writes
  <2>4. QED
    BY <1>2, <2>3
<1>3. QED
  BY <1>1, <1>2

LEMMA WritesType ==
  ASSUME NEW s \in [1 .. 6 -> 0 .. RegMod - 1]
  PROVE  /\ Writes(s) \in Seq(Accesses) /\ Len(Writes(s)) = 6
         /\ DOMAIN Writes(s) = 1 .. 6
         /\ \A i \in 1 .. 6 : Writes(s)[i] = [acc |-> "ctrl", reg |-> i - 1, val |-> s[i]]
<1>1. \A i \in 1 .. 6 : [acc |-> "ctrl", reg |-> i - 1, val |-> s[i]] \in Accesses
  <2> TAKE i \in 1 .. 6
  <2>1. i - 1 \in 0 .. 15 /\ s[i] \in 0 .. RegMod - 1
    OBVIOUS
  <2>2. QED
    BY <2>1 DEF Accesses
<1>2. Writes(s) \in [1 .. 6 -> Accesses]
  BY <1>1 DEF Writes
<1>3. QED
  BY <1>2 DEF Writes

LEMMA CalcType ==
  ASSUME NEW g \in [Knobs -> Nat], NEW t \in calc_adsr(g)
  PROVE  t \in Seq(Accesses) /\ Len(t) <= 6
<1>1. CASE t = << >>
  BY <1>1
<1>2. ASSUME NEW s \in Settings(g), t = Writes(s)
      PROVE  t \in Seq(Accesses) /\ Len(t) <= 6
  <2>1. s \in [1 .. 6 -> 0 .. RegMod - 1]
    BY SettingType
  <2>2. Writes(s) \in Seq(Accesses) /\ Len(Writes(s)) = 6
    BY <2>1, WritesType
  <2>3. QED
    BY <1>2, <2>2
<1>3. QED
  BY <1>1, <1>2, CalcForm

(* What an event makes the firmware do.                                    *)
Handled(e) ==
  OnNote(e) \/ OnSwitch(e) \/ OnPedal(e) \/ OnFlip(e) \/ OnKnob(e) \/ OnBend(e) \/ OnOther(e)

(* The controller after the n events of a packet it sent.                  *)
Told(packet, n) ==
  /\ keyDown' = KeysAfter(keyDown, packet)
  /\ pedalDown' = PedalAfter(pedalDown, inverted, packet)
  /\ inverted' = InvertedAfter(inverted, packet, n)

LEMMA PollForm ==
  ASSUME MIDI_poll
  PROVE  /\ todo = << >>
         /\ \E n \in 1 .. MaxEvents : \E packet \in [1 .. n -> Events] :
              /\ packet[1] \in Events /\ packet[1] \in MidiEvents
              /\ Handled(packet[1])
              /\ Told(packet, n)
<1>1. todo = << >>
  BY DEF MIDI_poll
<1>2. PICK n \in 1 .. MaxEvents :
        \E packet \in [1 .. n -> Events] :
          Handled(packet[1]) /\ Told(packet, n)
  BY DEF MIDI_poll, Handled, Told
<1>3. PICK packet \in [1 .. n -> Events] :
        Handled(packet[1]) /\ Told(packet, n)
  BY <1>2
<1>4. 1 \in 1 .. n
  BY FirmwareAssumption
<1>5. packet[1] \in Events /\ packet[1] \in MidiEvents
  BY <1>4, EventAssumption
<1>6. QED
  BY <1>1, <1>3, <1>5

(* A control access with a value cut to the register's width.              *)
LEMMA SetRegType ==
  ASSUME NEW reg \in 0 .. 15, NEW v \in Int
  PROVE  /\ SetReg(reg, v) \in Accesses
         /\ SetReg(reg, v) = [acc |-> "ctrl", reg |-> reg, val |-> v % RegMod]
<1>1. v % RegMod \in 0 .. RegMod - 1
  BY ModRange, FirmwareAssumption
<1>2. QED
  BY <1>1 DEF SetReg, Accesses

LEMMA KnobType ==
  ASSUME NEW g \in [Knobs -> Nat], NEW knob \in Knobs, NEW par \in Pars
  PROVE  [g EXCEPT ![knob] = KnobValue(knob, par)] \in [Knobs -> Nat]
<1>1. par \in Nat /\ ParMax \in Nat \ {0} /\ PeakUnit \in Nat
  BY CalcAssumption DEF Pars
<1>2. CASE knob \in Times
  <2>1. par * TimeRange[knob] \in Nat
    BY <1>1, <1>2, CalcAssumption
  <2>2. (par * TimeRange[knob]) \div ParMax \in Nat
    BY <1>1, <2>1, QuotientNat
  <2>3. knob # "peak_att" /\ knob # "peak_sus"
    BY <1>2 DEF Times
  <2>4. KnobValue(knob, par) \in Nat
    BY <1>2, <2>2, <2>3 DEF KnobValue
  <2>5. QED
    BY <2>4
<1>3. CASE knob \in {"peak_att", "peak_sus"}
  <2>1. par * PeakUnit \in Nat /\ (2 * par) * PeakUnit \in Nat
    BY <1>1
  <2>2. knob \notin Times
    BY <1>3 DEF Times
  <2>3. KnobValue(knob, par) \in Nat
    BY <1>1, <1>3, <2>1, <2>2 DEF KnobValue
  <2>4. QED
    BY <2>3
<1>4. QED
  BY <1>2, <1>3 DEF Knobs

(* One event leaves the firmware's variables in their types.               *)
LEMMA HandledType ==
  ASSUME FwTypeOK, todo = << >>, NEW e \in MidiEvents, Handled(e)
  PROVE  /\ globals' \in [Knobs -> Nat] /\ ped_flip' \in BOOLEAN
         /\ todo' \in Seq(Accesses) /\ Len(todo') <= 6
<1> DEFINE Goal == /\ globals' \in [Knobs -> Nat] /\ ped_flip' \in BOOLEAN
                   /\ todo' \in Seq(Accesses) /\ Len(todo') <= 6
<1>0. << >> \in Seq(Accesses) /\ Len(<< >>) = 0
  OBVIOUS
<1>1. CASE OnNote(e)
  <2>1. e.note \in Nat /\ e.vel \in Nat
    BY <1>1 DEF OnNote, MidiEvents, Pars
  <2>2. CASE e.channel # 0 \/ e.note \notin Notes
    BY <1>0, <1>1, <2>2 DEF OnNote, set_note, FwTypeOK
  <2>3. CASE ~(e.channel # 0 \/ e.note \notin Notes) /\ e.vel = 0
    <3>1. Read(e.note) \in Accesses /\ WriteBack(e.note) \in Accesses
      BY <2>3 DEF Read, WriteBack, Accesses
    <3>2. todo' = <<Read(e.note), WriteBack(e.note)>>
      BY <1>1, <2>3 DEF OnNote, set_note
    <3>3. QED
      BY <1>1, <3>1, <3>2 DEF OnNote, FwTypeOK
  <2>4. CASE ~(e.channel # 0 \/ e.note \notin Notes) /\ e.vel # 0
    <3>1. Press(e.note, e.vel) \in Accesses
      BY <2>1, <2>4 DEF Press, Accesses
    <3>2. todo' = <<Press(e.note, e.vel)>>
      BY <1>1, <2>4 DEF OnNote, set_note
    <3>3. QED
      BY <1>1, <3>1, <3>2 DEF OnNote, FwTypeOK
  <2>5. QED
    BY <2>2, <2>3, <2>4
<1>2. ASSUME NEW reg \in 0 .. 15, NEW v \in Int, todo' = set_ctrl(e.channel, reg, v),
             UNCHANGED <<globals, ped_flip>>
      PROVE  Goal
  <2>1. todo' = << >> \/ todo' = <<SetReg(reg, v)>>
    BY <1>2 DEF set_ctrl
  <2>2. SetReg(reg, v) \in Accesses
    BY SetRegType
  <2>3. <<SetReg(reg, v)>> \in Seq(Accesses) /\ Len(<<SetReg(reg, v)>>) <= 6
    BY <2>2
  <2>4. QED
    BY <1>0, <1>2, <2>1, <2>3 DEF FwTypeOK
<1>3. CASE OnSwitch(e)
  <2>1. e.reg \in 0 .. 15 /\ e.par \in Int
    BY <1>3 DEF OnSwitch, MidiEvents, Pars
  <2>2. QED
    BY <1>2, <1>3, <2>1 DEF OnSwitch
<1>4. CASE OnPedal(e)
  <2>1. RegSUS \in 0 .. 15 /\ e.par \in Int /\ -1 - e.par \in Int
    BY <1>4 DEF OnPedal, MidiEvents, Pars, RegSUS
  <2>2. QED
    BY <1>2, <1>4, <2>1 DEF OnPedal
<1>5. CASE OnFlip(e)
  BY <1>0, <1>5 DEF OnFlip, FwTypeOK
<1>6. CASE OnKnob(e)
  <2>1. e.knob \in Knobs /\ e.par \in Pars
    BY <1>6 DEF OnKnob, MidiEvents
  <2>2. globals' \in [Knobs -> Nat]
    BY <1>6, <2>1, KnobType DEF OnKnob, FwTypeOK
  <2>3. todo' \in calc_adsr(globals')
    BY <1>6 DEF OnKnob
  <2>5. todo' \in Seq(Accesses) /\ Len(todo') <= 6
    BY <2>2, <2>3, CalcType
  <2>6. QED
    BY <1>6, <2>2, <2>5 DEF OnKnob, FwTypeOK
<1>7. CASE OnBend(e)
  <2>1. RegBEND \in 0 .. 15 /\ e.val \in Int
    BY <1>7 DEF OnBend, MidiEvents, RegBEND
  <2>2. QED
    BY <1>2, <1>7, <2>1 DEF OnBend
<1>8. CASE OnOther(e)
  BY <1>8 DEF OnOther, FwTypeOK
<1>9. QED
  BY <1>1, <1>3, <1>4, <1>5, <1>6, <1>7, <1>8 DEF Handled

LEMMA PollType ==
  ASSUME FwTypeOK, MIDI_poll
  PROVE  FwTypeOK'
<1>0. PICK n \in 1 .. MaxEvents :
        \E packet \in [1 .. n -> Events] :
          /\ packet[1] \in MidiEvents /\ Handled(packet[1])
          /\ Told(packet, n)
  BY PollForm
<1>1. PICK packet \in [1 .. n -> Events] :
        /\ packet[1] \in MidiEvents /\ Handled(packet[1])
        /\ Told(packet, n)
  BY <1>0
<1>2. todo = << >>
  BY PollForm
<1>3. /\ globals' \in [Knobs -> Nat] /\ ped_flip' \in BOOLEAN
      /\ todo' \in Seq(Accesses) /\ Len(todo') <= 6
  BY <1>1, <1>2, HandledType
<1>4. keyDown' \in [Notes -> BOOLEAN]
  BY <1>1 DEF Told, KeysAfter, FwTypeOK
<1>5. inverted' \in BOOLEAN
  BY <1>1 DEF Told, InvertedAfter, FwTypeOK
<1>6. pedalDown' \in BOOLEAN
  BY <1>1 DEF Told, PedalAfter, FwTypeOK
<1>7. QED
  BY <1>3, <1>4, <1>5, <1>6 DEF FwTypeOK

LEMMA FwStart == FwInit => FwTypeOK
<1> SUFFICES ASSUME FwInit PROVE FwTypeOK
  OBVIOUS
<1>1. globals \in [Knobs -> Nat] /\ globals = Globals0
  BY FirmwareAssumption DEF FwInit
<1>2. todo \in Seq(Accesses) /\ Len(todo) <= 6
  BY <1>1, CalcType DEF FwInit
<1>4. QED
  BY <1>1, <1>2 DEF FwInit, FwTypeOK
-----------------------------------------------------------------------------
(* The bus                                                                 *)

(* What a clock does to the registers the bus shares with the engine.      *)
LEMMA ClockEffect ==
  ASSUME TypeOK, NEW b \in BusOps, NEW full \in BOOLEAN, Clock(b, full)
  PROVE  /\ vel_reg' = IF b.op = "key" THEN [vel_reg EXCEPT ![b.key] = b.vel] ELSE vel_reg
         /\ ctrl_reg' = IF b.op = "ctrl" THEN [ctrl_reg EXCEPT ![b.write[1]] = b.write[2]]
                                         ELSE ctrl_reg
         /\ AVL_READVEL' = vel_reg[AVL_KEY(b)]
         /\ \E play \in [Keys -> SUBSET PlayBits] :
              /\ play_reg' = AvlPlay(play, b)
              /\ \A k \in Keys : Held \in play[k] => Held \in play_reg[k]
<1>1. CASE Halted(b) \/ Start(b, full) \/ CheckKey(b) \/ KeyOff(b) \/ Write(b)
  <2>1. BusEdge(b, play_reg)
    BY <1>1 DEF Halted, Start, CheckKey, KeyOff, Write
  <2>2. QED
    BY <2>1 DEF BusEdge, TypeOK
<1>2. CASE KeyOn(b)
  <2> DEFINE next == NEXT_PLAY(amp_reg[KEY], play_reg[KEY], ctrl_reg)
             play == [play_reg EXCEPT ![KEY] = next]
  <2>1. BusEdge(b, play)
    BY <1>2 DEF KeyOn
  <2>2. next \in SUBSET PlayBits
    BY DEF NEXT_PLAY
  <2>3. Held \in next => Held \in play_reg[KEY]
    BY DEF NEXT_PLAY, Held, Attack, Sounding
  <2>4. play \in [Keys -> SUBSET PlayBits]
    BY <2>2 DEF TypeOK
  <2>5. \A k \in Keys : Held \in play[k] => Held \in play_reg[k]
    BY <2>3 DEF TypeOK
  <2>6. QED
    BY <2>1, <2>4, <2>5 DEF BusEdge
<1>3. QED
  BY <1>1, <1>2 DEF Clock

(* What may be left to do, and what the processor and the slave know of it:*)
(* a note's release holds the velocity that is in the register.            *)
Shape ==
  \/ \A i \in DOMAIN todo : todo[i].acc = "ctrl" /\ <<todo[i].reg, todo[i].val>> \in CtrlWrites
  \/ \E k \in Keys, v \in Velocities : todo = <<Press(k, v)>>
  \/ \E k \in Keys : todo = <<Read(k), WriteBack(k)>>
  \/ \E k \in Keys : todo = <<WriteBack(k)>> /\ readData = vel_reg[k]

Waits == waited => \E k \in Keys : todo = <<Read(k), WriteBack(k)>> /\ AVL_READVEL = vel_reg[k]

SysInv ==
  /\ TypeOK /\ FwTypeOK
  /\ waited \in BOOLEAN /\ readData \in Velocities
  /\ Shape /\ Waits

(* The accesses as operations of the bus.                                  *)
LEMMA PressOp ==
  ASSUME NEW k \in Keys, NEW v \in Velocities
  PROVE  /\ Press(k, v).acc = "press" /\ Press(k, v).key = k /\ Press(k, v).vel = v
         /\ BusOf(Press(k, v)) = [op |-> "key", key |-> k, play |-> TRUE, vel |-> v]
         /\ BusOf(Press(k, v)) \in BusOps
  BY DEF Press, BusOf, BusOps, KeyWrite

LEMMA ReadOp ==
  ASSUME NEW k \in Keys
  PROVE  /\ Read(k).acc = "read" /\ Read(k).key = k
         /\ BusOf(Read(k)) = [op |-> "idle", key |-> k]
         /\ BusOf(Read(k)) \in BusOps
  BY DEF Read, BusOf, BusOps, BusIdle

LEMMA BackOp ==
  ASSUME NEW k \in Keys, readData \in Velocities
  PROVE  /\ WriteBack(k).acc = "back" /\ WriteBack(k).key = k
         /\ BusOf(WriteBack(k)) = [op |-> "key", key |-> k, play |-> FALSE, vel |-> readData]
         /\ BusOf(WriteBack(k)) \in BusOps
  BY DEF WriteBack, BusOf, BusOps, KeyWrite

LEMMA CtrlOp ==
  ASSUME NEW a, a.acc = "ctrl", <<a.reg, a.val>> \in CtrlWrites
  PROVE  /\ BusOf(a) = [op |-> "ctrl", write |-> <<a.reg, a.val>>]
         /\ BusOf(a) \in BusOps
  BY DEF BusOf, BusOps, CtrlWrite

(* Whatever the processor does on a clock, the engine sees one operation   *)
(* of a bus master.                                                        *)
LEMMA MasterStep ==
  ASSUME SysInv, NEW full \in BOOLEAN, WriteAccess(full) \/ ReadWait(full) \/ ReadAccess(full)
  PROVE  BusOf(Access) \in BusOps /\ Clock(BusOf(Access), full)
<1>1. todo # << >> /\ Clock(BusOf(Access), full)
  BY DEF WriteAccess, ReadWait, ReadAccess
<1>2. Access = todo[1] /\ 1 \in DOMAIN todo
  BY <1>1 DEF Access, SysInv, FwTypeOK
<1>3. CASE \A i \in DOMAIN todo : todo[i].acc = "ctrl" /\ <<todo[i].reg, todo[i].val>> \in CtrlWrites
  BY <1>1, <1>2, <1>3, CtrlOp
<1>4. ASSUME NEW k \in Keys, NEW v \in Velocities, todo = <<Press(k, v)>>
      PROVE  BusOf(Access) \in BusOps
  BY <1>4, PressOp DEF Access
<1>5. ASSUME NEW k \in Keys, todo = <<Read(k), WriteBack(k)>>
      PROVE  BusOf(Access) \in BusOps
  BY <1>5, ReadOp DEF Access
<1>6. ASSUME NEW k \in Keys, todo = <<WriteBack(k)>>
      PROVE  BusOf(Access) \in BusOps
  BY <1>6, BackOp DEF Access, SysInv
<1>7. QED
  BY <1>1, <1>3, <1>4, <1>5, <1>6 DEF SysInv, Shape

LEMMA SysStepIsEngineStep ==
  ASSUME SysInv, [SysNext]_sysVars
  PROVE  [Next]_vars
<1>1. ASSUME NEW full \in BOOLEAN, Busy(full) PROVE Next
  BY <1>1 DEF Busy, Next, BusOps
<1>2. ASSUME NEW full \in BOOLEAN, WriteAccess(full) \/ ReadWait(full) \/ ReadAccess(full)
      PROVE  Next
  BY <1>2, MasterStep DEF Next
<1>3. CASE Poll
  BY <1>3 DEF Poll
<1>4. CASE UNCHANGED sysVars
  BY <1>4 DEF sysVars
<1>5. QED
  BY <1>1, <1>2, <1>3, <1>4 DEF SysNext, SysClock
(* Every access an event leaves behind is one of those shapes.             *)
CtrlOnly(t) == \A i \in DOMAIN t : t[i].acc = "ctrl" /\ <<t[i].reg, t[i].val>> \in CtrlWrites

LEMMA CalcWrites ==
  ASSUME NEW g \in [Knobs -> Nat], NEW t \in calc_adsr(g)
  PROVE  CtrlOnly(t)
<1>1. CASE t = << >>
  BY <1>1 DEF CtrlOnly
<1>2. ASSUME NEW s \in Settings(g), t = Writes(s)
      PROVE  CtrlOnly(t)
  <2>1. s \in [1 .. 6 -> 0 .. RegMod - 1]
    BY SettingType
  <2>2. DOMAIN t = 1 .. 6
    BY <1>2, <2>1, WritesType
  <2>3. ASSUME NEW i \in 1 .. 6
        PROVE  t[i].acc = "ctrl" /\ <<t[i].reg, t[i].val>> \in CtrlWrites
    <3>0. t[i] = [acc |-> "ctrl", reg |-> i - 1, val |-> s[i]]
      BY <1>2 DEF Writes
    <3>1. t[i].acc = "ctrl" /\ t[i].reg = i - 1 /\ t[i].val = s[i]
      BY <3>0
    <3>2. i - 1 \in 0 .. 5 /\ s[i] \in Steps
      BY <2>1, BusAssumption DEF Steps
    <3>3. QED
      BY <3>1, <3>2, MasterAssumption
  <2>4. QED
    BY <2>2, <2>3 DEF CtrlOnly
<1>3. QED
  BY <1>1, <1>2, CalcForm

LEMMA HandledShape ==
  ASSUME FwTypeOK, todo = << >>, NEW e \in Events, Handled(e)
  PROVE  \/ CtrlOnly(todo')
         \/ \E k \in Keys, v \in Velocities : todo' = <<Press(k, v)>>
         \/ \E k \in Keys : todo' = <<Read(k), WriteBack(k)>>
<1>0. CtrlOnly(<< >>) /\ e \in MidiEvents
  BY EventAssumption DEF CtrlOnly
<1>1. CASE OnNote(e)
  <2>1. e.vel \in Velocities
    BY <1>1, MasterAssumption DEF OnNote
  <2>2. e.note \in Notes => e.note \in Keys
    BY BusAssumption
  <2>3. \/ todo' = << >>
        \/ e.note \in Notes /\ todo' = <<Read(e.note), WriteBack(e.note)>>
        \/ e.note \in Notes /\ todo' = <<Press(e.note, e.vel)>>
    BY <1>1 DEF OnNote, set_note
  <2>4. QED
    BY <1>0, <2>1, <2>2, <2>3
<1>2. ASSUME NEW reg, NEW v, <<reg, v % RegMod>> \in CtrlWrites,
             todo' = set_ctrl(e.channel, reg, v)
      PROVE  CtrlOnly(todo')
  <2>1. todo' = << >> \/ todo' = <<SetReg(reg, v)>>
    BY <1>2 DEF set_ctrl
  <2>2. CtrlOnly(<<SetReg(reg, v)>>)
    BY <1>2 DEF CtrlOnly, SetReg
  <2>3. QED
    BY <1>0, <2>1, <2>2
<1>3. CASE OnSwitch(e)
  BY <1>2, <1>3, MasterAssumption DEF OnSwitch
<1>4. CASE OnPedal(e)
  <2>1. e.type = "pedal"
    BY <1>4 DEF OnPedal
  <2>2. /\ <<RegSUS, e.par % RegMod>> \in CtrlWrites
        /\ <<RegSUS, (-1 - e.par) % RegMod>> \in CtrlWrites
    BY <2>1, MasterAssumption
  <2>3. CASE ped_flip
    BY <1>2, <1>4, <2>2, <2>3 DEF OnPedal
  <2>4. CASE ~ped_flip
    BY <1>2, <1>4, <2>2, <2>4 DEF OnPedal
  <2>5. QED
    BY <2>3, <2>4
<1>5. CASE OnFlip(e) \/ OnOther(e)
  BY <1>0, <1>5 DEF OnFlip, OnOther
<1>6. CASE OnKnob(e)
  <2>1. globals' \in [Knobs -> Nat]
    BY <1>0, <1>6, HandledType
  <2>2. todo' \in calc_adsr(globals')
    BY <1>6 DEF OnKnob
  <2>3. QED
    BY <2>1, <2>2, CalcWrites
<1>7. CASE OnBend(e)
  BY <1>2, <1>7, MasterAssumption DEF OnBend
<1>8. QED
  BY <1>1, <1>3, <1>4, <1>5, <1>6, <1>7 DEF Handled

LEMMA PollKeeps ==
  ASSUME SysInv, Poll
  PROVE  FwTypeOK' /\ Shape' /\ Waits'
<1>1. MIDI_poll /\ UNCHANGED <<vars, busVars>>
  BY DEF Poll
<1>2. FwTypeOK'
  BY <1>1, PollType DEF SysInv
<1>3. PICK e \in Events : Handled(e)
  BY <1>1, PollForm
<1>4. todo = << >>
  BY <1>1, PollForm
<1>5. Shape'
  BY <1>3, <1>4, HandledShape DEF SysInv, Shape, CtrlOnly
<1>6. ~waited
  BY <1>4 DEF SysInv, Waits
<1>7. Waits'
  BY <1>1, <1>6 DEF busVars, Waits
<1>8. QED
  BY <1>2, <1>5, <1>7

(* A clock that takes the head off the list leaves a well-typed list.      *)
LEMMA DoneType ==
  ASSUME FwTypeOK, todo # << >>, Done, UNCHANGED <<globals, ped_flip, controller>>
  PROVE  FwTypeOK'
<1>1. Tail(todo) \in Seq(Accesses) /\ Len(Tail(todo)) = Len(todo) - 1
  BY DEF FwTypeOK
<1>2. QED
  BY <1>1 DEF Done, FwTypeOK, controller

(* While the processor is busy, no register that Shape and Waits speak of  *)
(* changes but the velocity offered, and no read is waiting for that.      *)
LEMMA BusyKeeps ==
  ASSUME SysInv, NEW full \in BOOLEAN, Busy(full)
  PROVE  FwTypeOK' /\ Shape' /\ Waits' /\ vel_reg' = vel_reg
<1>1. PICK b \in BusIdle : Clock(b, full)
  BY DEF Busy
<1>2. b \in BusOps /\ b.op = "idle"
  BY DEF BusOps, BusIdle
<1>3. vel_reg' = vel_reg
  BY <1>1, <1>2, ClockEffect DEF SysInv
<1>4. UNCHANGED <<globals, ped_flip, todo, controller, waited, readData>> /\ ~waited
  BY DEF Busy, fwVars, busVars
<1>5. FwTypeOK'
  BY <1>4 DEF SysInv, FwTypeOK, controller
<1>6. Shape'
  BY <1>3, <1>4 DEF SysInv, Shape
<1>7. Waits'
  BY <1>4 DEF Waits
<1>8. QED
  BY <1>3, <1>5, <1>6, <1>7

(* A write leaves the rest of the list; a press and the write back of a    *)
(* release are the last of theirs.                                         *)
LEMMA WriteKeeps ==
  ASSUME SysInv, NEW full \in BOOLEAN, WriteAccess(full)
  PROVE  FwTypeOK' /\ Shape' /\ Waits'
<1>1. /\ todo # << >> /\ Access.acc # "read" /\ Done
      /\ UNCHANGED <<globals, ped_flip, controller, waited, readData>>
  BY DEF WriteAccess, busVars
<1>2. FwTypeOK'
  BY <1>1, DoneType DEF SysInv
<1>3. todo' = Tail(todo) /\ todo \in Seq(Accesses)
  BY <1>1 DEF Done, SysInv, FwTypeOK
<1>4. CASE CtrlOnly(todo)
  <2>1. /\ DOMAIN Tail(todo) = 1 .. Len(todo) - 1
        /\ \A i \in 1 .. Len(todo) - 1 : Tail(todo)[i] = todo[i + 1] /\ i + 1 \in DOMAIN todo
    BY <1>1, <1>3
  <2>2. CtrlOnly(todo')
    BY <1>3, <1>4, <2>1 DEF CtrlOnly
  <2>3. ASSUME NEW k \in Keys, todo = <<Read(k), WriteBack(k)>>
        PROVE  FALSE
    <3>1. 1 \in DOMAIN todo /\ todo[1] = Read(k)
      BY <2>3
    <3>2. QED
      BY <1>4, <3>1, ReadOp DEF CtrlOnly
  <2>4. ~waited
    BY <2>3 DEF SysInv, Waits
  <2>5. QED
    BY <1>1, <1>2, <2>2, <2>4 DEF Shape, Waits, CtrlOnly
<1>5. ASSUME NEW a, todo = <<a>>
      PROVE  Shape' /\ Waits'
  <2>1. todo' = << >>
    <3>1. Tail(<<a>>) = << >>
      OBVIOUS
    <3>2. QED
      BY <1>3, <1>5, <3>1
  <2>2. ~waited
    BY <1>5 DEF SysInv, Waits
  <2>3. QED
    BY <1>1, <2>1, <2>2 DEF Shape, Waits
<1>6. ASSUME NEW k \in Keys, todo = <<Read(k), WriteBack(k)>>
      PROVE  FALSE
  BY <1>1, <1>6, ReadOp DEF Access
<1>7. QED
  BY <1>2, <1>4, <1>5, <1>6 DEF SysInv, Shape, CtrlOnly

(* The two clocks of a read bring the velocity of the key that is released.*)
LEMMA ReadHead ==
  ASSUME SysInv, todo # << >>, Access.acc = "read"
  PROVE  \E k \in Keys : todo = <<Read(k), WriteBack(k)>>
<1>1. Access = todo[1] /\ 1 \in DOMAIN todo
  BY DEF Access, SysInv, FwTypeOK
<1>2. ~CtrlOnly(todo)
  BY <1>1 DEF CtrlOnly
<1>3. \A k \in Keys, v \in Velocities : todo # <<Press(k, v)>>
  BY PressOp DEF Access
<1>4. \A k \in Keys : todo # <<WriteBack(k)>>
  BY BackOp DEF Access, SysInv
<1>5. QED
  BY <1>2, <1>3, <1>4 DEF SysInv, Shape, CtrlOnly

LEMMA ReadKeeps ==
  ASSUME SysInv, NEW full \in BOOLEAN, ReadWait(full) \/ ReadAccess(full)
  PROVE  FwTypeOK' /\ Shape' /\ Waits' /\ vel_reg' = vel_reg /\ waited' \in BOOLEAN
         /\ readData' \in Velocities
<1>1. todo # << >> /\ Access.acc = "read" /\ Clock(BusOf(Access), full)
  BY DEF ReadWait, ReadAccess
<1>2. PICK k \in Keys : todo = <<Read(k), WriteBack(k)>>
  BY <1>1, ReadHead
<1>3. Access = Read(k)
  BY <1>2 DEF Access
<1>4. BusOf(Access) \in BusOps /\ BusOf(Access) = [op |-> "idle", key |-> k]
  BY <1>3, ReadOp
<1>5. vel_reg' = vel_reg /\ AVL_READVEL' = vel_reg[k]
  BY <1>1, <1>4, ClockEffect DEF SysInv, AVL_KEY
<1>6. CASE ReadWait(full)
  <2>1. UNCHANGED <<globals, ped_flip, todo, controller, readData>> /\ waited'
    BY <1>6 DEF ReadWait, fwVars
  <2>2. waited' = TRUE
    BY <1>6 DEF ReadWait
  <2>3. Shape'
    BY <1>2, <2>1 DEF Shape
  <2>4. Waits'
    BY <1>2, <1>5, <2>1 DEF Waits
  <2>5. QED
    BY <1>5, <2>1, <2>2, <2>3, <2>4 DEF SysInv, FwTypeOK, controller
<1>7. CASE ReadAccess(full)
  <2>1. /\ UNCHANGED <<globals, ped_flip, controller>> /\ Done /\ waited
        /\ readData' = AVL_READVEL /\ waited' = FALSE
    BY <1>7 DEF ReadAccess
  <2>2. FwTypeOK'
    BY <1>1, <2>1, DoneType DEF SysInv
  <2>3. todo' = <<WriteBack(k)>>
    BY <1>2, <2>1 DEF Done
  <2>4. readData' = vel_reg[k]
    <3>1. PICK j \in Keys : todo = <<Read(j), WriteBack(j)>> /\ AVL_READVEL = vel_reg[j]
      BY <2>1 DEF SysInv, Waits
    <3>2. j = k
      BY <1>3, <3>1, ReadOp DEF Access
    <3>3. QED
      BY <2>1, <3>1, <3>2
  <2>5. readData' \in Velocities
    BY <2>4 DEF SysInv, TypeOK
  <2>6. QED
    BY <1>5, <2>1, <2>2, <2>3, <2>4, <2>5 DEF Shape, Waits
<1>8. QED
  BY <1>6, <1>7

LEMMA SysInvStep ==
  ASSUME SysInv, [SysNext]_sysVars
  PROVE  SysInv'
<1>1. TypeOK'
  BY SysStepIsEngineStep, TypeStep DEF SysInv
<1>2. CASE Poll
  BY <1>1, <1>2, PollKeeps DEF Poll, busVars, SysInv
<1>3. ASSUME NEW full \in BOOLEAN, Busy(full)
      PROVE  SysInv'
  BY <1>1, <1>3, BusyKeeps DEF Busy, busVars, SysInv
<1>4. ASSUME NEW full \in BOOLEAN, WriteAccess(full)
      PROVE  SysInv'
  BY <1>1, <1>4, WriteKeeps DEF WriteAccess, busVars, SysInv
<1>5. ASSUME NEW full \in BOOLEAN, ReadWait(full) \/ ReadAccess(full)
      PROVE  SysInv'
  BY <1>1, <1>5, ReadKeeps DEF SysInv
<1>6. CASE UNCHANGED sysVars
  BY <1>1, <1>6 DEF sysVars, vars, fwVars, busVars, SysInv, FwTypeOK, Shape, Waits, controller
<1>7. QED
  BY <1>2, <1>3, <1>4, <1>5, <1>6 DEF SysNext, SysClock

LEMMA SysStart == SysInit => SysInv
<1> SUFFICES ASSUME SysInit PROVE SysInv
  OBVIOUS
<1>1. TypeOK /\ FwTypeOK
  BY TypeInit, FwStart DEF SysInit
<1>2. waited = FALSE /\ readData \in Velocities
  BY SynthAssumption DEF SysInit
<1>3. CtrlOnly(todo)
  BY FirmwareAssumption, CalcWrites DEF SysInit, FwInit
<1>4. QED
  BY <1>1, <1>2, <1>3 DEF SysInv, Shape, Waits, CtrlOnly

LEMMA SysInvHolds == SysSpec => []SysInv
<1>1. SysInv /\ [SysNext]_sysVars => SysInv'
  BY SysInvStep
<1>2. QED
  BY <1>1, SysStart, PTL DEF SysSpec
(* To the engine the firmware is one of its bus masters: it makes no access*)
(* the engine was not specified for, whatever events arrive and whenever   *)
(* the processor gets to the bus.                                          *)
THEOREM SystemIsEngine == SysSpec => EngineSpec
<1>1. SysInit => Init
  BY DEF SysInit
<1>2. SysInv /\ [SysNext]_sysVars => [Next]_vars
  BY SysStepIsEngineStep
<1>3. QED
  BY <1>1, <1>2, SysInvHolds, PTL DEF SysSpec, EngineSpec, Spec

(* So what holds of the engine under every bus master holds in the system: *)
(* each sample has exactly the voices that sound, in order, each from its  *)
(* own table entry.                                                        *)
THEOREM SystemSounds == SysSpec => [](MixedInOrder /\ MixedComplete /\ SampleIsOwn /\ DecisionHolds)
BY SystemIsEngine, ScanCorrect DEF EngineSpec

(* And no struck key loses its attack to what the firmware does next.      *)
THEOREM SystemAttacks == SysSpec => AttackReachesPeak
BY SystemIsEngine, AttackIsHeard DEF EngineSpec

(* The firmware keeps its types: the knobs' lengths stay non-negative, and *)
(* no poll leaves more than six accesses, none wider than a register.      *)
THEOREM FirmwareTypes == SysSpec => []FwTypeOK
<1>1. SysInv => FwTypeOK
  BY DEF SysInv
<1>2. QED
  BY <1>1, SysInvHolds, PTL

(* Releasing a note does not change how loud the rest of it is: the two    *)
(* clocks of the read return the velocity of the key that is released, and *)
(* the write puts that one back, whatever the engine visits meanwhile.     *)
THEOREM ReleasesAreQuiet == SysSpec => ReleaseKeepsVelocity
<1> DEFINE Kept == \A k \in Keys : vel_reg'[k] # vel_reg[k]
                     => todo # << >> /\ Access.acc = "press" /\ Access.key = k
<1>1. ASSUME SysInv, [SysNext]_sysVars
      PROVE  Kept
  <2>1. CASE UNCHANGED sysVars \/ Poll
    BY <2>1 DEF sysVars, vars, Poll
  <2>2. ASSUME NEW full \in BOOLEAN, Busy(full)
        PROVE  Kept
    BY <1>1, <2>2, BusyKeeps
  <2>3. ASSUME NEW full \in BOOLEAN, ReadWait(full) \/ ReadAccess(full)
        PROVE  Kept
    BY <1>1, <2>3, ReadKeeps
  <2>4. ASSUME NEW full \in BOOLEAN, WriteAccess(full)
        PROVE  Kept
    <3>1. todo # << >> /\ BusOf(Access) \in BusOps /\ Clock(BusOf(Access), full)
      BY <1>1, <2>4, MasterStep DEF WriteAccess
    <3>2. vel_reg' = IF BusOf(Access).op = "key"
                     THEN [vel_reg EXCEPT ![BusOf(Access).key] = BusOf(Access).vel] ELSE vel_reg
      BY <1>1, <3>1, ClockEffect DEF SysInv
    <3>3. vel_reg \in [Keys -> Velocities]
      BY <1>1 DEF SysInv, TypeOK
    <3>4. CASE CtrlOnly(todo)
      <4>1. Access = todo[1] /\ 1 \in DOMAIN todo
        BY <1>1, <3>1 DEF Access, SysInv, FwTypeOK
      <4>0. Access.acc = "ctrl" /\ <<Access.reg, Access.val>> \in CtrlWrites
        BY <3>4, <4>1 DEF CtrlOnly
      <4>2. BusOf(Access).op = "ctrl"
        BY <4>0, CtrlOp
      <4>3. QED
        BY <3>2, <4>2
    <3>5. ASSUME NEW j \in Keys, NEW v \in Velocities, todo = <<Press(j, v)>>
          PROVE  Kept
      <4>1. Access = Press(j, v)
        BY <3>5 DEF Access
      <4>2. Access.acc = "press" /\ Access.key = j
        BY <4>1, PressOp
      <4>3. BusOf(Access).op = "key" /\ BusOf(Access).key = j
        BY <4>1, PressOp
      <4>4. QED
        BY <3>1, <3>2, <3>3, <4>2, <4>3
    <3>6. ASSUME NEW j \in Keys, todo = <<Read(j), WriteBack(j)>>
          PROVE  FALSE
      BY <2>4, <3>6, ReadOp DEF Access, WriteAccess
    <3>7. ASSUME NEW j \in Keys, todo = <<WriteBack(j)>>, readData = vel_reg[j]
          PROVE  Kept
      <4>1. Access = WriteBack(j)
        BY <3>7 DEF Access
      <4>2. /\ BusOf(Access).op = "key" /\ BusOf(Access).key = j
            /\ BusOf(Access).vel = vel_reg[j]
        BY <1>1, <3>7, <4>1, BackOp DEF SysInv
      <4>3. QED
        BY <3>2, <3>3, <4>2
    <3>8. QED
      BY <1>1, <3>4, <3>5, <3>6, <3>7 DEF SysInv, Shape, CtrlOnly
  <2>5. QED
    BY <1>1, <2>1, <2>2, <2>3, <2>4 DEF SysNext, SysClock
<1>2. SysInv /\ [SysNext]_sysVars => [Kept]_sysVars
  BY <1>1
<1>3. QED
  BY <1>2, SysInvHolds, PTL DEF SysSpec, ReleaseKeepsVelocity
-----------------------------------------------------------------------------
(* No note hangs                                                           *)

(* What the controller has to keep to: one event in a packet, of which the *)
(* firmware reads the first, and no note off with a velocity, which it     *)
(* would take for a note on.                                               *)
OneEventPackets == MaxEvents = 1
SoftReleases    == \A e \in Events : e.type = "note_off" => e.vel = 0

(* A key that is held in the engine but not on the controller is about to  *)
(* be released, and only a key that is down is about to be struck.         *)
ReleaseUnderWay ==
  /\ \A k \in Keys : Held \in play_reg[k] /\ ~keyDown[k]
       => todo = <<Read(k), WriteBack(k)>> \/ todo = <<WriteBack(k)>>
  /\ \A k \in Keys, v \in Velocities : todo = <<Press(k, v)>> => keyDown[k]

LEMMA OneEvent ==
  ASSUME OneEventPackets, MIDI_poll
  PROVE  \E e \in Events :
           /\ e \in MidiEvents /\ Handled(e)
           /\ keyDown' = [k \in Notes |->
                IF e.type \in {"note_on", "note_off"} /\ e.channel = 0 /\ e.note = k
                THEN e.type = "note_on" /\ e.vel > 0 ELSE keyDown[k]]
           /\ inverted' = IF e.type = "flip" THEN e.par # 0 ELSE inverted
           /\ pedalDown' = IF e.type = "pedal" /\ e.channel = 0
                           THEN (e.par >= PedalMin) # inverted ELSE pedalDown
<1>1. PICK n \in 1 .. MaxEvents :
        \E packet \in [1 .. n -> Events] :
          /\ packet[1] \in Events /\ packet[1] \in MidiEvents /\ Handled(packet[1])
          /\ Told(packet, n)
  BY PollForm
<1>2. PICK packet \in [1 .. n -> Events] :
        /\ packet[1] \in Events /\ packet[1] \in MidiEvents /\ Handled(packet[1])
        /\ Told(packet, n)
  BY <1>1
<1> DEFINE e == packet[1]
<1>3. n = 1 /\ DOMAIN packet = {1}
  BY DEF OneEventPackets
<1>4. ASSUME NEW k \in Notes
      PROVE  keyDown'[k] = IF /\ packet[1].type \in {"note_on", "note_off"}
                              /\ packet[1].channel = 0 /\ packet[1].note = k
                           THEN packet[1].type = "note_on" /\ packet[1].vel > 0 ELSE keyDown[k]
  <2> DEFINE about == {i \in DOMAIN packet : /\ packet[i].type \in {"note_on", "note_off"}
                                             /\ packet[i].channel = 0 /\ packet[i].note = k}
             last  == CHOOSE i \in about : \A j \in about : j <= i
  <2>1. keyDown'[k] = IF about = {} THEN keyDown[k]
                      ELSE packet[last].type = "note_on" /\ packet[last].vel > 0
    BY <1>2 DEF Told, KeysAfter
  <2>2. CASE /\ packet[1].type \in {"note_on", "note_off"}
             /\ packet[1].channel = 0 /\ packet[1].note = k
    <3>1. about = {1}
      BY <1>3, <2>2
    <3>2. last = 1
      BY <3>1
    <3>3. QED
      BY <2>1, <2>2, <3>1, <3>2
  <2>3. CASE ~(/\ packet[1].type \in {"note_on", "note_off"}
               /\ packet[1].channel = 0 /\ packet[1].note = k)
    <3>1. about = {}
      BY <1>3, <2>3
    <3>2. QED
      BY <2>1, <2>3, <3>1
  <2>4. QED
    BY <2>2, <2>3
<1>5. keyDown' = [k \in Notes |-> keyDown'[k]]
  BY <1>2 DEF Told, KeysAfter
<1>6. \A m \in {0, 1} : InvertedAfter(inverted, packet, m) =
        IF m = 1 /\ e.type = "flip" THEN e.par # 0 ELSE inverted
  <2> TAKE m \in {0, 1}
  <2> DEFINE about == {i \in 1 .. m : packet[i].type = "flip"}
             last  == CHOOSE i \in about : \A j \in about : j <= i
  <2>1. InvertedAfter(inverted, packet, m) = IF about = {} THEN inverted ELSE packet[last].par # 0
    BY DEF InvertedAfter
  <2>2. CASE m = 1 /\ e.type = "flip"
    <3>1. about = {1}
      BY <2>2
    <3>2. last = 1
      BY <3>1
    <3>3. QED
      BY <2>1, <2>2, <3>1, <3>2
  <2>3. CASE ~(m = 1 /\ e.type = "flip")
    <3>1. about = {}
      BY <2>3
    <3>2. QED
      BY <2>1, <2>3, <3>1
  <2>4. QED
    BY <2>2, <2>3
<1>7. inverted' = IF e.type = "flip" THEN e.par # 0 ELSE inverted
  BY <1>2, <1>3, <1>6 DEF Told
<1>8. pedalDown' = IF e.type = "pedal" /\ e.channel = 0
                   THEN (e.par >= PedalMin) # inverted ELSE pedalDown
  <2> DEFINE about == {i \in DOMAIN packet : packet[i].type = "pedal" /\ packet[i].channel = 0}
             last  == CHOOSE i \in about : \A j \in about : j <= i
  <2>1. pedalDown' = IF about = {} THEN pedalDown
                     ELSE (packet[last].par >= PedalMin) # InvertedAfter(inverted, packet, last)
    BY <1>2 DEF Told, PedalAfter
  <2>2. CASE e.type = "pedal" /\ e.channel = 0
    <3>1. about = {1}
      BY <1>3, <2>2
    <3>2. last = 1
      BY <3>1
    <3>3. InvertedAfter(inverted, packet, 1) = inverted
      BY <1>6, <2>2
    <3>4. QED
      BY <2>1, <2>2, <3>1, <3>2, <3>3
  <2>3. CASE ~(e.type = "pedal" /\ e.channel = 0)
    <3>1. about = {}
      BY <1>3, <2>3
    <3>2. QED
      BY <2>1, <2>3, <3>1
  <2>4. QED
    BY <2>2, <2>3
<1>9. QED
  BY <1>2, <1>4, <1>5, <1>7, <1>8

LEMMA CtrlNotPress ==
  ASSUME NEW t, CtrlOnly(t), NEW i \in DOMAIN t, NEW j, NEW v
  PROVE  t[i] # Press(j, v)
<1>1. Press(j, v).acc = "press"
  BY DEF Press
<1>2. QED
  BY <1>1 DEF CtrlOnly

(* The shapes of the list tell one another apart.                          *)
LEMMA ShapesDiffer ==
  ASSUME SysInv
  PROVE  /\ CtrlOnly(todo) => /\ \A k \in Keys, v \in Velocities : todo # <<Press(k, v)>>
                              /\ \A k \in Keys : todo # <<Read(k), WriteBack(k)>>
                              /\ \A k \in Keys : todo # <<WriteBack(k)>>
         /\ \A k, j \in Keys : <<Read(k), WriteBack(k)>> = <<Read(j), WriteBack(j)>> => k = j
         /\ \A k, j \in Keys : <<WriteBack(k)>> = <<WriteBack(j)>> => k = j
         /\ \A k, j \in Keys, v, w \in Velocities : <<Press(k, v)>> = <<Press(j, w)>> => k = j
         /\ \A k, j \in Keys : <<Read(k), WriteBack(k)>> # <<WriteBack(j)>>
         /\ \A k, j \in Keys, v \in Velocities : <<Read(k), WriteBack(k)>> # <<Press(j, v)>>
         /\ \A k, j \in Keys, v \in Velocities : <<WriteBack(k)>> # <<Press(j, v)>>
<1>1. ASSUME CtrlOnly(todo), NEW a, NEW t, todo = <<a>> \/ todo = <<a, t>>
      PROVE  a.acc = "ctrl"
  <2>1. 1 \in DOMAIN todo /\ todo[1] = a
    BY <1>1
  <2>2. QED
    BY <1>1, <2>1 DEF CtrlOnly
<1>2. ASSUME CtrlOnly(todo)
      PROVE  /\ \A k \in Keys, v \in Velocities : todo # <<Press(k, v)>>
             /\ \A k \in Keys : todo # <<Read(k), WriteBack(k)>>
             /\ \A k \in Keys : todo # <<WriteBack(k)>>
  BY <1>1, <1>2 DEF Press, Read, WriteBack
<1>3. QED
  BY <1>2 DEF Press, Read, WriteBack

(* With no release under way, what is held in the engine is held on the    *)
(* controller.                                                             *)
LEMMA NoneUnderWay ==
  ASSUME ReleaseUnderWay, NEW k \in Keys, Held \in play_reg[k],
         \A j \in Keys : todo # <<Read(j), WriteBack(j)>> /\ todo # <<WriteBack(j)>>
  PROVE  keyDown[k]
  BY DEF ReleaseUnderWay

LEMMA UnderWayPoll ==
  ASSUME OneEventPackets, SoftReleases, SysInv, SysInv', ReleaseUnderWay, Poll
  PROVE  ReleaseUnderWay'
<1>1. PICK e \in Events :
        /\ e \in MidiEvents /\ Handled(e)
        /\ keyDown' = [k \in Notes |->
             IF e.type \in {"note_on", "note_off"} /\ e.channel = 0 /\ e.note = k
             THEN e.type = "note_on" /\ e.vel > 0 ELSE keyDown[k]]
  BY OneEvent DEF Poll
<1>2. todo = << >> /\ play_reg' = play_reg /\ vel_reg' = vel_reg
  BY PollForm DEF Poll, vars
<1>3. \A k \in Keys : Held \in play_reg[k] => keyDown[k]
  BY <1>2, NoneUnderWay
<1>4. CASE OnNote(e) /\ e.channel = 0 /\ e.note \in Notes
  <2>1. /\ e.note \in Keys /\ e.vel \in Velocities /\ e.vel \in Nat
        /\ e.type \in {"note_on", "note_off"}
    BY <1>4, BusAssumption, MasterAssumption, SynthAssumption DEF OnNote
  <2>2. \A k \in Keys : keyDown'[k] = IF e.note = k THEN e.type = "note_on" /\ e.vel > 0 ELSE keyDown[k]
    BY <1>1, <1>4, <2>1, BusAssumption
  <2>3. CASE e.vel = 0
    <3>1. todo' = <<Read(e.note), WriteBack(e.note)>>
      BY <1>4, <2>3 DEF OnNote, set_note
    <3>2. \A j \in Keys, v \in Velocities : todo' # <<Press(j, v)>>
      BY <2>1, <3>1, ShapesDiffer
    <3>3. QED
      BY <1>2, <1>3, <2>2, <3>1, <3>2 DEF ReleaseUnderWay
  <2>4. CASE e.vel # 0
    <3>1. todo' = <<Press(e.note, e.vel)>>
      BY <1>4, <2>4 DEF OnNote, set_note
    <3>2. e.type = "note_on" /\ e.vel > 0
      BY <2>1, <2>4 DEF SoftReleases
    <3>3. \A j \in Keys, v \in Velocities : todo' = <<Press(j, v)>> => j = e.note
      BY <2>1, <3>1, ShapesDiffer
    <3>4. QED
      BY <1>2, <1>3, <2>2, <3>2, <3>3 DEF ReleaseUnderWay
  <2>5. QED
    BY <2>3, <2>4
<1>5. CASE ~(OnNote(e) /\ e.channel = 0 /\ e.note \in Notes)
  <2>1. OnNote(e) <=> e.type \in {"note_on", "note_off"}
    BY <1>1 DEF Handled, OnNote, OnSwitch, OnPedal, OnFlip, OnKnob, OnBend, OnOther
  <2>2. \A k \in Keys : keyDown'[k] = keyDown[k]
    BY <1>1, <1>5, <2>1, BusAssumption
  <2>3. \A j \in Keys, v \in Velocities : todo' # <<Press(j, v)>>
    <3>1. CASE OnNote(e)
      BY <1>5, <3>1 DEF OnNote, set_note
    <3>2. ASSUME NEW reg, NEW v, todo' = set_ctrl(e.channel, reg, v)
          PROVE  \A j \in Keys, w \in Velocities : todo' # <<Press(j, w)>>
      BY <3>2 DEF set_ctrl, SetReg, Press
    <3>3. CASE OnSwitch(e) \/ OnPedal(e) \/ OnBend(e)
      BY <3>2, <3>3 DEF OnSwitch, OnPedal, OnBend
    <3>4. CASE OnFlip(e) \/ OnOther(e)
      <4>1. todo' = << >>
        BY <1>2, <3>4 DEF OnFlip, OnOther
      <4>2. QED
        BY <4>1
    <3>5. CASE OnKnob(e)
      <4>1. globals' \in [Knobs -> Nat] /\ todo' \in calc_adsr(globals')
        BY <1>1, <1>2, <3>5, HandledType DEF OnKnob, SysInv
      <4>2. CtrlOnly(todo')
        BY <4>1, CalcWrites
      <4>3. ASSUME NEW j \in Keys, NEW v \in Velocities, todo' = <<Press(j, v)>>
            PROVE  FALSE
        <5>1. 1 \in DOMAIN todo' /\ todo'[1] = Press(j, v)
          BY <4>3
        <5>2. QED
          BY <4>2, <5>1, CtrlNotPress
      <4>4. QED
        BY <4>3
    <3>6. QED
      BY <1>1, <3>1, <3>3, <3>4, <3>5 DEF Handled
  <2>4. QED
    BY <1>2, <1>3, <2>2, <2>3 DEF ReleaseUnderWay
<1>6. QED
  BY <1>4, <1>5

(* A clock without a key write makes nothing held that was not.            *)
LEMMA HeldStays ==
  ASSUME TypeOK, NEW b \in BusOps, NEW full \in BOOLEAN, Clock(b, full), NEW k \in Keys,
         Held \in play_reg'[k]
  PROVE  /\ b.op = "key" /\ b.key = k => b.play
         /\ ~(b.op = "key" /\ b.key = k) => Held \in play_reg[k]
<1>1. PICK play \in [Keys -> SUBSET PlayBits] :
        /\ play_reg' = AvlPlay(play, b)
        /\ \A j \in Keys : Held \in play[j] => Held \in play_reg[j]
  BY ClockEffect
<1>2. CASE b.op = "key"
  <2>1. b.key \in Keys /\ b.play \in BOOLEAN
    BY <1>2 DEF BusOps, BusIdle, KeyWrite, CtrlWrite
  <2>2. play_reg'[k] =
          IF k = b.key THEN IF b.play THEN play[k] \cup {Held, Attack} ELSE play[k] \ {Held}
                       ELSE play[k]
    BY <1>1, <1>2, <2>1 DEF AvlPlay
  <2>3. ASSUME b.key = k
        PROVE  b.play
    <3>1. ~b.play => Held \notin play_reg'[k]
      BY <2>2, <2>3
    <3>2. QED
      BY <3>1
  <2>4. ASSUME b.key # k
        PROVE  Held \in play_reg[k]
    <3>1. Held \in play[k]
      BY <2>2, <2>4
    <3>2. QED
      BY <1>1, <3>1
  <2>5. QED
    BY <1>2, <2>3, <2>4
<1>3. CASE b.op # "key"
  <2>1. Held \in play[k]
    BY <1>1, <1>3 DEF AvlPlay
  <2>2. QED
    BY <1>1, <1>3, <2>1
<1>4. QED
  BY <1>2, <1>3

LEMMA UnderWayClock ==
  ASSUME SysInv, SysInv', ReleaseUnderWay, NEW full \in BOOLEAN, SysClock(full)
  PROVE  ReleaseUnderWay'
<1>1. CASE Busy(full)
  <2>1. PICK b \in BusIdle : Clock(b, full)
    BY <1>1 DEF Busy
  <2>2. b \in BusOps /\ b.op = "idle"
    BY DEF BusOps, BusIdle
  <2>3. \A k \in Keys : Held \in play_reg'[k] => Held \in play_reg[k]
    BY <2>1, <2>2, HeldStays DEF SysInv
  <2>4. UNCHANGED <<todo, keyDown>>
    BY <1>1 DEF Busy, fwVars, controller
  <2>5. QED
    BY <2>3, <2>4 DEF ReleaseUnderWay
<1>2. CASE ReadWait(full) \/ ReadAccess(full)
  <2>1. PICK j \in Keys : todo = <<Read(j), WriteBack(j)>>
    BY <1>2, ReadHead DEF ReadWait, ReadAccess
  <2>2. Access = Read(j) /\ BusOf(Access) \in BusOps /\ Clock(BusOf(Access), full)
    BY <1>2, <2>1, MasterStep DEF Access
  <2>3. BusOf(Access).op = "idle"
    BY <2>2, ReadOp
  <2>4. \A k \in Keys : Held \in play_reg'[k] => Held \in play_reg[k]
    BY <2>2, <2>3, HeldStays DEF SysInv
  <2>5. todo' = <<Read(j), WriteBack(j)>> \/ todo' = <<WriteBack(j)>>
    BY <1>2, <2>1 DEF ReadWait, ReadAccess, Done, fwVars
  <2>6. keyDown' = keyDown
    BY <1>2 DEF ReadWait, ReadAccess, fwVars, controller
  <2>7. \A k \in Keys : Held \in play_reg'[k] /\ ~keyDown'[k] => k = j
    BY <2>1, <2>4, <2>6, ShapesDiffer DEF ReleaseUnderWay
  <2>8. \A k \in Keys, v \in Velocities : todo' # <<Press(k, v)>>
    BY <2>5, ShapesDiffer
  <2>9. QED
    BY <2>5, <2>7, <2>8 DEF ReleaseUnderWay
<1>3. CASE WriteAccess(full)
  <2>1. /\ todo # << >> /\ Access.acc # "read" /\ todo' = Tail(todo) /\ keyDown' = keyDown
        /\ BusOf(Access) \in BusOps /\ Clock(BusOf(Access), full)
    BY <1>3, MasterStep DEF WriteAccess, Done, controller
  <2>2. \A k \in Keys : Held \in play_reg'[k]
          => /\ BusOf(Access).op = "key" /\ BusOf(Access).key = k => BusOf(Access).play
             /\ ~(BusOf(Access).op = "key" /\ BusOf(Access).key = k) => Held \in play_reg[k]
    BY <2>1, HeldStays DEF SysInv
  <2>3. CASE CtrlOnly(todo)
    <3>1. todo \in Seq(Accesses) /\ Access = todo[1] /\ 1 \in DOMAIN todo
      BY <2>1 DEF Access, SysInv, FwTypeOK
    <3>2. Access.acc = "ctrl" /\ <<Access.reg, Access.val>> \in CtrlWrites
      BY <2>3, <3>1 DEF CtrlOnly
    <3>3. BusOf(Access).op = "ctrl"
      BY <3>2, CtrlOp
    <3>4. \A k \in Keys : Held \in play_reg'[k] => keyDown'[k]
      BY <2>1, <2>2, <2>3, <3>3, ShapesDiffer, NoneUnderWay
    <3>5. ASSUME NEW k \in Keys, NEW v \in Velocities, todo' = <<Press(k, v)>>
          PROVE  FALSE
      <4>1. /\ Len(Tail(todo)) = Len(todo) - 1
            /\ \A i \in 1 .. Len(todo) - 1 : Tail(todo)[i] = todo[i + 1] /\ i + 1 \in DOMAIN todo
        BY <2>1, <3>1
      <4>2. Len(Tail(todo)) = 1 /\ Tail(todo)[1] = Press(k, v)
        <5>1. Tail(todo) = <<Press(k, v)>>
          BY <2>1, <3>5
        <5>2. \A p : Len(<<p>>) = 1 /\ <<p>>[1] = p
          OBVIOUS
        <5>3. QED
          BY <5>1, <5>2
      <4>3. 2 \in DOMAIN todo /\ todo[2] = Press(k, v)
        <5>1. Len(todo) \in Nat
          BY <3>1
        <5>2. 1 \in 1 .. Len(todo) - 1
          BY <4>1, <4>2, <5>1
        <5>3. Tail(todo)[1] = todo[1 + 1] /\ 1 + 1 \in DOMAIN todo
          BY <4>1, <5>2
        <5>4. QED
          BY <4>2, <5>3
      <4>4. QED
        BY <2>3, <4>3, CtrlNotPress
    <3>6. QED
      BY <3>4, <3>5 DEF ReleaseUnderWay
  <2>4. ASSUME NEW a, todo = <<a>>
        PROVE  todo' = << >>
    <3>1. Tail(<<a>>) = << >>
      OBVIOUS
    <3>2. QED
      BY <2>1, <2>4, <3>1
  <2>5. ASSUME NEW j \in Keys, NEW v \in Velocities, todo = <<Press(j, v)>>
        PROVE  ReleaseUnderWay'
    <3>1. Access = Press(j, v) /\ keyDown[j]
      BY <2>5 DEF Access, ReleaseUnderWay
    <3>2. BusOf(Access).op = "key" /\ BusOf(Access).key = j
      BY <3>1, PressOp
    <3>3. \A k \in Keys : todo # <<Read(k), WriteBack(k)>> /\ todo # <<WriteBack(k)>>
      BY <2>5, ShapesDiffer
    <3>4. \A k \in Keys : Held \in play_reg'[k] => keyDown'[k]
      BY <2>1, <2>2, <3>1, <3>2, <3>3, NoneUnderWay
    <3>5. todo' = << >>
      BY <2>4, <2>5
    <3>6. QED
      BY <3>4, <3>5 DEF ReleaseUnderWay
  <2>6. ASSUME NEW j \in Keys, todo = <<Read(j), WriteBack(j)>>
        PROVE  FALSE
    BY <2>1, <2>6, ReadOp DEF Access
  <2>7. ASSUME NEW j \in Keys, todo = <<WriteBack(j)>>
        PROVE  ReleaseUnderWay'
    <3>1. Access = WriteBack(j) /\ readData \in Velocities
      BY <2>7 DEF Access, SysInv
    <3>2. BusOf(Access).op = "key" /\ BusOf(Access).key = j /\ ~BusOf(Access).play
      BY <3>1, BackOp
    <3>3. \A k \in Keys : Held \in play_reg'[k] => k # j /\ Held \in play_reg[k]
      BY <2>2, <3>2
    <3>4. \A k \in Keys : Held \in play_reg[k] /\ ~keyDown[k] => k = j
      BY <2>7, ShapesDiffer DEF ReleaseUnderWay
    <3>5. todo' = << >>
      BY <2>4, <2>7
    <3>6. QED
      BY <2>1, <3>3, <3>4, <3>5 DEF ReleaseUnderWay
  <2>8. QED
    BY <2>3, <2>5, <2>6, <2>7 DEF SysInv, Shape, CtrlOnly
<1>4. QED
  BY <1>1, <1>2, <1>3 DEF SysClock

(* A key that is up on the controller is up in the engine as soon as the   *)
(* firmware has nothing left to do, for a controller that keeps to         *)
(* OneEventPackets and SoftReleases: no note hangs, however releases,      *)
(* strikes of other keys, knobs and the scan fall together.                *)
THEOREM NoteOffArrives ==
  ASSUME OneEventPackets, SoftReleases
  PROVE  SysSpec => []KeyUpReleases
<1>1. SysInit => ReleaseUnderWay
  <2> SUFFICES ASSUME SysInit PROVE ReleaseUnderWay
    OBVIOUS
  <2>1. \A k \in Keys : Held \notin play_reg[k]
    BY DEF SysInit, Init
  <2>2. SysInv /\ CtrlOnly(todo)
    BY SysStart, FirmwareAssumption, CalcWrites DEF SysInit, FwInit
  <2>3. QED
    BY <2>1, <2>2, ShapesDiffer DEF ReleaseUnderWay
<1>2. SysInv /\ SysInv' /\ ReleaseUnderWay /\ [SysNext]_sysVars => ReleaseUnderWay'
  <2> SUFFICES ASSUME SysInv, SysInv', ReleaseUnderWay, [SysNext]_sysVars
               PROVE  ReleaseUnderWay'
    OBVIOUS
  <2>1. CASE UNCHANGED sysVars
    BY <2>1 DEF sysVars, vars, fwVars, ReleaseUnderWay, controller
  <2>2. QED
    BY <2>1, UnderWayPoll, UnderWayClock DEF SysNext
<1>3. ReleaseUnderWay => KeyUpReleases
  BY NoneUnderWay DEF KeyUpReleases
<1>4. QED
  BY <1>1, <1>2, <1>3, SysInvHolds, PTL DEF SysSpec

-----------------------------------------------------------------------------
(* The envelope registers                                                  *)

(* What is known of the knobs g, the accesses t still to be made and the   *)
(* registers c: either the accepted setting s is under way, n of its       *)
(* registers written and the rest still to be, or no envelope register is  *)
(* to be written and the six are a setting that fits, the one of the knobs *)
(* unless these are refused.                                               *)
UnderWay(g, t, c) ==
  /\ Accepted(g)
  /\ \E s \in Settings(g), n \in 0 .. 5 :
       /\ Len(t) = 6 - n
       /\ \A i \in 1 .. 6 - n : t[i] = [acc |-> "ctrl", reg |-> (i + n) - 1, val |-> s[i + n]]
       /\ \A i \in 1 .. n : c[i - 1] = s[i]

Fits(c) == c[3] <= c[0] /\ c[2] <= c[0] - c[3] /\ c[4] <= c[5] /\ c[5] <= c[3]

Settled(g, t, c) ==
  /\ \A i \in DOMAIN t : t[i].acc = "ctrl" => t[i].reg \notin 0 .. 5
  /\ Accepted(g) => [i \in 1 .. 6 |-> c[i - 1]] \in Settings(g)
  /\ Fits(c)

EnvelopeOK(g, t, c) == UnderWay(g, t, c) \/ Settled(g, t, c)

(* calc_adsr() refuses and writes nothing, or a setting is under way.      *)
LEMMA CalcUnderWay ==
  ASSUME NEW c, NEW g \in [Knobs -> Nat], NEW t \in calc_adsr(g)
  PROVE  (~Accepted(g) /\ t = << >>) \/ UnderWay(g, t, c)
<1>1. CASE ~Accepted(g)
  BY <1>1, CalcForm
<1>2. CASE Accepted(g)
  <2>1. PICK s \in Settings(g) : t = Writes(s)
    BY <1>2, CalcForm
  <2>2. s \in [1 .. 6 -> 0 .. RegMod - 1]
    BY SettingType
  <2>3. Len(t) = 6 /\ \A i \in 1 .. 6 : t[i] = [acc |-> "ctrl", reg |-> i - 1, val |-> s[i]]
    BY <2>1, <2>2, WritesType
  <2>4. /\ Len(t) = 6 - 0
        /\ \A i \in 1 .. 6 - 0 : t[i] = [acc |-> "ctrl", reg |-> (i + 0) - 1, val |-> s[i + 0]]
        /\ \A i \in 1 .. 0 : c[i - 1] = s[i]
    BY <2>3
  <2>5. QED
    BY <1>2, <2>4 DEF UnderWay
<1>3. QED
  BY <1>1, <1>2

(* The last of a setting's writes settles it.                              *)
LEMMA SettingWritten ==
  ASSUME NEW c, NEW g \in [Knobs -> Nat], Accepted(g), NEW s \in Settings(g),
         \A i \in 1 .. 6 : c[i - 1] = s[i]
  PROVE  Settled(g, << >>, c)
<1>1. s \in [1 .. 6 -> 0 .. RegMod - 1]
  BY SettingType
<1>2. s = [i \in 1 .. 6 |-> c[i - 1]]
  BY <1>1
<1>3. /\ c[0] = s[1] /\ c[2] = s[3] /\ c[3] = s[4] /\ c[4] = s[5] /\ c[5] = s[6]
  <2>1. c[1 - 1] = s[1] /\ c[3 - 1] = s[3] /\ c[4 - 1] = s[4] /\ c[5 - 1] = s[5] /\ c[6 - 1] = s[6]
    OBVIOUS
  <2>2. QED
    BY <2>1
<1>4. Fits(c)
  BY <1>3, SettingFits DEF Fits
<1>5. QED
  BY <1>2, <1>4 DEF Settled

(* What the registers are after an access.                                 *)
Written(a, c) == IF a.acc = "ctrl" THEN [c EXCEPT ![a.reg] = a.val] ELSE c

LEMMA WrittenForm ==
  ASSUME NEW c, NEW n, NEW v
  PROVE  Written([acc |-> "ctrl", reg |-> n, val |-> v], c) = [c EXCEPT ![n] = v]
BY DEF Written

LEMMA WrittenType ==
  ASSUME NEW c \in [0 .. 15 -> Int], NEW a \in Accesses
  PROVE  /\ Written(a, c) \in [0 .. 15 -> Int]
         /\ (a.acc = "ctrl" => a.reg \notin 0 .. 5) => \A r \in 0 .. 5 : Written(a, c)[r] = c[r]
<1>1. CASE a.acc = "ctrl"
  <2>1. a.reg \in 0 .. 15 /\ a.val \in 0 .. RegMod - 1
    BY <1>1 DEF Accesses
  <2>2. a.val \in Int
    BY <2>1
  <2>3. Written(a, c) = [c EXCEPT ![a.reg] = a.val]
    BY <1>1 DEF Written
  <2>4. QED
    BY <1>1, <2>1, <2>2, <2>3
<1>2. CASE a.acc # "ctrl"
  BY <1>2 DEF Written
<1>3. QED
  BY <1>1, <1>2

(* The first element of a sequence and the rest.                           *)
LEMMA HeadAndTail ==
  ASSUME NEW S, NEW t \in Seq(S), t # << >>
  PROVE  /\ Head(t) = t[1] /\ 1 \in DOMAIN t /\ Head(t) \in S
         /\ Len(t) \in Nat \ {0} /\ DOMAIN t = 1 .. Len(t)
         /\ Tail(t) \in Seq(S) /\ Len(Tail(t)) = Len(t) - 1
         /\ DOMAIN Tail(t) = 1 .. Len(t) - 1
         /\ \A i \in 1 .. Len(t) - 1 : Tail(t)[i] = t[i + 1] /\ i + 1 \in DOMAIN t
<1>1. Len(t) \in Nat \ {0} /\ DOMAIN t = 1 .. Len(t) /\ Head(t) = t[1]
  OBVIOUS
<1>2. t[1] \in S /\ 1 \in DOMAIN t
  BY <1>1
<1>3. /\ Tail(t) \in Seq(S) /\ Len(Tail(t)) = Len(t) - 1
      /\ DOMAIN Tail(t) = 1 .. Len(t) - 1
  BY <1>1
<1>4. \A i \in 1 .. Len(t) - 1 : Tail(t)[i] = t[i + 1] /\ i + 1 \in DOMAIN t
  BY <1>1
<1>5. QED
  BY <1>1, <1>2, <1>3, <1>4

LEMMA NoneLeft ==
  ASSUME NEW S, NEW q \in Seq(S), Len(q) = 0
  PROVE  q = << >>
OBVIOUS

LEMMA BeforeLast ==
  ASSUME NEW n \in 0 .. 5, NEW i \in 1 .. n + 1, i # n + 1
  PROVE  i \in 1 .. n /\ i - 1 \in 0 .. 15 /\ i - 1 # n
OBVIOUS

LEMMA UnderWayWrite ==
  ASSUME NEW g \in [Knobs -> Nat], NEW t \in Seq(Accesses), t # << >>,
         NEW c \in [0 .. 15 -> Int], UnderWay(g, t, c)
  PROVE  EnvelopeOK(g, Tail(t), Written(Head(t), c))
<1> DEFINE d == Written(Head(t), c)
<1>1. PICK s \in Settings(g), n \in 0 .. 5 :
        /\ Len(t) = 6 - n
        /\ \A i \in 1 .. 6 - n : t[i] = [acc |-> "ctrl", reg |-> (i + n) - 1, val |-> s[i + n]]
        /\ \A i \in 1 .. n : c[i - 1] = s[i]
  BY DEF UnderWay
<1>2. Accepted(g)
  BY DEF UnderWay
<1>3. Head(t) = [acc |-> "ctrl", reg |-> n, val |-> s[n + 1]]
  <2>1. Head(t) = t[1] /\ 1 \in 1 .. 6 - n /\ (1 + n) - 1 = n /\ 1 + n = n + 1
    BY <1>1, HeadAndTail
  <2>2. QED
    BY <1>1, <2>1
<1>4. d = [c EXCEPT ![n] = s[n + 1]]
  BY <1>3, WrittenForm
<1>5. \A i \in 1 .. n + 1 : d[i - 1] = s[i]
  <2> TAKE i \in 1 .. n + 1
  <2>0. n \in 0 .. 5 /\ i \in 1 .. n + 1
    OBVIOUS
  <2>1. CASE i = n + 1
    <3>1. i - 1 = n /\ n \in 0 .. 15
      BY <2>0, <2>1
    <3>2. QED
      BY <1>4, <2>1, <3>1
  <2>2. CASE i # n + 1
    <3>1. i \in 1 .. n /\ i - 1 \in 0 .. 15 /\ i - 1 # n
      BY <2>0, <2>2, BeforeLast
    <3>2. QED
      BY <1>1, <1>4, <3>1
  <2>3. QED
    BY <2>1, <2>2
<1>6. /\ Len(Tail(t)) = Len(t) - 1
      /\ \A i \in 1 .. Len(t) - 1 : Tail(t)[i] = t[i + 1]
      /\ Tail(t) \in Seq(Accesses)
  BY HeadAndTail
<1>7. CASE n = 5
  <2>1. Len(Tail(t)) = 0
    BY <1>1, <1>6, <1>7
  <2>2. Tail(t) = << >>
    BY <1>6, <2>1, NoneLeft
  <2>3. \A i \in 1 .. 6 : d[i - 1] = s[i]
    <3>1. n + 1 = 6
      BY <1>7
    <3>2. QED
      BY <1>5, <3>1
  <2>4. Settled(g, << >>, d)
    BY <1>2, <2>3, SettingWritten
  <2>5. QED
    BY <2>2, <2>4 DEF EnvelopeOK
<1>8. CASE n # 5
  <2>1. n + 1 \in 0 .. 5 /\ Len(Tail(t)) = 6 - (n + 1)
    BY <1>1, <1>6, <1>8
  <2>2. ASSUME NEW i \in 1 .. 6 - (n + 1)
        PROVE  Tail(t)[i] = [acc |-> "ctrl", reg |-> (i + (n + 1)) - 1, val |-> s[i + (n + 1)]]
    <3>1. i + 1 \in 1 .. 6 - n /\ i \in 1 .. Len(t) - 1 /\ (i + 1) + n = i + (n + 1)
      BY <1>1
    <3>2. t[i + 1] = [acc |-> "ctrl", reg |-> ((i + 1) + n) - 1, val |-> s[(i + 1) + n]]
      BY <1>1, <3>1
    <3>3. QED
      BY <1>6, <3>1, <3>2
  <2>3. UnderWay(g, Tail(t), d)
    BY <1>2, <1>5, <2>1, <2>2 DEF UnderWay
  <2>4. QED
    BY <2>3 DEF EnvelopeOK
<1>9. QED
  BY <1>7, <1>8

LEMMA SettledWrite ==
  ASSUME NEW g, NEW t \in Seq(Accesses), t # << >>,
         NEW c \in [0 .. 15 -> Int], Settled(g, t, c)
  PROVE  Settled(g, Tail(t), Written(Head(t), c))
<1> DEFINE d == Written(Head(t), c)
<1>1. Head(t) = t[1] /\ 1 \in DOMAIN t /\ Head(t) \in Accesses
  BY HeadAndTail
<1>2. \A r \in 0 .. 5 : d[r] = c[r]
  BY <1>1, WrittenType DEF Settled
<1>3. [i \in 1 .. 6 |-> d[i - 1]] = [i \in 1 .. 6 |-> c[i - 1]]
  <2>1. \A i \in 1 .. 6 : i - 1 \in 0 .. 5
    OBVIOUS
  <2>2. QED
    BY <1>2, <2>1
<1>4. Fits(d)
  <2>1. d[0] = c[0] /\ d[2] = c[2] /\ d[3] = c[3] /\ d[4] = c[4] /\ d[5] = c[5]
    BY <1>2
  <2>2. QED
    BY <2>1 DEF Fits, Settled
<1>5. \A i \in DOMAIN Tail(t) : Tail(t)[i] = t[i + 1] /\ i + 1 \in DOMAIN t
  BY HeadAndTail
<1>6. \A i \in DOMAIN Tail(t) : Tail(t)[i].acc = "ctrl" => Tail(t)[i].reg \notin 0 .. 5
  BY <1>5 DEF Settled
<1>7. QED
  BY <1>3, <1>4, <1>6 DEF Settled

LEMMA EnvelopeWrite ==
  ASSUME NEW g \in [Knobs -> Nat], NEW t \in Seq(Accesses), t # << >>,
         NEW c \in [0 .. 15 -> Int], EnvelopeOK(g, t, c)
  PROVE  EnvelopeOK(g, Tail(t), Written(Head(t), c))
BY UnderWayWrite, SettledWrite DEF EnvelopeOK

(* A poll of the firmware: a knob settles or starts a setting, everything  *)
(* else leaves the envelope registers alone.                               *)
LEMMA EnvelopePoll ==
  ASSUME FwTypeOK, MIDI_poll, NEW c, EnvelopeOK(globals, todo, c)
  PROVE  EnvelopeOK(globals', todo', c)
<1>1. todo = << >>
  BY PollForm
<1>2. Settled(globals, todo, c)
  <2>1. \A n \in 0 .. 5 : Len(<< >>) # 6 - n
    OBVIOUS
  <2>2. QED
    BY <1>1, <2>1 DEF EnvelopeOK, UnderWay
<1>3. PICK e \in MidiEvents : Handled(e)
  BY PollForm
<1>4. CASE OnKnob(e)
  <2>1. globals' \in [Knobs -> Nat] /\ todo' \in calc_adsr(globals')
    BY <1>1, <1>3, <1>4, HandledType DEF OnKnob
  <2>2. (~Accepted(globals') /\ todo' = << >>) \/ UnderWay(globals', todo', c)
    BY <2>1, CalcUnderWay
  <2>3. ~Accepted(globals') /\ todo' = << >> => Settled(globals', todo', c)
    BY <1>2 DEF Settled
  <2>4. QED
    BY <2>2, <2>3 DEF EnvelopeOK
<1>5. ASSUME globals' = globals, \A i \in DOMAIN todo' : todo'[i].acc = "ctrl" => todo'[i].reg \notin 0 .. 5
      PROVE  EnvelopeOK(globals', todo', c)
  BY <1>2, <1>5 DEF Settled, EnvelopeOK
<1>6. CASE OnNote(e)
  <2>1. \/ todo' = << >>
        \/ todo' = <<Read(e.note), WriteBack(e.note)>>
        \/ todo' = <<Press(e.note, e.vel)>>
    BY <1>6 DEF OnNote, set_note
  <2>2. \A i \in DOMAIN todo' : todo'[i].acc # "ctrl"
    BY <2>1 DEF Read, WriteBack, Press
  <2>3. QED
    BY <1>5, <1>6, <2>2 DEF OnNote
<1>7. ASSUME NEW reg \in 6 .. 15, NEW v, todo' = set_ctrl(e.channel, reg, v), globals' = globals
      PROVE  EnvelopeOK(globals', todo', c)
  <2>1. \A i \in DOMAIN todo' : todo'[i].reg = reg
    BY <1>7 DEF set_ctrl, SetReg
  <2>2. QED
    BY <1>5, <1>7, <2>1
<1>8. CASE OnSwitch(e)
  <2>1. e.reg \in 7 .. 11
    BY <1>8 DEF OnSwitch, MidiEvents
  <2>2. QED
    BY <1>7, <1>8, <2>1 DEF OnSwitch
<1>9. CASE OnPedal(e) \/ OnBend(e)
  <2>1. RegSUS \in 6 .. 15 /\ RegBEND \in 6 .. 15
    BY DEF RegSUS, RegBEND
  <2>2. QED
    BY <1>7, <1>9, <2>1 DEF OnPedal, OnBend
<1>10. CASE OnFlip(e) \/ OnOther(e)
  BY <1>1, <1>5, <1>10 DEF OnFlip, OnOther
<1>11. QED
  BY <1>3, <1>4, <1>6, <1>8, <1>9, <1>10 DEF Handled

(* The registers start cleared, which fits whatever the knobs are.         *)
LEMMA SettingStart ==
  ASSUME NEW c, Fits(c), FwInit
  PROVE  EnvelopeOK(globals, todo, c)
<1>1. globals \in [Knobs -> Nat] /\ todo \in calc_adsr(globals)
  BY FirmwareAssumption DEF FwInit
<1>2. (~Accepted(globals) /\ todo = << >>) \/ UnderWay(globals, todo, c)
  BY <1>1, CalcUnderWay
<1>3. ~Accepted(globals) /\ todo = << >> => Settled(globals, todo, c)
  BY DEF Settled
<1>4. QED
  BY <1>2, <1>3 DEF EnvelopeOK

(* Between two polls nothing is under way.                                 *)
LEMMA EnvelopeSettled ==
  ASSUME NEW g, NEW c, EnvelopeOK(g, << >>, c)
  PROVE  Settled(g, << >>, c)
<1>1. \A n \in 0 .. 5 : Len(<< >>) # 6 - n
  OBVIOUS
<1>2. QED
  BY <1>1 DEF EnvelopeOK, UnderWay

CtlInv == FwTypeOK /\ CTRL \in [0 .. 15 -> Int] /\ EnvelopeOK(globals, todo, CTRL)

LEMMA CtlInvHolds == CtlSpec => []CtlInv
<1>1. CtlInit => CtlInv
  <2> SUFFICES ASSUME CtlInit PROVE CtlInv
    OBVIOUS
  <2>1. FwTypeOK /\ CTRL = [r \in 0 .. 15 |-> 0]
    BY FwStart DEF CtlInit
  <2>2. CTRL \in [0 .. 15 -> Int] /\ Fits(CTRL)
    BY <2>1 DEF Fits
  <2>3. EnvelopeOK(globals, todo, CTRL)
    BY <2>2, SettingStart DEF CtlInit
  <2>4. QED
    BY <2>1, <2>2, <2>3 DEF CtlInv
<1>2. CtlInv /\ [CtlNext]_ctlVars => CtlInv'
  <2> SUFFICES ASSUME CtlInv, [CtlNext]_ctlVars PROVE CtlInv'
    OBVIOUS
  <2>1. CASE Turn
    <3>1. MIDI_poll /\ CTRL' = CTRL
      BY <2>1 DEF Turn
    <3>2. FwTypeOK'
      BY <3>1, PollType DEF CtlInv
    <3>3. EnvelopeOK(globals', todo', CTRL')
      BY <3>1, EnvelopePoll DEF CtlInv
    <3>4. QED
      BY <3>1, <3>2, <3>3 DEF CtlInv
  <2>2. CASE BusWrite
    <3>1. /\ todo # << >> /\ todo' = Tail(todo) /\ CTRL' = Written(Head(todo), CTRL)
          /\ UNCHANGED <<globals, ped_flip, controller>>
      BY <2>2 DEF BusWrite, Written
    <3>2. todo \in Seq(Accesses) /\ globals \in [Knobs -> Nat]
      BY DEF CtlInv, FwTypeOK
    <3>3. FwTypeOK'
      BY <3>1, DoneType DEF CtlInv, Done
    <3>4. Head(todo) \in Accesses
      BY <3>1, <3>2
    <3>5. CTRL' \in [0 .. 15 -> Int]
      BY <3>1, <3>4, WrittenType DEF CtlInv
    <3>6. EnvelopeOK(globals', todo', CTRL')
      BY <3>1, <3>2, EnvelopeWrite DEF CtlInv
    <3>7. QED
      BY <3>3, <3>5, <3>6 DEF CtlInv
  <2>3. CASE UNCHANGED ctlVars
    BY <2>3 DEF ctlVars, fwVars, CtlInv, FwTypeOK, controller
  <2>4. QED
    BY <2>1, <2>2, <2>3 DEF CtlNext
<1>3. QED
  BY <1>1, <1>2, PTL DEF CtlSpec

(* In whatever order knobs are turned, accepted and refused, between two   *)
(* polls the six envelope registers are the setting the knobs stand at,    *)
(* unless that is refused; for every scale of the knobs, every sample rate *)
(* and whichever way the amplitudes are rounded.                           *)
THEOREM EnvelopeIsCurrent == CtlSpec => []SettingsCurrent
<1>1. CtlInv => SettingsCurrent
  BY EnvelopeSettled DEF CtlInv, SettingsCurrent, Envelope, Settled
<1>2. QED
  BY <1>1, CtlInvHolds, PTL

(* And the six fit one another between any two polls, also while the knobs *)
(* stand at lengths that are refused.                                      *)
THEOREM EnvelopeFits == CtlSpec => []SettingsFit
<1>1. CtlInv => SettingsFit
  BY EnvelopeSettled DEF CtlInv, SettingsFit, Settled, Fits
<1>2. QED
  BY <1>1, CtlInvHolds, PTL

(* The same two of the engine's registers, between two polls.              *)
EngineSettingsCurrent ==
  todo = << >> /\ Accepted(globals) => [i \in 1 .. 6 |-> ctrl_reg[i - 1]] \in Settings(globals)

EngineSettingsFit == todo = << >> => Fits(ctrl_reg)

LEMMA EngineWrite ==
  ASSUME SysInv, NEW full \in BOOLEAN, WriteAccess(full) \/ ReadAccess(full)
  PROVE  ctrl_reg' = Written(Head(todo), ctrl_reg)
<1>1. /\ todo # << >> /\ Access = Head(todo) /\ BusOf(Access) \in BusOps
      /\ Clock(BusOf(Access), full)
  BY MasterStep DEF WriteAccess, ReadAccess, Access
<1>2. ctrl_reg' = IF BusOf(Access).op = "ctrl"
                  THEN [ctrl_reg EXCEPT ![BusOf(Access).write[1]] = BusOf(Access).write[2]]
                  ELSE ctrl_reg
  BY <1>1, ClockEffect DEF SysInv
<1>3. CASE CtrlOnly(todo)
  <2>1. todo \in Seq(Accesses) /\ 1 \in DOMAIN todo /\ Access = todo[1]
    BY <1>1, HeadAndTail DEF SysInv, FwTypeOK
  <2>2. Access.acc = "ctrl" /\ <<Access.reg, Access.val>> \in CtrlWrites
    BY <1>3, <2>1 DEF CtrlOnly
  <2>3. BusOf(Access) = [op |-> "ctrl", write |-> <<Access.reg, Access.val>>]
    BY <2>2, CtrlOp
  <2>4. ctrl_reg' = [ctrl_reg EXCEPT ![Access.reg] = Access.val]
    BY <1>2, <2>3
  <2>5. QED
    BY <1>1, <2>2, <2>4 DEF Written
<1>4. ASSUME Access.acc # "ctrl", BusOf(Access).op # "ctrl"
      PROVE  ctrl_reg' = Written(Head(todo), ctrl_reg)
  BY <1>1, <1>2, <1>4 DEF Written
<1>5. ASSUME NEW k \in Keys, NEW v \in Velocities, todo = <<Press(k, v)>>
      PROVE  ctrl_reg' = Written(Head(todo), ctrl_reg)
  <2>1. Access = Press(k, v)
    BY <1>5 DEF Access
  <2>2. QED
    BY <1>4, <2>1, PressOp
<1>6. ASSUME NEW k \in Keys, todo = <<Read(k), WriteBack(k)>>
      PROVE  ctrl_reg' = Written(Head(todo), ctrl_reg)
  <2>1. Access = Read(k)
    BY <1>6 DEF Access
  <2>2. QED
    BY <1>4, <2>1, ReadOp
<1>7. ASSUME NEW k \in Keys, todo = <<WriteBack(k)>>
      PROVE  ctrl_reg' = Written(Head(todo), ctrl_reg)
  <2>1. Access = WriteBack(k) /\ readData \in Velocities
    BY <1>7 DEF Access, SysInv
  <2>2. QED
    BY <1>4, <2>1, BackOp
<1>8. QED
  BY <1>3, <1>5, <1>6, <1>7 DEF SysInv, Shape, CtrlOnly

LEMMA EngineIdle ==
  ASSUME SysInv, NEW full \in BOOLEAN, Busy(full) \/ ReadWait(full)
  PROVE  UNCHANGED <<globals, todo, ctrl_reg>>
<1>1. UNCHANGED <<globals, todo>>
  BY DEF Busy, ReadWait, fwVars
<1>2. CASE Busy(full)
  <2>1. PICK b \in BusIdle : Clock(b, full)
    BY <1>2 DEF Busy
  <2>2. b \in BusOps /\ b.op = "idle"
    BY DEF BusOps, BusIdle
  <2>3. QED
    BY <1>1, <2>1, <2>2, ClockEffect DEF SysInv
<1>3. CASE ReadWait(full)
  <2>1. PICK k \in Keys : todo = <<Read(k), WriteBack(k)>>
    BY <1>3, ReadHead DEF ReadWait
  <2>2. Access = Read(k) /\ BusOf(Access) \in BusOps /\ Clock(BusOf(Access), full)
    BY <1>3, <2>1, MasterStep DEF Access
  <2>3. BusOf(Access).op = "idle"
    BY <2>2, ReadOp
  <2>4. QED
    BY <1>1, <2>2, <2>3, ClockEffect DEF SysInv
<1>4. QED
  BY <1>2, <1>3

LEMMA EngineEnvelopeStep ==
  ASSUME SysInv, [SysNext]_sysVars, EnvelopeOK(globals, todo, ctrl_reg)
  PROVE  EnvelopeOK(globals', todo', ctrl_reg')
<1>1. /\ todo \in Seq(Accesses) /\ globals \in [Knobs -> Nat]
      /\ ctrl_reg \in [0 .. 15 -> Int]
  BY DEF SysInv, FwTypeOK, TypeOK, Ctrls, Steps
<1>2. CASE Poll
  BY <1>2, EnvelopePoll DEF Poll, vars, SysInv
<1>3. ASSUME NEW full \in BOOLEAN, WriteAccess(full) \/ ReadAccess(full)
      PROVE  EnvelopeOK(globals', todo', ctrl_reg')
  <2>1. todo # << >> /\ todo' = Tail(todo) /\ globals' = globals
    BY <1>3 DEF WriteAccess, ReadAccess, Done
  <2>2. ctrl_reg' = Written(Head(todo), ctrl_reg)
    BY <1>3, EngineWrite
  <2>3. QED
    BY <1>1, <2>1, <2>2, EnvelopeWrite
<1>4. ASSUME NEW full \in BOOLEAN, Busy(full) \/ ReadWait(full)
      PROVE  EnvelopeOK(globals', todo', ctrl_reg')
  BY <1>4, EngineIdle
<1>5. CASE UNCHANGED sysVars
  BY <1>5 DEF sysVars, vars, fwVars
<1>6. QED
  BY <1>2, <1>3, <1>4, <1>5 DEF SysNext, SysClock

(* So it is in the engine, whatever plays meanwhile: its registers follow  *)
(* the knobs as CTRL does in EnvelopeControl, provided those the run starts*)
(* with fit, as cleared ones do.                                           *)
THEOREM EngineEnvelope ==
  ASSUME Fits(CtrlInit)
  PROVE  SysSpec => [](EngineSettingsCurrent /\ EngineSettingsFit)
<1>1. SysInit => EnvelopeOK(globals, todo, ctrl_reg)
  BY SettingStart DEF SysInit, Init
<1>2. SysInv /\ [SysNext]_sysVars /\ EnvelopeOK(globals, todo, ctrl_reg)
        => EnvelopeOK(globals, todo, ctrl_reg)'
  BY EngineEnvelopeStep
<1>3. EnvelopeOK(globals, todo, ctrl_reg) => EngineSettingsCurrent /\ EngineSettingsFit
  BY EnvelopeSettled DEF EngineSettingsCurrent, EngineSettingsFit, Settled
<1>4. QED
  BY <1>1, <1>2, <1>3, SysInvHolds, PTL DEF SysSpec

-----------------------------------------------------------------------------
(* The pedal                                                               *)

(* A register value from which the engine takes the pedal to be down.      *)
PedalBit(v) == v % (2 * PedalOn) >= PedalOn

(* What is known of the controller's pedal down, the accesses t still to be*)
(* made and the registers c: either the write that will say it is all that *)
(* is left to do, or nothing of the pedal is left and the register says it.*)
PedalKnown(down, t, c) ==
  \/ /\ Len(t) = 1 /\ t[1].acc = "ctrl" /\ t[1].reg = RegSUS
     /\ PedalBit(t[1].val) <=> down
  \/ /\ \A i \in DOMAIN t : t[i].acc = "ctrl" => t[i].reg # RegSUS
     /\ PedalBit(c[RegSUS]) <=> down

PedalUnderWay == inverted = ped_flip /\ PedalKnown(pedalDown, todo, ctrl_reg)

(* The remainder is the only number below the modulus that is a multiple of*)
(* it away.                                                                *)
LEMMA RemainderIs ==
  ASSUME NEW m \in Nat \ {0}, NEW q \in Int, NEW r \in 0 .. m - 1
  PROVE  (m * q + r) % m = r
<1> DEFINE x == m * q + r
           p == x \div m
           s == x % m
<1>1. x \in Int
  OBVIOUS
<1>2. p \in Int /\ s \in 0 .. m - 1 /\ x = m * p + s
  BY <1>1
<1> HIDE DEF p, s
<1>3. m * (q - p) = s - r
  BY <1>2
<1>4. q - p >= 1 => m * (q - p) >= m
  BY <1>2
<1>5. q - p <= -1 => m * (q - p) <= -m
  BY <1>2
<1>6. q = p
  BY <1>2, <1>3, <1>4, <1>5
<1>7. s = r
  BY <1>2, <1>3, <1>6
<1>8. QED
  BY <1>7 DEF s

(* A remainder by a multiple of the modulus keeps the remainder.           *)
LEMMA LowRemainder ==
  ASSUME NEW m \in Nat \ {0}, NEW n \in Nat \ {0}, n % m = 0, NEW v \in Int
  PROVE  (v % n) % m = v % m
<1> DEFINE k == n \div m
           p == v \div n
           r == v % n
           j == r \div m
           s == r % m
<1>1. k \in Int /\ n = m * k
  OBVIOUS
<1>2. p \in Int /\ r \in Int /\ v = n * p + r
  OBVIOUS
<1>3. j \in Int /\ s \in 0 .. m - 1 /\ r = m * j + s
  BY <1>2
<1> HIDE DEF k, p, r, j, s
<1>4. v = m * (k * p + j) + s /\ k * p + j \in Int
  BY <1>1, <1>2, <1>3
<1>5. v % m = s
  BY <1>3, <1>4, RemainderIs
<1>6. QED
  BY <1>5 DEF r, s

(* The register keeps the bits that the pedal is read from.                *)
LEMMA LowBits ==
  ASSUME NEW v \in Int
  PROVE  PedalBit(v % RegMod) <=> PedalBit(v)
<1>1. 2 * PedalOn \in Nat \ {0} /\ RegMod \in Nat \ {0} /\ RegMod % (2 * PedalOn) = 0
  BY DataPathAssumption, FirmwareAssumption, BusAssumption
<1>2. (v % RegMod) % (2 * PedalOn) = v % (2 * PedalOn)
  BY <1>1, LowRemainder
<1>3. QED
  BY <1>2 DEF PedalBit

(* A complement turns the pedal's bit round.                               *)
LEMMA ComplementBit ==
  ASSUME NEW par \in 0 .. 2 * PedalOn - 1
  PROVE  /\ PedalBit(par) <=> par >= PedalOn
         /\ PedalBit(-1 - par) <=> ~(par >= PedalOn)
<1> DEFINE m == 2 * PedalOn
<1>1. PedalOn \in Nat \ {0} /\ m \in Nat \ {0} /\ par \in 0 .. m - 1
  BY DataPathAssumption
<1>2. par % m = par
  BY <1>1, ModSmall
<1>3. (-1 - par) % m = m - 1 - par
  <2>1. m - 1 - par \in 0 .. m - 1 /\ -1 \in Int
    BY <1>1
  <2>2. (m * (-1) + (m - 1 - par)) % m = m - 1 - par
    BY <1>1, <2>1, RemainderIs
  <2>3. m * (-1) + (m - 1 - par) = -1 - par
    BY <1>1
  <2>4. QED
    BY <2>2, <2>3
<1>4. QED
  BY <1>1, <1>2, <1>3 DEF PedalBit

(* calc_adsr() leaves the other registers alone.                           *)
LEMMA CalcRegs ==
  ASSUME NEW g \in [Knobs -> Nat], NEW t \in calc_adsr(g)
  PROVE  \A i \in DOMAIN t : t[i].reg # RegSUS
<1>1. CASE t = << >>
  BY <1>1
<1>2. ASSUME NEW s \in Settings(g), t = Writes(s)
      PROVE  \A i \in DOMAIN t : t[i].reg # RegSUS
  <2>1. s \in [1 .. 6 -> 0 .. RegMod - 1]
    BY SettingType
  <2>2. /\ DOMAIN t = 1 .. 6
        /\ \A i \in 1 .. 6 : t[i] = [acc |-> "ctrl", reg |-> i - 1, val |-> s[i]]
    BY <1>2, <2>1, WritesType
  <2>3. ASSUME NEW i \in 1 .. 6
        PROVE  t[i].reg # RegSUS
    <3>1. t[i].reg = i - 1
      BY <2>2
    <3>2. QED
      BY <3>1 DEF RegSUS
  <2>4. QED
    BY <2>2, <2>3
<1>3. QED
  BY <1>1, <1>2, CalcForm

LEMMA PedalPoll ==
  ASSUME OneEventPackets, SysInv, PedalUnderWay, Poll
  PROVE  PedalUnderWay'
<1>1. PICK e \in Events :
        /\ e \in MidiEvents /\ Handled(e)
        /\ inverted' = IF e.type = "flip" THEN e.par # 0 ELSE inverted
        /\ pedalDown' = IF e.type = "pedal" /\ e.channel = 0
                        THEN (e.par >= PedalMin) # inverted ELSE pedalDown
  BY OneEvent DEF Poll
<1>2. todo = << >> /\ ctrl_reg' = ctrl_reg /\ inverted = ped_flip
  BY PollForm DEF Poll, vars, PedalUnderWay
<1>3. PedalBit(ctrl_reg[RegSUS]) <=> pedalDown
  <2>1. Len(<< >>) # 1
    OBVIOUS
  <2>2. QED
    BY <1>2, <2>1 DEF PedalUnderWay, PedalKnown
<1>4. ASSUME inverted' = ped_flip', pedalDown' = pedalDown,
             \A i \in DOMAIN todo' : todo'[i].acc = "ctrl" => todo'[i].reg # RegSUS
      PROVE  PedalUnderWay'
  BY <1>2, <1>3, <1>4 DEF PedalUnderWay, PedalKnown
<1>5. ASSUME e.type # "flip", ped_flip' = ped_flip
      PROVE  inverted' = ped_flip'
  BY <1>1, <1>2, <1>5
<1>6. CASE OnNote(e)
  <2>1. \/ todo' = << >>
        \/ todo' = <<Read(e.note), WriteBack(e.note)>>
        \/ todo' = <<Press(e.note, e.vel)>>
    BY <1>6 DEF OnNote, set_note
  <2>2. \A i \in DOMAIN todo' : todo'[i].acc # "ctrl"
    BY <2>1 DEF Read, WriteBack, Press
  <2>3. pedalDown' = pedalDown /\ inverted' = ped_flip'
    BY <1>1, <1>5, <1>6 DEF OnNote
  <2>4. QED
    BY <1>4, <2>2, <2>3
<1>7. ASSUME NEW reg \in 7 .. 12, NEW v, todo' = set_ctrl(e.channel, reg, v),
             e.type \in {"switch", "bend"}, ped_flip' = ped_flip
      PROVE  PedalUnderWay'
  <2>1. \A i \in DOMAIN todo' : todo'[i].reg = reg
    BY <1>7 DEF set_ctrl, SetReg
  <2>2. reg # RegSUS
    BY DEF RegSUS
  <2>3. pedalDown' = pedalDown /\ inverted' = ped_flip'
    BY <1>1, <1>5, <1>7
  <2>4. QED
    BY <1>4, <2>1, <2>2, <2>3
<1>8. CASE OnSwitch(e)
  <2>1. e.reg \in 7 .. 12
    BY <1>1, <1>8 DEF OnSwitch, MidiEvents
  <2>2. QED
    BY <1>7, <1>8, <2>1 DEF OnSwitch
<1>9. CASE OnBend(e)
  <2>1. RegBEND \in 7 .. 12
    BY DEF RegBEND
  <2>2. QED
    BY <1>7, <1>9, <2>1 DEF OnBend
<1>10. CASE OnKnob(e)
  <2>1. globals' \in [Knobs -> Nat] /\ todo' \in calc_adsr(globals')
    BY <1>1, <1>2, <1>10, HandledType DEF OnKnob, SysInv
  <2>2. \A i \in DOMAIN todo' : todo'[i].reg # RegSUS
    BY <2>1, CalcRegs
  <2>3. pedalDown' = pedalDown /\ inverted' = ped_flip'
    BY <1>1, <1>5, <1>10 DEF OnKnob
  <2>4. QED
    BY <1>4, <2>2, <2>3
<1>11. CASE OnFlip(e)
  <2>1. inverted' = ped_flip' /\ pedalDown' = pedalDown /\ todo' = << >>
    BY <1>1, <1>11 DEF OnFlip
  <2>2. QED
    BY <1>4, <2>1
<1>12. CASE OnOther(e)
  <2>1. inverted' = ped_flip' /\ pedalDown' = pedalDown /\ todo' = << >>
    BY <1>1, <1>2, <1>5, <1>12 DEF OnOther
  <2>2. QED
    BY <1>4, <2>1
<1>13. CASE OnPedal(e)
  <2>1. /\ e.type = "pedal" /\ ped_flip' = ped_flip
        /\ todo' = set_ctrl(e.channel, RegSUS, IF ped_flip THEN -1 - e.par ELSE e.par)
    BY <1>13 DEF OnPedal
  <2>2. inverted' = ped_flip' /\ ped_flip \in BOOLEAN
    BY <1>5, <2>1 DEF SysInv, FwTypeOK
  <2>3. CASE e.channel # 0
    <3>1. todo' = << >> /\ pedalDown' = pedalDown
      BY <1>1, <2>1, <2>3 DEF set_ctrl
    <3>2. QED
      BY <1>4, <2>2, <3>1
  <2>4. CASE e.channel = 0
    <3> DEFINE sent == IF ped_flip THEN -1 - e.par ELSE e.par
    <3>1. e.par \in 0 .. 2 * PedalOn - 1
      <4>1. e.par \in Nat /\ e.par < 2 * PedalOn /\ PedalOn \in Nat
        BY <1>1, <2>1, BusAssumption, CalcAssumption, DataPathAssumption DEF MidiEvents, Pars
      <4>2. QED
        BY <4>1
    <3>2. PedalBit(sent) <=> pedalDown'
      <4>1. pedalDown' = ((e.par >= PedalOn) # ped_flip)
        BY <1>1, <1>2, <2>1, <2>4, BusAssumption
      <4>2. pedalDown' <=> ((e.par >= PedalOn) <=> ~ped_flip)
        <5> DEFINE high == e.par >= PedalOn
        <5>1. high \in BOOLEAN /\ pedalDown' = (high # ped_flip)
          BY <3>1, <4>1, DataPathAssumption
        <5> HIDE DEF high
        <5>2. pedalDown' <=> (high <=> ~ped_flip)
          BY <2>2, <5>1, Zenon
        <5>3. QED
          BY <5>2 DEF high
      <4>3. /\ PedalBit(e.par) <=> e.par >= PedalOn
            /\ PedalBit(-1 - e.par) <=> ~(e.par >= PedalOn)
        BY <3>1, ComplementBit
      <4>4. PedalBit(sent) <=> IF ped_flip THEN PedalBit(-1 - e.par) ELSE PedalBit(e.par)
        BY <2>2
      <4>5. QED
        BY <4>2, <4>3, <4>4
    <3>3. sent \in Int
      BY <3>1, DataPathAssumption
    <3>4. todo' = <<[acc |-> "ctrl", reg |-> RegSUS, val |-> sent % RegMod]>>
      BY <2>1, <2>4 DEF set_ctrl, SetReg
    <3>5. /\ Len(todo') = 1 /\ todo'[1].acc = "ctrl" /\ todo'[1].reg = RegSUS
          /\ todo'[1].val = sent % RegMod
      BY <3>4
    <3>6. PedalBit(todo'[1].val) <=> pedalDown'
      BY <3>2, <3>3, <3>5, LowBits
    <3>7. QED
      BY <2>2, <3>5, <3>6 DEF PedalUnderWay, PedalKnown
  <2>5. QED
    BY <2>3, <2>4
<1>14. QED
  BY <1>1, <1>6, <1>8, <1>9, <1>10, <1>11, <1>12, <1>13 DEF Handled

(* An access made, the rest is known as before.                            *)
LEMMA PedalWrite ==
  ASSUME NEW down, NEW t \in Seq(Accesses), t # << >>,
         NEW c \in [0 .. 15 -> Int], PedalKnown(down, t, c)
  PROVE  PedalKnown(down, Tail(t), Written(Head(t), c))
<1>1. /\ Head(t) = t[1] /\ 1 \in DOMAIN t /\ Head(t) \in Accesses
      /\ Len(Tail(t)) = Len(t) - 1 /\ Tail(t) \in Seq(Accesses)
      /\ DOMAIN Tail(t) = 1 .. Len(t) - 1
      /\ \A i \in 1 .. Len(t) - 1 : Tail(t)[i] = t[i + 1] /\ i + 1 \in DOMAIN t
  BY HeadAndTail
<1>2. CASE /\ Len(t) = 1 /\ t[1].acc = "ctrl" /\ t[1].reg = RegSUS
           /\ PedalBit(t[1].val) <=> down
  <2>1. DOMAIN Tail(t) = {}
    BY <1>1, <1>2
  <2>2. Written(Head(t), c)[RegSUS] = t[1].val
    <3>1. Written(Head(t), c) = [c EXCEPT ![RegSUS] = t[1].val]
      BY <1>1, <1>2 DEF Written
    <3>2. RegSUS \in 0 .. 15
      BY DEF RegSUS
    <3>3. QED
      BY <3>1, <3>2
  <2>3. QED
    BY <1>2, <2>1, <2>2 DEF PedalKnown
<1>3. CASE /\ \A i \in DOMAIN t : t[i].acc = "ctrl" => t[i].reg # RegSUS
           /\ PedalBit(c[RegSUS]) <=> down
  <2>1. \A i \in DOMAIN Tail(t) : Tail(t)[i].acc = "ctrl" => Tail(t)[i].reg # RegSUS
    BY <1>1, <1>3
  <2>2. Written(Head(t), c)[RegSUS] = c[RegSUS]
    <3>1. RegSUS \in 0 .. 15
      BY DEF RegSUS
    <3>2. CASE Head(t).acc = "ctrl"
      <4>1. Head(t).reg # RegSUS
        BY <1>1, <1>3, <3>2
      <4>2. Written(Head(t), c) = [c EXCEPT ![Head(t).reg] = Head(t).val]
        BY <3>2 DEF Written
      <4>3. QED
        BY <3>1, <4>1, <4>2
    <3>3. CASE Head(t).acc # "ctrl"
      BY <3>3 DEF Written
    <3>4. QED
      BY <3>2, <3>3
  <2>3. QED
    BY <1>3, <2>1, <2>2 DEF PedalKnown
<1>4. QED
  BY <1>2, <1>3 DEF PedalKnown

LEMMA PedalStep ==
  ASSUME OneEventPackets, SysInv, PedalUnderWay, [SysNext]_sysVars
  PROVE  PedalUnderWay'
<1>1. todo \in Seq(Accesses) /\ ctrl_reg \in [0 .. 15 -> Int]
  BY DEF SysInv, FwTypeOK, TypeOK, Ctrls, Steps
<1>2. CASE Poll
  BY <1>2, PedalPoll
<1>3. ASSUME NEW full \in BOOLEAN, WriteAccess(full) \/ ReadAccess(full)
      PROVE  PedalUnderWay'
  <2>1. todo # << >> /\ todo' = Tail(todo) /\ UNCHANGED <<ped_flip, controller>>
    BY <1>3 DEF WriteAccess, ReadAccess, Done
  <2>2. ctrl_reg' = Written(Head(todo), ctrl_reg)
    BY <1>3, EngineWrite
  <2>3. PedalKnown(pedalDown, todo', ctrl_reg')
    BY <1>1, <2>1, <2>2, PedalWrite DEF PedalUnderWay
  <2>4. QED
    BY <2>1, <2>3 DEF PedalUnderWay, controller
<1>4. ASSUME NEW full \in BOOLEAN, Busy(full) \/ ReadWait(full)
      PROVE  PedalUnderWay'
  <2>1. UNCHANGED <<ped_flip, controller>>
    BY <1>4 DEF Busy, ReadWait, fwVars
  <2>2. UNCHANGED <<todo, ctrl_reg>>
    BY <1>4, EngineIdle
  <2>3. QED
    BY <2>1, <2>2 DEF PedalUnderWay, controller
<1>5. CASE UNCHANGED sysVars
  BY <1>5 DEF sysVars, vars, fwVars, controller, PedalUnderWay
<1>6. QED
  BY <1>2, <1>3, <1>4, <1>5 DEF SysNext, SysClock

(* The pedal is down in the engine when it is down on the controller, as   *)
(* soon as the firmware has nothing left to do, for a controller that sends*)
(* one event in a packet: for every width of the register and of the       *)
(* pedal's field in it, whichever way the pedal is wired and whatever the  *)
(* complement's sign bits are.                                             *)
THEOREM PedalArrives ==
  ASSUME OneEventPackets, ~SUS(CtrlInit)
  PROVE  SysSpec => []PedalFollows
<1>1. SysInit => PedalUnderWay
  <2> SUFFICES ASSUME SysInit PROVE PedalUnderWay
    OBVIOUS
  <2>1. /\ ped_flip = FALSE /\ inverted = FALSE /\ pedalDown = FALSE /\ ctrl_reg = CtrlInit
    BY DEF SysInit, Init, FwInit
  <2>2. ~PedalBit(ctrl_reg[RegSUS])
    BY <2>1 DEF SUS, PedalBit, RegSUS
  <2>3. todo \in calc_adsr(Globals0) /\ Globals0 \in [Knobs -> Nat]
    BY FirmwareAssumption DEF SysInit, FwInit
  <2>4. \A i \in DOMAIN todo : todo[i].reg # RegSUS
    BY <2>3, CalcRegs
  <2>5. QED
    BY <2>1, <2>2, <2>4 DEF PedalUnderWay, PedalKnown
<1>2. SysInv /\ PedalUnderWay /\ [SysNext]_sysVars => PedalUnderWay'
  BY PedalStep
<1>3. PedalUnderWay => PedalFollows
  <2> SUFFICES ASSUME PedalUnderWay, todo = << >> PROVE SUS(ctrl_reg) <=> pedalDown
    BY DEF PedalFollows
  <2>1. Len(<< >>) # 1
    OBVIOUS
  <2>2. QED
    BY <2>1 DEF PedalUnderWay, PedalKnown, SUS, PedalBit, RegSUS
<1>4. QED
  BY <1>1, <1>2, <1>3, SysInvHolds, PTL DEF SysSpec
=============================================================================
