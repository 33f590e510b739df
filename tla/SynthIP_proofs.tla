---------------------------- MODULE SynthIP_proofs ----------------------------
(***************************************************************************)
(* Theorems about the engine, for every number of keys, every width and    *)
(* every sequence of bus operations, full flags and resets.                *)
(***************************************************************************)
EXTENDS SynthIP, TLAPS

(* A remainder is below its modulus, so every wrapping adder of the code   *)
(* stays within its register.                                              *)
LEMMA ModRange ==
  ASSUME NEW x \in Int, NEW m \in Nat \ {0}
  PROVE  x % m \in 0 .. m - 1
  OBVIOUS

(* Where an adder does not leave its range it does not wrap.               *)
LEMMA ModSmall ==
  ASSUME NEW m \in Nat \ {0}, NEW x \in 0 .. m - 1
  PROVE  x % m = x
  OBVIOUS

(* The amplitude a visit stores fits the register.                         *)
LEMMA MuxType ==
  ASSUME NEW amp \in Amps, NEW play, NEW c \in [Ctrls -> Steps]
  PROVE  AMP_MUX_O(amp, play, c) \in Amps
<1>1. c[0] \in Int /\ c[1] \in Int /\ c[2] \in Int /\ c[3] \in Int /\ c[4] \in Int /\ c[5] \in Int
  BY DEF Ctrls, Steps
<1>2. amp \in Int
  BY DEF Amps
<1>3. \A x \in Int : x % AmpMod \in Amps
  BY ModRange, DataPathAssumption DEF Amps
<1>4. /\ ATT_AMP(amp, c) \in Amps
      /\ DEC_AMP(amp, c) \in Amps
      /\ SUS_AMP(amp, c) \in Amps
      /\ REL_AMP(amp, c) \in Amps
  BY <1>1, <1>2, <1>3
     DEF ATT_AMP, DEC_AMP, SUS_AMP, REL_AMP, ATT_STEP, DEC_STEP, SUS_STEP, REL_STEP
<1>5. QED
  BY <1>4 DEF AMP_MUX_O

(* The next phase fits the accumulator, bent or not.                       *)
LEMMA PhaseType ==
  ASSUME NEW phase \in Phases, NEW f \in Nat, NEW c \in [Ctrls -> Steps]
  PROVE  PHASE_INC(phase, f, c) \in Phases
<1>1. BEND(c) \in Int
  <2>1. c[12] \in Int /\ 2 * BendOne \in Nat \ {0}
    BY DataPathAssumption DEF Ctrls, Steps
  <2>2. c[12] % (2 * BendOne) \in 0 .. 2 * BendOne - 1
    BY <2>1, ModRange
  <2>3. QED
    BY <2>1, <2>2 DEF BEND
<1>2. f * BEND(c) \in Int
  BY <1>1
<1>3. (f * BEND(c)) \div BendOne \in Int
  BY <1>2, DataPathAssumption
<1>4. phase + (IF BEND_MUX(c) THEN (f * BEND(c)) \div BendOne ELSE f) \in Int
  BY <1>3 DEF Phases
<1>5. QED
  BY <1>4, ModRange, DataPathAssumption DEF PHASE_INC, Phases

(* A bus write leaves play bits in every key.                              *)
LEMMA AvlPlayType ==
  ASSUME NEW b \in BusOps, NEW play \in [Keys -> SUBSET PlayBits]
  PROVE  AvlPlay(play, b) \in [Keys -> SUBSET PlayBits]
  BY DEF AvlPlay, BusOps, BusIdle, KeyWrite, CtrlWrite, PlayBits, Held, Attack, Sounding

(* The bus side of an edge keeps the types of the registers it writes.     *)
LEMMA BusEdgeType ==
  ASSUME TypeOK,
         NEW b \in BusOps, NEW play \in [Keys -> SUBSET PlayBits],
         BusEdge(b, play)
  PROVE  /\ play_reg' \in [Keys -> SUBSET PlayBits]
         /\ ctrl_reg' \in [Ctrls -> Steps]
         /\ vel_reg' \in [Keys -> Velocities]
         /\ AVL_READVEL' \in Velocities
<1>1. play_reg' \in [Keys -> SUBSET PlayBits]
  BY AvlPlayType DEF BusEdge
<1>2. vel_reg' \in [Keys -> Velocities]
  BY DEF BusEdge, TypeOK, BusOps, BusIdle, KeyWrite, CtrlWrite
<1>3. ctrl_reg' \in [Ctrls -> Steps]
  <2>1. CASE b.op = "ctrl"
    <3>1. b.write \in Ctrls \X Steps
      BY <2>1, SynthAssumption DEF BusOps, BusIdle, KeyWrite, CtrlWrite
    <3>2. b.write[1] \in Ctrls /\ b.write[2] \in Steps
      BY <3>1
    <3>3. QED
      BY <2>1, <3>2 DEF BusEdge, TypeOK
  <2>2. CASE b.op # "ctrl"
    BY <2>2 DEF BusEdge, TypeOK
  <2>3. QED
    BY <2>1, <2>2
<1>4. AVL_KEY(b) \in Keys
  <2>1. CASE b.op = "ctrl"
    <3>1. b.write[1] \in Int
      BY <2>1, SynthAssumption DEF BusOps, BusIdle, KeyWrite, CtrlWrite, Ctrls
    <3>2. QED
      BY <2>1, <3>1, ModRange, SynthAssumption DEF AVL_KEY, Keys
  <2>2. CASE b.op # "ctrl"
    BY <2>2 DEF AVL_KEY, BusOps, BusIdle, KeyWrite, CtrlWrite
  <2>3. QED
    BY <2>1, <2>2
<1>5. AVL_READVEL' \in Velocities
  BY <1>4 DEF BusEdge, TypeOK
<1>6. QED
  BY <1>1, <1>2, <1>3, <1>5

(* The entry a phase addresses is a natural number.                        *)
LEMMA AddrType ==
  ASSUME TypeOK, TableEdge
  PROVE  table_addr' \in Nat
<1>1. phase_reg[KEY] \in Nat
  BY DEF TypeOK, Phases
<1>2. phase_reg[KEY] \div EntrySpan \in Nat
  BY <1>1, DataPathAssumption
<1>3. QED
  BY <1>2 DEF TableEdge, ADDR

(* The scan moves to a key that exists.                                    *)
LEMMA NextKeyType ==
  ASSUME TypeOK
  PROVE  NEXT_KEY \in Keys /\ AfterKey \in States
<1>1. KEY + 1 \in Int
  BY SynthAssumption DEF TypeOK, Keys
<1>2. QED
  BY <1>1, ModRange, SynthAssumption DEF NEXT_KEY, AfterKey, Keys, States

(* No step takes a register out of its type.                               *)
LEMMA TypeStep ==
  ASSUME TypeOK, [Next]_vars
  PROVE  TypeOK'
<1>1. ASSUME NEW b \in BusOps, Halted(b) PROVE TypeOK'
  BY <1>1, BusEdgeType, AddrType DEF Halted, TypeOK, States
<1>2. ASSUME NEW b \in BusOps, NEW full \in BOOLEAN, Start(b, full) PROVE TypeOK'
  BY <1>2, BusEdgeType, AddrType DEF Start, TypeOK, States
<1>3. ASSUME NEW b \in BusOps, CheckKey(b) PROVE TypeOK'
  BY <1>3, BusEdgeType, AddrType DEF CheckKey, TypeOK, States
<1>4. ASSUME NEW b \in BusOps, KeyOn(b) PROVE TypeOK'
  <2> DEFINE next == AMP_MUX_O(amp_reg[KEY], play_reg[KEY], ctrl_reg)
             mixed == Contribution(KEY, table_addr, next, vel_reg[KEY])
             bits == NEXT_PLAY(amp_reg[KEY], play_reg[KEY], ctrl_reg)
             play == [play_reg EXCEPT ![KEY] = bits]
  <2>1. next \in Amps
    BY MuxType DEF TypeOK
  <2>2. amp_reg' \in [Keys -> Amps]
    BY <1>4, <2>1 DEF KeyOn, TypeOK
  <2>3. mixed \in ContributionType
    BY <2>1 DEF TypeOK, Contribution, ContributionType
  <2>4. TONE' \in Seq(ContributionType)
    BY <1>4, <2>3 DEF KeyOn, TypeOK
  <2>5. bits \in SUBSET PlayBits
    BY DEF NEXT_PLAY
  <2>6. play \in [Keys -> SUBSET PlayBits] /\ BusEdge(b, play)
    BY <1>4, <2>5 DEF KeyOn, TypeOK
  <2>7. PHASE_INC(phase_reg[KEY], F[KEY], ctrl_reg) \in Phases
    BY PhaseType, SynthAssumption DEF TypeOK
  <2>8. phase_reg' \in [Keys -> Phases]
    BY <1>4, <2>7 DEF KeyOn, TypeOK
  <2>9. table_addr' \in Nat
    BY <1>4, AddrType DEF KeyOn
  <2>10. state' \in States /\ KEY' \in Keys
    BY <1>4, NextKeyType DEF KeyOn
  <2>11. /\ play_reg' \in [Keys -> SUBSET PlayBits]
         /\ ctrl_reg' \in [Ctrls -> Steps]
         /\ vel_reg' \in [Keys -> Velocities]
         /\ AVL_READVEL' \in Velocities
    BY <2>6, BusEdgeType
  <2>12. QED
    BY <2>2, <2>4, <2>8, <2>9, <2>10, <2>11 DEF TypeOK
<1>5. ASSUME NEW b \in BusOps, KeyOff(b) PROVE TypeOK'
  <2>1. 0 \in Amps /\ 0 \in Phases
    BY DataPathAssumption DEF Amps, Phases
  <2>2. amp_reg' \in [Keys -> Amps] /\ phase_reg' \in [Keys -> Phases]
    BY <1>5, <2>1 DEF KeyOff, TypeOK
  <2>3. /\ play_reg' \in [Keys -> SUBSET PlayBits]
        /\ ctrl_reg' \in [Ctrls -> Steps]
        /\ vel_reg' \in [Keys -> Velocities]
        /\ AVL_READVEL' \in Velocities
    BY <1>5, BusEdgeType DEF KeyOff, TypeOK
  <2>4. QED
    BY <1>5, <2>2, <2>3, AddrType, NextKeyType DEF KeyOff, TypeOK
<1>6. ASSUME NEW b \in BusOps, Write(b) PROVE TypeOK'
  BY <1>6, BusEdgeType, AddrType DEF Write, TypeOK, States
<1>7. ASSUME Reset PROVE TypeOK'
  <2>1. 0 \in Keys /\ 0 \in Velocities
    BY SynthAssumption DEF Keys
  <2>2. QED
    BY <1>7, <2>1, AddrType DEF Reset, TypeOK, States
<1>8. ASSUME UNCHANGED vars PROVE TypeOK'
  BY <1>8 DEF vars, TypeOK
<1>9. QED
  BY <1>1, <1>2, <1>3, <1>4, <1>5, <1>6, <1>7, <1>8 DEF Next, Clock

(* Power-up and the contents CtrlInit have their types.                    *)
LEMMA TypeInit == Init => TypeOK
<1>1. 0 \in Keys /\ 0 \in Amps /\ 0 \in Phases
  BY SynthAssumption, DataPathAssumption DEF Keys, Amps, Phases
<1>2. QED
  BY <1>1, SynthAssumption DEF Init, TypeOK, States, PlayBits

(* Type correctness: every register of the engine keeps its width, for any *)
(* number of keys and any bus traffic (src/synth_ip.sv, src/datapath.sv).  *)
THEOREM TypeCorrect == Spec => []TypeOK
<1>1. TypeOK /\ [Next]_vars => TypeOK'
  BY TypeStep
<1>2. QED
  BY <1>1, TypeInit, PTL DEF Spec

-----------------------------------------------------------------------------
(* What a bus write can do to a key's play bits: it never sets or clears   *)
(* Sounding, never leaves Held alone, and never clears the last bit of a   *)
(* key whose bits are not just Held.                                       *)
LEMMA AvlPlayKeeps ==
  ASSUME NEW b \in BusOps, NEW play \in [Keys -> SUBSET PlayBits], NEW k \in Keys
  PROVE  /\ Sounding \in AvlPlay(play, b)[k] <=> Sounding \in play[k]
         /\ play[k] # {Held} => AvlPlay(play, b)[k] # {Held}
         /\ play[k] # {Held} /\ play[k] # {} => AvlPlay(play, b)[k] # {}
         /\ Attack \in play[k] => Attack \in AvlPlay(play, b)[k]
<1>1. CASE b.op = "key"
  <2>1. b.key \in Keys /\ b.play \in BOOLEAN
    BY <1>1 DEF BusOps, BusIdle, KeyWrite, CtrlWrite
  <2>2. AvlPlay(play, b)[k] =
          IF k = b.key THEN IF b.play THEN play[k] \cup {Held, Attack} ELSE play[k] \ {Held}
                       ELSE play[k]
    BY <1>1, <2>1 DEF AvlPlay
  <2>3. play[k] \subseteq {Held, Attack, Sounding}
    BY DEF PlayBits
  <2>4. QED
    BY <2>2, <2>3 DEF Held, Attack, Sounding
<1>2. CASE b.op # "key"
  BY <1>2 DEF AvlPlay
<1>3. QED
  BY <1>1, <1>2

(* A visit never leaves Held alone: a held voice that has not ended sounds.*)
LEMMA NextPlayKeeps ==
  ASSUME NEW amp, NEW play, NEW c
  PROVE  /\ NEXT_PLAY(amp, play, c) \in SUBSET PlayBits
         /\ NEXT_PLAY(amp, play, c) # {Held}
<1>1. Held \in NEXT_PLAY(amp, play, c) => Sounding \in NEXT_PLAY(amp, play, c)
  BY DEF NEXT_PLAY, PlayBits, Held, Attack, Sounding
<1>2. QED
  BY <1>1 DEF NEXT_PLAY, Held, Sounding

(* Where the scan stands when nothing is mixed yet.                        *)
ScanAtRest ==
  /\ state \in {"halted", "write"} => KEY = 0
  /\ state = "halted" => TONE = << >>

(* The inductive invariant of the scan.                                    *)
ScanInv == ScanAtRest /\ MixedInOrder /\ MixedComplete /\ DecisionHolds /\ SampleIsOwn

(* DecisionHolds survives a clock on which the machine does not move past  *)
(* the key and the engine itself stores no play bits.                      *)
LEMMA PlayStep ==
  ASSUME TypeOK, NEW b \in BusOps, BusEdge(b, play_reg),
         \A k \in Keys : play_reg[k] # {Held}
  PROVE  \A k \in Keys : /\ play_reg'[k] # {Held}
                         /\ Sounding \in play_reg'[k] <=> Sounding \in play_reg[k]
                         /\ play_reg[k] # {} => play_reg'[k] # {}
  BY AvlPlayKeeps DEF BusEdge, TypeOK

(* The machine's idle states change neither what is mixed nor the voices'  *)
(* amplitudes and phases.                                                  *)
LEMMA QuietStep ==
  ASSUME TypeOK, ScanInv, NEW b \in BusOps, Halted(b) \/ (\E full \in BOOLEAN : Start(b, full)) \/ CheckKey(b)
  PROVE  ScanInv'
<1>1. /\ BusEdge(b, play_reg) /\ TableEdge
      /\ UNCHANGED <<KEY, amp_reg, phase_reg, TONE>>
  BY DEF Halted, Start, CheckKey
<1>2. \A k \in Keys : /\ play_reg'[k] # {Held}
                      /\ Sounding \in play_reg'[k] <=> Sounding \in play_reg[k]
                      /\ play_reg[k] # {} => play_reg'[k] # {}
  BY <1>1, PlayStep DEF ScanInv, DecisionHolds
<1>3. state # "write" /\ state' \notin {"write", "halted"}
  BY DEF Halted, Start, CheckKey
<1>4. Scanned' = Scanned /\ Mixed' = Mixed
  BY <1>1, <1>3 DEF Scanned, Mixed
<1>5. Scanned \subseteq Keys
  BY SynthAssumption DEF Scanned, TypeOK, Keys
<1>6. MixedInOrder'
  BY <1>1, <1>4 DEF MixedInOrder, ScanInv
<1>7. MixedComplete'
  BY <1>1, <1>2, <1>4, <1>5 DEF MixedComplete, ScanInv
<1>8. ScanAtRest'
  BY <1>3 DEF ScanAtRest
<1>9. state' = "key_on" => CheckKey(b) /\ play_reg[KEY] # {}
  BY DEF Halted, Start, CheckKey
<1>10. state' = "key_off" => CheckKey(b) /\ play_reg[KEY] = {}
  BY DEF Halted, Start, CheckKey
<1>11. DecisionHolds'
  BY <1>1, <1>2, <1>9, <1>10 DEF DecisionHolds, TypeOK
<1>12. SampleIsOwn'
  BY <1>1 DEF SampleIsOwn, TableEdge
<1>13. QED
  BY <1>6, <1>7, <1>8, <1>11, <1>12 DEF ScanInv

(* What moving past a key does to the set of scanned keys.                 *)
LEMMA AdvanceScan ==
  ASSUME TypeOK, state # "write", state' = AfterKey, KEY' = NEXT_KEY
  PROVE  /\ Scanned = 0 .. KEY - 1
         /\ Scanned' = 0 .. KEY
         /\ state' = "write" => KEY' = 0
<1>1. KEY \in 0 .. NumKeys - 1 /\ NumKeys \in Nat \ {0}
  BY SynthAssumption DEF TypeOK, Keys
<1>2. CASE KEY = NumKeys - 1
  <2>1. state' = "write"
    BY <1>2 DEF AfterKey
  <2>2. KEY' = 0
    BY <1>1, <1>2 DEF NEXT_KEY
  <2>3. QED
    BY <1>1, <1>2, <2>1, <2>2 DEF Scanned, Keys
<1>3. CASE KEY # NumKeys - 1
  <2>1. state' = "start"
    BY <1>3 DEF AfterKey
  <2>2. KEY + 1 \in 0 .. NumKeys - 1
    BY <1>1, <1>3
  <2>3. KEY' = KEY + 1
    BY <1>1, <2>2, ModSmall DEF NEXT_KEY
  <2>4. QED
    BY <1>1, <2>1, <2>3 DEF Scanned
<1>4. QED
  BY <1>2, <1>3

(* A visit of a sounding key adds it at the end of the sample.             *)
LEMMA KeyOnStep ==
  ASSUME TypeOK, ScanInv, NEW b \in BusOps, KeyOn(b)
  PROVE  ScanInv'
<1> DEFINE next == AMP_MUX_O(amp_reg[KEY], play_reg[KEY], ctrl_reg)
           mixed == Contribution(KEY, table_addr, next, vel_reg[KEY])
           bits == NEXT_PLAY(amp_reg[KEY], play_reg[KEY], ctrl_reg)
           play == [play_reg EXCEPT ![KEY] = bits]
<1>1. /\ amp_reg' = [amp_reg EXCEPT ![KEY] = next]
      /\ TONE' = Append(TONE, mixed)
      /\ BusEdge(b, play)
      /\ state' = AfterKey /\ KEY' = NEXT_KEY /\ state = "key_on"
      /\ \A k \in Keys \ {KEY} : phase_reg'[k] = phase_reg[k]
  BY DEF KeyOn, TypeOK
<1>2. /\ Scanned = 0 .. KEY - 1
      /\ Scanned' = 0 .. KEY
      /\ state' = "write" => KEY' = 0
  BY <1>1, AdvanceScan
<1>3. KEY \in Keys /\ KEY \in Nat /\ Keys \subseteq Nat /\ Scanned' \subseteq Keys
  BY <1>2, SynthAssumption DEF TypeOK, Keys
<1>4. TONE \in Seq(ContributionType) /\ mixed.key = KEY /\ mixed.amp = next
  BY DEF TypeOK, Contribution
<1>5. /\ Len(TONE) \in Nat
      /\ DOMAIN TONE = 1 .. Len(TONE)
      /\ DOMAIN TONE' = 1 .. Len(TONE) + 1
      /\ \A i \in DOMAIN TONE : TONE'[i] = TONE[i]
      /\ TONE'[Len(TONE) + 1] = mixed
  BY <1>1, <1>4
<1>6. Mixed' = Mixed \cup {KEY}
  BY <1>4, <1>5 DEF Mixed
<1>7. \A i \in DOMAIN TONE : TONE[i].key \in 0 .. KEY - 1
  BY <1>2 DEF ScanInv, MixedInOrder, Mixed
<1>8. MixedInOrder'
  <2>1. ASSUME NEW i \in DOMAIN TONE', NEW j \in DOMAIN TONE', i < j
        PROVE  TONE'[i].key < TONE'[j].key
    <3>1. CASE j \in DOMAIN TONE
      BY <2>1, <3>1, <1>5 DEF ScanInv, MixedInOrder
    <3>2. CASE j = Len(TONE) + 1
      <4>1. i \in DOMAIN TONE
        BY <2>1, <3>2, <1>5
      <4>2. QED
        BY <4>1, <3>2, <1>3, <1>4, <1>5, <1>7
    <3>3. QED
      BY <3>1, <3>2, <1>5
  <2>2. Mixed' \subseteq Scanned'
    BY <1>2, <1>3, <1>6 DEF ScanInv, MixedInOrder
  <2>3. QED
    BY <2>1, <2>2 DEF MixedInOrder
<1>9. play \in [Keys -> SUBSET PlayBits] /\ \A k \in Keys : play[k] # {Held}
  BY NextPlayKeeps DEF TypeOK, ScanInv, DecisionHolds
<1>10. /\ \A k \in Keys : play_reg'[k] # {Held}
       /\ \A k \in Keys \ {KEY} : Sounding \in play_reg'[k] <=> Sounding \in play_reg[k]
  <2>1. play_reg' = AvlPlay(play, b)
    BY <1>1 DEF BusEdge
  <2>2. \A k \in Keys \ {KEY} : play[k] = play_reg[k]
    BY DEF TypeOK
  <2>3. \A k \in Keys : /\ Sounding \in AvlPlay(play, b)[k] <=> Sounding \in play[k]
                        /\ AvlPlay(play, b)[k] # {Held}
    <3> HIDE DEF play
    <3>1. QED
      BY <1>9, AvlPlayKeeps
  <2>4. QED
    <3> HIDE DEF play
    <3>1. QED
      BY <2>1, <2>2, <2>3
<1>11. MixedComplete'
  <2>1. ASSUME NEW k \in Scanned'
        PROVE  IF k \in Mixed'
               THEN \E i \in DOMAIN TONE' : TONE'[i].key = k /\ TONE'[i].amp = amp_reg'[k]
               ELSE Sounding \notin play_reg'[k] /\ amp_reg'[k] = 0 /\ phase_reg'[k] = 0
    <3>1. CASE k = KEY
      <4>1. amp_reg'[KEY] = next
        BY <1>1 DEF TypeOK
      <4>2. Len(TONE) + 1 \in DOMAIN TONE'
        BY <1>5
      <4>3. QED
        BY <3>1, <4>1, <4>2, <1>4, <1>5, <1>6
    <3>2. CASE k # KEY
      <4>1. k \in Scanned /\ k \in Keys \ {KEY}
        BY <2>1, <3>2, <1>2, <1>3
      <4>2. amp_reg'[k] = amp_reg[k] /\ phase_reg'[k] = phase_reg[k]
        BY <4>1, <1>1 DEF TypeOK
      <4>3. k \in Mixed' <=> k \in Mixed
        BY <3>2, <1>6
      <4>4. \A i \in DOMAIN TONE : i \in DOMAIN TONE'
        BY <1>5
      <4>5. QED
        BY <4>1, <4>2, <4>3, <4>4, <1>5, <1>10 DEF ScanInv, MixedComplete
    <3>3. QED
      BY <3>1, <3>2
  <2>2. QED
    BY <2>1 DEF MixedComplete
<1>12. state' \in {"start", "write"}
  BY <1>1 DEF AfterKey
<1>13. QED
  BY <1>2, <1>8, <1>10, <1>11, <1>12 DEF ScanInv, ScanAtRest, DecisionHolds, SampleIsOwn

(* A visit of an idle key silences it and leaves the sample alone.         *)
LEMMA KeyOffStep ==
  ASSUME TypeOK, ScanInv, NEW b \in BusOps, KeyOff(b)
  PROVE  ScanInv'
<1>1. /\ amp_reg' = [amp_reg EXCEPT ![KEY] = 0]
      /\ phase_reg' = [phase_reg EXCEPT ![KEY] = 0]
      /\ BusEdge(b, play_reg)
      /\ state' = AfterKey /\ KEY' = NEXT_KEY /\ state = "key_off" /\ TONE' = TONE
  BY DEF KeyOff
<1>2. /\ Scanned = 0 .. KEY - 1
      /\ Scanned' = 0 .. KEY
      /\ state' = "write" => KEY' = 0
  BY <1>1, AdvanceScan
<1>3. KEY \in Keys /\ KEY \in Nat /\ Scanned' \subseteq Keys
  BY <1>2, SynthAssumption DEF TypeOK, Keys
<1>4. \A k \in Keys : /\ play_reg'[k] # {Held}
                      /\ Sounding \in play_reg'[k] <=> Sounding \in play_reg[k]
  BY <1>1, PlayStep DEF ScanInv, DecisionHolds
<1>5. Mixed' = Mixed /\ Mixed \subseteq 0 .. KEY - 1
  BY <1>1, <1>2 DEF Mixed, ScanInv, MixedInOrder
<1>6. MixedInOrder'
  BY <1>1, <1>2, <1>3, <1>5 DEF MixedInOrder, ScanInv
<1>7. MixedComplete'
  <2>1. ASSUME NEW k \in Scanned'
        PROVE  IF k \in Mixed'
               THEN \E i \in DOMAIN TONE' : TONE'[i].key = k /\ TONE'[i].amp = amp_reg'[k]
               ELSE Sounding \notin play_reg'[k] /\ amp_reg'[k] = 0 /\ phase_reg'[k] = 0
    <3>1. CASE k = KEY
      BY <3>1, <1>1, <1>3, <1>4, <1>5 DEF TypeOK, ScanInv, DecisionHolds
    <3>2. CASE k # KEY
      <4>1. k \in Scanned /\ k \in Keys
        BY <2>1, <3>2, <1>2, <1>3
      <4>2. amp_reg'[k] = amp_reg[k] /\ phase_reg'[k] = phase_reg[k]
        BY <3>2, <4>1, <1>1 DEF TypeOK
      <4>3. QED
        BY <4>1, <4>2, <1>1, <1>4, <1>5 DEF ScanInv, MixedComplete
    <3>3. QED
      BY <3>1, <3>2
  <2>2. QED
    BY <2>1 DEF MixedComplete
<1>8. state' \in {"start", "write"}
  BY <1>1 DEF AfterKey
<1>9. QED
  BY <1>2, <1>4, <1>6, <1>7, <1>8 DEF ScanInv, ScanAtRest, DecisionHolds, SampleIsOwn

(* Handing the sample over, and a reset, leave an empty sample at key 0.   *)
LEMMA RestartStep ==
  ASSUME TypeOK, ScanInv, Reset \/ (\E b \in BusOps : Write(b))
  PROVE  ScanInv'
<1>1. /\ TONE' = << >> /\ KEY' = 0 /\ state' \in {"halted", "start"}
      /\ \A k \in Keys : play_reg'[k] # {Held}
  <2>1. CASE Reset
    BY <2>1 DEF Reset, ScanInv, DecisionHolds
  <2>2. ASSUME NEW b \in BusOps, Write(b)
        PROVE  TONE' = << >> /\ KEY' = 0 /\ state' = "start"
    BY <2>2 DEF Write, ScanInv, ScanAtRest
  <2>3. ASSUME NEW b \in BusOps, Write(b)
        PROVE  \A k \in Keys : play_reg'[k] # {Held}
    BY <2>3, PlayStep DEF Write, ScanInv, DecisionHolds
  <2>4. QED
    BY <2>1, <2>2, <2>3
<1>2. Scanned' = {} /\ Mixed' = {} /\ DOMAIN TONE' = {}
  BY <1>1 DEF Scanned, Mixed
<1>3. MixedInOrder' /\ MixedComplete'
  BY <1>2 DEF MixedInOrder, MixedComplete
<1>4. QED
  BY <1>1, <1>3 DEF ScanInv, ScanAtRest, DecisionHolds, SampleIsOwn

LEMMA ScanStep ==
  ASSUME TypeOK, ScanInv, [Next]_vars
  PROVE  ScanInv'
<1>1. CASE UNCHANGED vars
  BY <1>1 DEF vars, ScanInv, ScanAtRest, MixedInOrder, MixedComplete, DecisionHolds,
              SampleIsOwn, Scanned, Mixed
<1>2. CASE Next
  BY <1>2, QuietStep, KeyOnStep, KeyOffStep, RestartStep DEF Next, Clock
<1>3. QED
  BY <1>1, <1>2

LEMMA ScanStart == Init => ScanInv
<1> SUFFICES ASSUME Init PROVE ScanInv
  OBVIOUS
<1>1. Scanned = {} /\ Mixed = {} /\ DOMAIN TONE = {}
  BY DEF Init, Scanned, Mixed
<1>2. QED
  BY <1>1 DEF Init, ScanInv, ScanAtRest, MixedInOrder, MixedComplete, DecisionHolds, SampleIsOwn

(* The scan is right for any number of keys: every sample has each         *)
(* sounding voice once, in order, with its own wavetable sample, and the   *)
(* decision of check_key is never overtaken by a bus write.                *)
THEOREM ScanCorrect == Spec => [](MixedInOrder /\ MixedComplete /\ SampleIsOwn /\ DecisionHolds)
<1>1. ScanInv /\ TypeOK /\ [Next]_vars => ScanInv'
  BY ScanStep
<1>2. ScanInv => MixedInOrder /\ MixedComplete /\ SampleIsOwn /\ DecisionHolds
  BY DEF ScanInv
<1>3. QED
  BY <1>1, <1>2, ScanStart, TypeCorrect, PTL DEF Spec

(* No key is mixed twice into a sample or before its turn, however the     *)
(* machine stalls or is reset in the middle of a scan.                     *)
THEOREM OrderedMix == Spec => []MixedInOrder
  BY ScanCorrect, PTL

(* A key is mixed with the table sample at its own phase: the visit of the *)
(* key before it, two clocks earlier, is never what the table still holds. *)
THEOREM OwnSample == Spec => []SampleIsOwn
  BY ScanCorrect, PTL

(* What check_key read of a key is still good when key_on or key_off acts  *)
(* on it a clock later, whatever the bus wrote to the key in between.      *)
THEOREM DecisionKept == Spec => []DecisionHolds
  BY ScanCorrect, PTL
-----------------------------------------------------------------------------
(* A voice past its attack holds at least one release step of amplitude:   *)
(* the fact that makes the next subtraction safe.  The envelope registers  *)
(* stay what they were at the start.                                       *)
EnvelopeInv ==
  /\ \A r \in 0 .. 5 : ctrl_reg[r] = CtrlInit[r]
  /\ \A k \in Keys :
       play_reg[k] # {} /\ Attack \notin play_reg[k] => amp_reg[k] >= REL_STEP(CtrlInit)

(* The registers of the envelope, named once.                              *)
LEMMA EnvelopeRegisters ==
  ASSUME NEW c \in [Ctrls -> Steps]
  PROVE  /\ PEAK_ATT(c) \in Nat /\ ATT_STEP(c) \in Nat /\ DEC_STEP(c) \in Nat
         /\ PEAK_SUS(c) \in Nat /\ SUS_STEP(c) \in Nat /\ REL_STEP(c) \in Nat
  BY DEF PEAK_ATT, ATT_STEP, DEC_STEP, PEAK_SUS, SUS_STEP, REL_STEP, Ctrls, Steps

(* A visit past the attack with at least a release step of amplitude       *)
(* subtracts without wrapping.                                             *)
LEMMA NoWrap ==
  ASSUME NEW amp \in Amps, NEW play, NEW c \in [Ctrls -> Steps], Gentle(c),
         Attack \notin play, amp >= REL_STEP(c)
  PROVE  AMP_MUX_O(amp, play, c) <= amp
<1>1. amp \in Nat /\ AmpMod \in Nat \ {0} /\ amp <= AmpMod - 1
  BY DataPathAssumption DEF Amps
<1>2. \A x \in Nat : x <= amp => (amp - x) % AmpMod <= amp
  <2>1. ASSUME NEW x \in Nat, x <= amp
        PROVE  (amp - x) % AmpMod <= amp
    <3>1. amp - x \in 0 .. AmpMod - 1
      BY <1>1, <2>1
    <3>2. (amp - x) % AmpMod = amp - x
      BY <3>1, <1>1, ModSmall
    <3>3. QED
      BY <1>1, <2>1, <3>2
  <2>2. QED
    BY <2>1
<1>3. SUS_STEP(c) <= amp
  BY EnvelopeRegisters, <1>1 DEF Gentle
<1>4. amp > PEAK_SUS(c) => DEC_STEP(c) <= amp
  BY EnvelopeRegisters, <1>1 DEF Gentle
<1>5. DEC_STEP(c) \in Nat /\ SUS_STEP(c) \in Nat /\ REL_STEP(c) \in Nat
  BY EnvelopeRegisters
<1>6. /\ amp > PEAK_SUS(c) => DEC_AMP(amp, c) <= amp
      /\ SUS_AMP(amp, c) <= amp
      /\ REL_AMP(amp, c) <= amp
  BY <1>2, <1>3, <1>4, <1>5 DEF DEC_AMP, SUS_AMP, REL_AMP
<1>7. QED
  BY <1>6 DEF AMP_MUX_O, ATT_ON

(* A voice that a visit leaves past its attack still holds a release step. *)
LEMMA StillHolds ==
  ASSUME NEW amp \in Amps, NEW play, NEW c \in [Ctrls -> Steps], Gentle(c),
         NEXT_PLAY(amp, play, c) # {}, Attack \notin NEXT_PLAY(amp, play, c)
  PROVE  AMP_MUX_O(amp, play, c) >= REL_STEP(c)
<1>1. AMP_MUX_O(amp, play, c) \in Int
  BY MuxType DEF Amps
<1>2. ATT_OFF(amp, play, c) /\ ~NOTE_END(amp, play, c)
  BY DEF NEXT_PLAY, PlayBits, Held, Attack, Sounding
<1>3. CASE ATT_ON(play)
  <2>1. ATT_AMP(amp, c) >= PEAK_ATT(c)
    BY <1>2, <1>3 DEF ATT_OFF
  <2>2. AMP_MUX_O(amp, play, c) = ATT_AMP(amp, c)
    BY <1>3 DEF AMP_MUX_O
  <2>3. REL_STEP(c) <= PEAK_ATT(c)
    BY DEF Gentle
  <2>4. REL_STEP(c) \in Nat /\ PEAK_ATT(c) \in Nat
    BY EnvelopeRegisters
  <2>5. QED
    BY <2>1, <2>2, <2>3, <2>4, <1>1
<1>4. CASE ~ATT_ON(play)
  BY <1>1, <1>2, <1>4, EnvelopeRegisters DEF NOTE_END
<1>5. QED
  BY <1>3, <1>4

(* What the visits read is what the run started with.                      *)
LEMMA SameEnvelope ==
  ASSUME TypeOK, EnvelopeInv, Gentle(CtrlInit)
  PROVE  Gentle(ctrl_reg) /\ REL_STEP(ctrl_reg) = REL_STEP(CtrlInit)
  BY DEF EnvelopeInv, Gentle, PEAK_ATT, DEC_STEP, PEAK_SUS, SUS_STEP, REL_STEP

(* The bus cannot end an attack, so a voice it leaves past its attack was  *)
(* past it before.                                                         *)
LEMMA AvlPlayPastAttack ==
  ASSUME NEW b \in BusOps, NEW play \in [Keys -> SUBSET PlayBits], NEW k \in Keys,
         AvlPlay(play, b)[k] # {}, Attack \notin AvlPlay(play, b)[k]
  PROVE  play[k] # {} /\ Attack \notin play[k]
<1>1. CASE b.op = "key"
  <2>1. b.key \in Keys /\ b.play \in BOOLEAN
    BY <1>1 DEF BusOps, BusIdle, KeyWrite, CtrlWrite
  <2>2. AvlPlay(play, b)[k] =
          IF k = b.key THEN IF b.play THEN play[k] \cup {Held, Attack} ELSE play[k] \ {Held}
                       ELSE play[k]
    BY <1>1, <2>1 DEF AvlPlay
  <2>3. QED
    BY <2>2 DEF Held, Attack
<1>2. CASE b.op # "key"
  BY <1>2 DEF AvlPlay
<1>3. QED
  BY <1>1, <1>2

(* On any edge with the bus, given what the engine leaves in the play bits *)
(* and amplitudes.                                                         *)
LEMMA EnvelopeBus ==
  ASSUME TypeOK, EnvelopeInv, EnvelopeAtRest,
         NEW b \in BusOps, NEW play \in [Keys -> SUBSET PlayBits], BusEdge(b, play),
         \A k \in Keys : play[k] # {} /\ Attack \notin play[k]
                           => amp_reg'[k] >= REL_STEP(CtrlInit)
  PROVE  EnvelopeInv'
<1>1. ASSUME NEW r \in 0 .. 5 PROVE ctrl_reg'[r] = CtrlInit[r]
  <2>1. CASE b.op = "ctrl"
    <3>1. b.write \in CtrlWrites
      BY <2>1 DEF BusOps, BusIdle, KeyWrite, CtrlWrite
    <3>2. b.write[1] # r
      BY <3>1 DEF EnvelopeAtRest
    <3>3. QED
      BY <2>1, <3>2 DEF BusEdge, EnvelopeInv, TypeOK, Ctrls
  <2>2. CASE b.op # "ctrl"
    BY <2>2 DEF BusEdge, EnvelopeInv
  <2>3. QED
    BY <2>1, <2>2
<1>2. ASSUME NEW k \in Keys, play_reg'[k] # {}, Attack \notin play_reg'[k]
      PROVE  amp_reg'[k] >= REL_STEP(CtrlInit)
  BY <1>2, AvlPlayPastAttack DEF BusEdge
<1>3. QED
  BY <1>1, <1>2 DEF EnvelopeInv

(* A visit keeps a release step in every voice it leaves past its attack,  *)
(* and makes no voice that was past its attack louder.                     *)
LEMMA EnvelopeStep ==
  ASSUME TypeOK, ScanInv, EnvelopeInv, EnvelopeAtRest, Gentle(CtrlInit), [Next]_vars
  PROVE  /\ EnvelopeInv'
         /\ \A k \in Keys : Attack \notin play_reg[k] => amp_reg'[k] <= amp_reg[k]
<1>1. \A k \in Keys : amp_reg[k] \in Nat /\ amp_reg[k] \in Amps
  BY DEF TypeOK, Amps
<1>2. Gentle(ctrl_reg) /\ REL_STEP(ctrl_reg) = REL_STEP(CtrlInit)
  BY SameEnvelope
<1>3. CASE UNCHANGED vars \/ Reset
  BY <1>1, <1>3 DEF vars, Reset, EnvelopeInv
<1>4. ASSUME NEW b \in BusOps, UNCHANGED amp_reg, BusEdge(b, play_reg)
      PROVE  EnvelopeInv' /\ \A k \in Keys : amp_reg'[k] <= amp_reg[k]
  BY <1>1, <1>4, EnvelopeBus DEF TypeOK, EnvelopeInv
<1>5. ASSUME NEW b \in BusOps, KeyOff(b)
      PROVE  EnvelopeInv' /\ \A k \in Keys : amp_reg'[k] <= amp_reg[k]
  <2>1. amp_reg' = [amp_reg EXCEPT ![KEY] = 0] /\ BusEdge(b, play_reg) /\ state = "key_off"
    BY <1>5 DEF KeyOff
  <2>2. play_reg[KEY] \subseteq {Held, Attack} /\ play_reg[KEY] # {Held}
    BY <2>1 DEF ScanInv, DecisionHolds, TypeOK, PlayBits
  <2>3. play_reg[KEY] = {} \/ Attack \in play_reg[KEY]
    BY <2>2
  <2>4. \A k \in Keys : k # KEY => amp_reg'[k] = amp_reg[k]
    BY <2>1 DEF TypeOK
  <2>5. \A k \in Keys : play_reg[k] # {} /\ Attack \notin play_reg[k]
                          => amp_reg'[k] >= REL_STEP(CtrlInit)
    BY <2>3, <2>4 DEF EnvelopeInv
  <2>6. EnvelopeInv'
    BY <2>1, <2>5, EnvelopeBus DEF TypeOK
  <2>7. amp_reg'[KEY] = 0
    BY <2>1 DEF TypeOK
  <2>8. QED
    BY <1>1, <2>4, <2>6, <2>7
<1>6. ASSUME NEW b \in BusOps, KeyOn(b)
      PROVE  /\ EnvelopeInv'
             /\ \A k \in Keys : Attack \notin play_reg[k] => amp_reg'[k] <= amp_reg[k]
  <2> DEFINE next == AMP_MUX_O(amp_reg[KEY], play_reg[KEY], ctrl_reg)
             bits == NEXT_PLAY(amp_reg[KEY], play_reg[KEY], ctrl_reg)
             play == [play_reg EXCEPT ![KEY] = bits]
  <2>1. /\ amp_reg' = [amp_reg EXCEPT ![KEY] = next]
        /\ BusEdge(b, play)
        /\ state = "key_on"
    BY <1>6 DEF KeyOn
  <2>2. KEY \in Keys /\ ctrl_reg \in [Ctrls -> Steps] /\ amp_reg[KEY] \in Amps
    BY DEF TypeOK
  <2>3. amp_reg'[KEY] = next /\ \A k \in Keys : k # KEY => amp_reg'[k] = amp_reg[k]
    BY <2>1 DEF TypeOK
  <2>4. bits # {} /\ Attack \notin bits => next >= REL_STEP(CtrlInit)
    BY <1>2, <2>2, StillHolds
  <2>5. play \in [Keys -> SUBSET PlayBits]
    BY NextPlayKeeps DEF TypeOK
  <2>6. play[KEY] = bits /\ \A k \in Keys : k # KEY => play[k] = play_reg[k]
    BY <2>2 DEF TypeOK
  <2>7. \A k \in Keys : play[k] # {} /\ Attack \notin play[k]
                          => amp_reg'[k] >= REL_STEP(CtrlInit)
    <3> HIDE DEF play, bits, next
    <3>1. QED
      BY <2>3, <2>4, <2>6 DEF EnvelopeInv
  <2>8. EnvelopeInv'
    <3> HIDE DEF play
    <3>1. QED
      BY <2>1, <2>5, <2>7, EnvelopeBus
  <2>9. Attack \notin play_reg[KEY] => next <= amp_reg[KEY]
    <3>1. ASSUME Attack \notin play_reg[KEY] PROVE amp_reg[KEY] >= REL_STEP(ctrl_reg)
      BY <1>2, <2>1, <2>2, <3>1 DEF ScanInv, DecisionHolds, EnvelopeInv
    <3>2. QED
      BY <1>2, <2>2, <3>1, NoWrap
  <2>10. QED
    BY <1>1, <2>3, <2>8, <2>9
<1>7. QED
  BY <1>3, <1>4, <1>5, <1>6 DEF Next, Clock, Halted, Start, CheckKey, Write

LEMMA EnvelopeStart == Init => EnvelopeInv
  BY DEF Init, EnvelopeInv

(* With gentle settings at rest no voice past its attack ever gets louder: *)
(* the decay, sustain and release subtractions of src/datapath.sv never    *)
(* wrap, for any widths, any number of keys and any strikes, releases,     *)
(* pedal writes and resets.                                                *)
THEOREM QuietDecay ==
  ASSUME EnvelopeAtRest, Gentle(CtrlInit)
  PROVE  Spec => NeverLouder
<1>1. ScanInv /\ TypeOK /\ EnvelopeInv /\ [Next]_vars
        => EnvelopeInv'
  BY EnvelopeStep
<1>2. ScanInv /\ TypeOK /\ EnvelopeInv /\ [Next]_vars
        => [\A k \in Keys : Attack \notin play_reg[k] => amp_reg'[k] <= amp_reg[k]]_vars
  BY EnvelopeStep
<1>3. ScanInv /\ TypeOK /\ [Next]_vars => ScanInv'
  BY ScanStep
<1>4. QED
  BY <1>1, <1>2, <1>3, ScanStart, EnvelopeStart, TypeCorrect, PTL DEF Spec, NeverLouder

-----------------------------------------------------------------------------
(* With the envelope registers at rest, whatever they are, an idle voice   *)
(* is below one release step.                                              *)
Quiet(k) == amp_reg[k] = 0 \/ amp_reg[k] < REL_STEP(CtrlInit)

QuietInv ==
  /\ \A r \in 0 .. 5 : ctrl_reg[r] = CtrlInit[r]
  /\ \A k \in Keys : play_reg[k] = {} => Quiet(k)
  /\ state = "key_off" => Quiet(KEY)

LEMMA EnvelopeStays ==
  ASSUME TypeOK, EnvelopeAtRest, [Next]_vars, \A r \in 0 .. 5 : ctrl_reg[r] = CtrlInit[r]
  PROVE  \A r \in 0 .. 5 : ctrl_reg'[r] = CtrlInit[r]
<1>1. CASE UNCHANGED ctrl_reg
  BY <1>1
<1>2. ASSUME NEW b \in BusOps, NEW play, BusEdge(b, play), NEW r \in 0 .. 5
      PROVE  ctrl_reg'[r] = CtrlInit[r]
  <2>1. CASE b.op = "ctrl"
    <3>1. b.write \in CtrlWrites
      BY <2>1 DEF BusOps, BusIdle, KeyWrite, CtrlWrite
    <3>2. b.write[1] # r
      BY <3>1 DEF EnvelopeAtRest
    <3>3. QED
      BY <1>2, <2>1, <3>2 DEF BusEdge, TypeOK, Ctrls
  <2>2. CASE b.op # "ctrl"
    BY <1>2, <2>2 DEF BusEdge
  <2>3. QED
    BY <2>1, <2>2
<1>3. CASE UNCHANGED vars \/ Reset
  BY <1>1, <1>3 DEF vars, Reset
<1>4. ASSUME NEW b \in BusOps, NEW full \in BOOLEAN, Clock(b, full)
      PROVE  \E play : BusEdge(b, play)
  BY <1>4 DEF Clock, Halted, Start, CheckKey, KeyOn, KeyOff, Write
<1>5. QED
  BY <1>2, <1>3, <1>4 DEF Next

(* The bus leaves no key idle that was not; a visit only a note that ended.*)
LEMMA QuietKeeps ==
  ASSUME TypeOK, ScanInv, QuietInv, EnvelopeAtRest, [Next]_vars
  PROVE  QuietInv'
<1>1. \A r \in 0 .. 5 : ctrl_reg'[r] = CtrlInit[r]
  BY EnvelopeStays DEF QuietInv
<1>2. \A k \in Keys : play_reg[k] # {Held}
  BY DEF ScanInv, DecisionHolds
<1>3. CASE UNCHANGED vars \/ Reset
  BY <1>1, <1>3 DEF vars, Reset, QuietInv, Quiet
<1>4. ASSUME NEW b \in BusOps, BusEdge(b, play_reg),
             Halted(b) \/ (\E full \in BOOLEAN : Start(b, full)) \/ CheckKey(b) \/ Write(b)
      PROVE  QuietInv'
  <2>1. UNCHANGED <<KEY, amp_reg>> /\ (state' = "key_off" => play_reg[KEY] = {})
    BY <1>4 DEF Halted, Start, CheckKey, Write
  <2>2. \A k \in Keys : play_reg'[k] = {} => play_reg[k] = {}
    BY <1>2, <1>4, PlayStep
  <2>3. QED
    BY <1>1, <2>1, <2>2 DEF QuietInv, Quiet, TypeOK
<1>5. ASSUME NEW b \in BusOps, KeyOff(b)
      PROVE  QuietInv'
  <2>1. /\ amp_reg' = [amp_reg EXCEPT ![KEY] = 0] /\ BusEdge(b, play_reg)
        /\ state' \in {"start", "write"}
    BY <1>5 DEF KeyOff, AfterKey
  <2>2. \A k \in Keys : play_reg'[k] = {} => play_reg[k] = {}
    BY <1>2, <2>1, PlayStep
  <2>3. \A k \in Keys : amp_reg'[k] = IF k = KEY THEN 0 ELSE amp_reg[k]
    BY <2>1 DEF TypeOK
  <2>4. QED
    BY <1>1, <2>1, <2>2, <2>3 DEF QuietInv, Quiet
<1>6. ASSUME NEW b \in BusOps, KeyOn(b)
      PROVE  QuietInv'
  <2> DEFINE next == AMP_MUX_O(amp_reg[KEY], play_reg[KEY], ctrl_reg)
             bits == NEXT_PLAY(amp_reg[KEY], play_reg[KEY], ctrl_reg)
             play == [play_reg EXCEPT ![KEY] = bits]
  <2>1. /\ amp_reg' = [amp_reg EXCEPT ![KEY] = next] /\ BusEdge(b, play)
        /\ state' \in {"start", "write"}
    BY <1>6 DEF KeyOn, AfterKey
  <2>2. bits = {} => next < REL_STEP(CtrlInit)
    <3>1. bits = {} => next < REL_STEP(ctrl_reg)
      BY DEF NEXT_PLAY, NOTE_END, PlayBits
    <3>2. REL_STEP(ctrl_reg) = REL_STEP(CtrlInit)
      BY DEF QuietInv, REL_STEP
    <3>3. QED
      BY <3>1, <3>2
  <2>3. play \in [Keys -> SUBSET PlayBits] /\ \A k \in Keys : play[k] # {Held}
    BY <1>2, NextPlayKeeps DEF TypeOK
  <2>4. /\ play[KEY] = bits /\ amp_reg'[KEY] = next
        /\ \A k \in Keys : k # KEY => play[k] = play_reg[k] /\ amp_reg'[k] = amp_reg[k]
    BY <2>1 DEF TypeOK
  <2> HIDE DEF play, bits, next
  <2>5. ASSUME NEW k \in Keys, play_reg'[k] = {}
        PROVE  play[k] = {}
    BY <2>1, <2>3, <2>5, AvlPlayKeeps DEF BusEdge
  <2>6. \A k \in Keys : play[k] = {} => Quiet(k)'
    BY <2>2, <2>4 DEF QuietInv, Quiet
  <2>7. QED
    BY <1>1, <2>1, <2>5, <2>6 DEF QuietInv
<1>7. QED
  BY <1>3, <1>4, <1>5, <1>6 DEF Next, Clock, Halted, Start, CheckKey, Write

(* With the envelope registers at rest, gentle or not, a voice is cleared  *)
(* only when it is idle and below one release step: no strike, release,    *)
(* pedal or reset cuts one off (src/synth_ip.sv, states check_key and      *)
(* key_off; src/datapath.sv, NOTE_END).                                    *)
THEOREM NoCutOff ==
  ASSUME EnvelopeAtRest
  PROVE  Spec => []SilencedWhenQuiet
<1>1. Init => QuietInv
  BY DEF Init, QuietInv, Quiet
<1>2. ScanInv /\ TypeOK /\ QuietInv /\ [Next]_vars => QuietInv'
  BY QuietKeeps
<1>3. ScanInv /\ TypeOK /\ [Next]_vars => ScanInv'
  BY ScanStep
<1>4. TypeOK /\ QuietInv => SilencedWhenQuiet
  BY DEF QuietInv, Quiet, SilencedWhenQuiet, REL_STEP
<1>5. QED
  BY <1>1, <1>2, <1>3, <1>4, ScanStart, TypeCorrect, PTL DEF Spec

(* However presses, releases, stalls and resets fall, a voice's attack     *)
(* ends only in a visit that takes it to its peak and mixes it             *)
(* (src/datapath.sv, ATT_OFF; src/synth_ip.sv, play_reg).                  *)
THEOREM AttackIsHeard == Spec => AttackReachesPeak
<1> DEFINE Heard(k) ==
      Attack \in play_reg[k] /\ Attack \notin play_reg'[k]
        => /\ amp_reg'[k] >= PEAK_ATT(ctrl_reg)
           /\ Len(TONE') = Len(TONE) + 1
           /\ TONE'[Len(TONE')].key = k
<1>1. ASSUME TypeOK, [Next]_vars, NEW k \in Keys
      PROVE  Heard(k)
  <2>1. CASE UNCHANGED play_reg
    BY <2>1
  <2>2. ASSUME NEW b \in BusOps, BusEdge(b, play_reg)
        PROVE  Heard(k)
    BY <1>1, <2>2, AvlPlayKeeps DEF BusEdge, TypeOK
  <2>3. ASSUME NEW b \in BusOps, KeyOn(b), Attack \in play_reg[k], Attack \notin play_reg'[k]
        PROVE  /\ amp_reg'[k] >= PEAK_ATT(ctrl_reg)
               /\ Len(TONE') = Len(TONE) + 1
               /\ TONE'[Len(TONE')].key = k
    <3> DEFINE next == AMP_MUX_O(amp_reg[KEY], play_reg[KEY], ctrl_reg)
               bits == NEXT_PLAY(amp_reg[KEY], play_reg[KEY], ctrl_reg)
               play == [play_reg EXCEPT ![KEY] = bits]
               mixed == Contribution(KEY, table_addr, next, vel_reg[KEY])
    <3>1. /\ amp_reg' = [amp_reg EXCEPT ![KEY] = next] /\ BusEdge(b, play)
          /\ TONE' = Append(TONE, mixed)
      BY <2>3 DEF KeyOn
    <3>2. play \in [Keys -> SUBSET PlayBits]
      BY <1>1, NextPlayKeeps DEF TypeOK
    <3>3. play[KEY] = bits /\ \A j \in Keys : j # KEY => play[j] = play_reg[j]
      BY <1>1 DEF TypeOK
    <3>4. Attack \notin play[k]
      <4> HIDE DEF play
      <4>1. QED
        BY <2>3, <3>1, <3>2, AvlPlayKeeps DEF BusEdge
    <3>5. k = KEY /\ Attack \notin bits
      <4> HIDE DEF play, bits
      <4>1. QED
        BY <2>3, <3>3, <3>4
    <3>6. ATT_OFF(amp_reg[k], play_reg[k], ctrl_reg)
      BY <3>5 DEF NEXT_PLAY, PlayBits
    <3>7. next >= PEAK_ATT(ctrl_reg) /\ amp_reg'[k] = next
      BY <1>1, <2>3, <3>1, <3>5, <3>6 DEF ATT_OFF, ATT_ON, AMP_MUX_O, TypeOK
    <3>8. mixed.key = k
      BY <3>5 DEF Contribution
    <3>9. Len(TONE') = Len(TONE) + 1 /\ TONE'[Len(TONE')] = mixed
      <4> HIDE DEF mixed
      <4>1. TONE \in Seq(ContributionType)
        BY <1>1 DEF TypeOK
      <4>2. QED
        BY <3>1, <4>1
    <3>10. QED
      BY <3>7, <3>8, <3>9
  <2>4. QED
    BY <1>1, <2>1, <2>2, <2>3
       DEF vars, Next, Reset, Clock, Halted, Start, CheckKey, KeyOff, Write
<1>2. TypeOK /\ [Next]_vars => [\A k \in Keys : Heard(k)]_vars
  BY <1>1
<1>3. QED
  BY <1>2, TypeCorrect, PTL DEF Spec, AttackReachesPeak
=============================================================================
