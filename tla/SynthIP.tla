------------------------------- MODULE SynthIP -------------------------------
(***************************************************************************)
(* The synthesizer engine: src/synth_ip.sv with the registers of           *)
(* src/datapath.sv.  A step is one rising edge of CLK: the state machine   *)
(* visits the keys one after another and mixes the sounding ones into      *)
(* TONE, while on the same edge the Avalon bus may write a key, write a    *)
(* control register, or do neither.  One action per state of the machine,  *)
(* each with the bus operation of its clock as a parameter; the FIFO's     *)
(* full flag is an input.                                                  *)
(*                                                                         *)
(* TONE is the sequence of the contributions it is the sum of.             *)
(***************************************************************************)
EXTENDS DataPath, Sequences

CONSTANTS
  NumKeys,     \* keys the engine scans: 128
  F,           \* phase step of each key, the table of src/f_table.sv
  Velocities,  \* velocities the bus may write: 0..127
  CtrlWrites,  \* <<register, value>> pairs the bus may write
  CtrlInit     \* contents of the control registers when the run starts

Keys  == 0 .. NumKeys - 1
Ctrls == 0 .. 15

ASSUME SynthAssumption ==
  /\ NumKeys \in Nat \ {0}
  /\ F \in [Keys -> Nat]
  /\ Velocities \subseteq Nat
  /\ 0 \in Velocities
  /\ CtrlWrites \subseteq Ctrls \X Steps
  /\ CtrlInit \in [Ctrls -> Steps]

VARIABLES
  state,        \* the state machine
  KEY,          \* the key being visited
  play_reg,     \* play bits of each key
  ctrl_reg,     \* the control registers
  vel_reg,      \* velocity of each key
  amp_reg,      \* amplitude of each key
  phase_reg,    \* phase of each key
  table_addr,   \* the entry whose sample the wavetables' output registers hold
  TONE,         \* contributions mixed so far into the current sample
  AVL_READVEL   \* velocity offered to a bus read

voices == <<play_reg, amp_reg, phase_reg>>
vars == <<state, KEY, play_reg, ctrl_reg, vel_reg, amp_reg, phase_reg,
          table_addr, TONE, AVL_READVEL>>

States == {"halted", "start", "check_key", "key_on", "key_off", "write"}

-----------------------------------------------------------------------------
(* The bus operation of a clock.  AVL_ADDR is driven whether or not there  *)
(* is a write, and its low bits select the velocity that is read.          *)
BusIdle     == [op : {"idle"}, key : Keys]
KeyWrite    == [op : {"key"}, key : Keys, play : BOOLEAN, vel : Velocities]
CtrlWrite   == [op : {"ctrl"}, write : CtrlWrites]
BusOps      == BusIdle \cup KeyWrite \cup CtrlWrite

AVL_KEY(b) == IF b.op = "ctrl" THEN b.write[1] % NumKeys ELSE b.key

(* Mutants: a release clears all play bits; a release clears the attack.   *)
ReleaseClearsAll(play, b) ==
  IF b.op # "key" THEN play
  ELSE [play EXCEPT ![b.key] = IF b.play THEN @ \cup {Held, Attack} ELSE {}]

ReleaseEndsAttack(play, b) ==
  IF b.op # "key" THEN play
  ELSE [play EXCEPT ![b.key] = IF b.play THEN @ \cup {Held, Attack} ELSE @ \ {Held, Attack}]

(* A key write sets bit 0 to the play bit of the data and, for a press,    *)
(* bit 1 as well; it comes after the engine's own store in the clocked     *)
(* block, so on the same key and clock its bits win over NEXT_PLAY's.      *)
AvlPlay(play, b) ==
  IF b.op # "key" THEN play
  ELSE [play EXCEPT ![b.key] = IF b.play THEN @ \cup {Held, Attack} ELSE @ \ {Held}]

(* Everything the bus side of the clocked blocks does on an edge; play is  *)
(* what the engine side leaves in play_reg.                                *)
BusEdge(b, play) ==
  /\ play_reg' = AvlPlay(play, b)
  /\ vel_reg'  = IF b.op = "key" THEN [vel_reg EXCEPT ![b.key] = b.vel] ELSE vel_reg
  /\ ctrl_reg' = IF b.op = "ctrl" THEN [ctrl_reg EXCEPT ![b.write[1]] = b.write[2]]
                                  ELSE ctrl_reg
  /\ AVL_READVEL' = vel_reg[AVL_KEY(b)]

(* The wavetables register their output on every edge.                     *)
TableEdge == table_addr' = ADDR(phase_reg[KEY])

NEXT_KEY  == (KEY + 1) % NumKeys

(* Mutants: the incremented 7-bit key is compared with the number of keys; *)
(* the next key is visited at once, before the wavetables load its sample. *)
CompareAfterCount == IF NEXT_KEY = NumKeys THEN "write" ELSE "start"
VisitAtOnce       == IF KEY = NumKeys - 1 THEN "write" ELSE "key_on"

AfterKey  == IF KEY = NumKeys - 1 THEN "write" ELSE "start"

-----------------------------------------------------------------------------
(* RUN is tied to 1 in src/TOP.sv, so halted lasts one clock.              *)
Halted(b) ==
  /\ state = "halted"
  /\ state' = "start"
  /\ BusEdge(b, play_reg)
  /\ TableEdge
  /\ UNCHANGED <<KEY, amp_reg, phase_reg, TONE>>

(* Mutant: the full flag is not looked at.                                 *)
StartAlways(b, FIFO_FULL) ==
  /\ state = "start"
  /\ state' = "check_key"
  /\ BusEdge(b, play_reg)
  /\ TableEdge
  /\ UNCHANGED <<KEY, amp_reg, phase_reg, TONE>>

(* The machine waits here, whatever KEY is, while the FIFO is full.        *)
Start(b, FIFO_FULL) ==
  /\ state = "start"
  /\ state' = IF FIFO_FULL THEN "start" ELSE "check_key"
  /\ BusEdge(b, play_reg)
  /\ TableEdge
  /\ UNCHANGED <<KEY, amp_reg, phase_reg, TONE>>

(* Mutant: a key is visited only while it is held.                         *)
CheckHeld(b) ==
  /\ state = "check_key"
  /\ state' = IF Held \in play_reg[KEY] THEN "key_on" ELSE "key_off"
  /\ BusEdge(b, play_reg)
  /\ TableEdge
  /\ UNCHANGED <<KEY, amp_reg, phase_reg, TONE>>

CheckKey(b) ==
  /\ state = "check_key"
  /\ state' = IF play_reg[KEY] # {} THEN "key_on" ELSE "key_off"
  /\ BusEdge(b, play_reg)
  /\ TableEdge
  /\ UNCHANGED <<KEY, amp_reg, phase_reg, TONE>>

(* Amplitude, phase, play bits, TONE and KEY are all loaded on one edge,   *)
(* from the values they had before it.                                     *)
KeyOn(b) ==
  /\ state = "key_on"
  /\ LET amp  == amp_reg[KEY]
         play == play_reg[KEY]
         next == AMP_MUX_O(amp, play, ctrl_reg)
     IN  /\ amp_reg' = [amp_reg EXCEPT ![KEY] = next]
         /\ TONE' = Append(TONE, Contribution(KEY, table_addr, next, vel_reg[KEY]))
         /\ BusEdge(b, [play_reg EXCEPT ![KEY] = NEXT_PLAY(amp, play, ctrl_reg)])
  /\ phase_reg' = [phase_reg EXCEPT ![KEY] = PHASE_INC(@, F[KEY], ctrl_reg)]
  /\ state' = AfterKey
  /\ KEY' = NEXT_KEY
  /\ TableEdge

(* Mutant: an idle key keeps its phase.                                    *)
KeyOffKeepsPhase(b) ==
  /\ state = "key_off"
  /\ amp_reg' = [amp_reg EXCEPT ![KEY] = 0]
  /\ state' = AfterKey
  /\ KEY' = NEXT_KEY
  /\ BusEdge(b, play_reg)
  /\ TableEdge
  /\ UNCHANGED <<phase_reg, TONE>>

KeyOff(b) ==
  /\ state = "key_off"
  /\ amp_reg' = [amp_reg EXCEPT ![KEY] = 0]
  /\ phase_reg' = [phase_reg EXCEPT ![KEY] = 0]
  /\ state' = AfterKey
  /\ KEY' = NEXT_KEY
  /\ BusEdge(b, play_reg)
  /\ TableEdge
  /\ UNCHANGED TONE

(* LD_FIFO is high in this state: the FIFO takes TONE on this edge, and    *)
(* TONE is cleared.  The full flag is not looked at.                       *)
Write(b) ==
  /\ state = "write"
  /\ state' = "start"
  /\ TONE' = << >>
  /\ BusEdge(b, play_reg)
  /\ TableEdge
  /\ UNCHANGED <<KEY, amp_reg, phase_reg>>

LD_FIFO == state = "write"

(* An edge with RESET high restarts the scan.  The key, amplitude, phase,  *)
(* velocity and control registers have no reset and the bus is ignored.    *)
Reset ==
  /\ state' = "halted"
  /\ KEY' = 0
  /\ TONE' = << >>
  /\ AVL_READVEL' = 0
  /\ TableEdge
  /\ UNCHANGED <<play_reg, ctrl_reg, vel_reg, amp_reg, phase_reg>>

-----------------------------------------------------------------------------
(* Registers power up cleared; the control registers hold CtrlInit, which  *)
(* is all zero at power-up and what the firmware wrote after a reset.      *)
Init ==
  /\ state = "halted"
  /\ KEY = 0
  /\ play_reg = [k \in Keys |-> {}]
  /\ ctrl_reg = CtrlInit
  /\ vel_reg = [k \in Keys |-> 0]
  /\ amp_reg = [k \in Keys |-> 0]
  /\ phase_reg = [k \in Keys |-> 0]
  /\ table_addr = 0
  /\ TONE = << >>
  /\ AVL_READVEL = 0

(* One clock of the engine, with bus operation b and the full flag.        *)
Clock(b, FIFO_FULL) ==
  \/ Halted(b)
  \/ Start(b, FIFO_FULL)
  \/ CheckKey(b)
  \/ KeyOn(b)
  \/ KeyOff(b)
  \/ Write(b)

Next ==
  \/ \E b \in BusOps, FIFO_FULL \in BOOLEAN : Clock(b, FIFO_FULL)
  \/ Reset

Spec == Init /\ [][Next]_vars

-----------------------------------------------------------------------------
(* Every register keeps its type and width: the amplitude and phase adders *)
(* wrap, KEY wraps, and TONE only ever holds contributions of keys.        *)
ContributionType == [key : Keys, addr : Nat, amp : Amps, vel : Velocities]

TypeOK ==
  /\ state \in States
  /\ KEY \in Keys
  /\ play_reg \in [Keys -> SUBSET PlayBits]
  /\ ctrl_reg \in [Ctrls -> Steps]
  /\ vel_reg \in [Keys -> Velocities]
  /\ amp_reg \in [Keys -> Amps]
  /\ phase_reg \in [Keys -> Phases]
  /\ table_addr \in Nat
  /\ TONE \in Seq(ContributionType)
  /\ AVL_READVEL \in Velocities

(* The keys whose visit for the current sample is over, and the keys that  *)
(* have been mixed into it.                                                *)
Scanned == IF state = "write" THEN Keys ELSE 0 .. KEY - 1
Mixed   == {TONE[i].key : i \in DOMAIN TONE}

(* No key is mixed twice into one sample, and none before its turn: the    *)
(* contributions are in strictly ascending key order, all of scanned keys, *)
(* however often the machine stalls on the FIFO or is reset mid-scan.      *)
MixedInOrder ==
  /\ \A i, j \in DOMAIN TONE : i < j => TONE[i].key < TONE[j].key
  /\ Mixed \subseteq Scanned

(* A sample is complete: a scanned key that is sounding is in it with the  *)
(* amplitude its register now holds, and a scanned key that is not in it   *)
(* has been silenced, so a press finds it at amplitude 0 and phase 0.      *)
MixedComplete ==
  \A k \in Scanned :
    IF k \in Mixed
    THEN \E i \in DOMAIN TONE : TONE[i].key = k /\ TONE[i].amp = amp_reg[k]
    ELSE Sounding \notin play_reg[k] /\ amp_reg[k] = 0 /\ phase_reg[k] = 0

(* When a key is mixed, the wavetables' output registers hold the sample   *)
(* at that key's own phase, not at the phase of the key visited before.    *)
SampleIsOwn == state = "key_on" => table_addr = ADDR(phase_reg[KEY])

(* What check_key decided still holds a clock later, whatever the bus      *)
(* wrote meanwhile: key_on never visits an idle key and key_off never      *)
(* silences a sounding one.  A held key is never left with only its Held   *)
(* bit, which would make a voice with neither attack nor sound.            *)
DecisionHolds ==
  /\ state = "key_on" => play_reg[KEY] # {}
  /\ state = "key_off" => Sounding \notin play_reg[KEY]
  /\ \A k \in Keys : play_reg[k] # {Held}

(* An attack, once struck, is not lost to a release, to a store of the     *)
(* engine on the same clock, to a reset or to a write of another register: *)
(* it ends only in a visit of that key that reaches the peak and is mixed. *)
AttackReachesPeak ==
  [][\A k \in Keys :
       Attack \in play_reg[k] /\ Attack \notin play_reg'[k]
         => /\ amp_reg'[k] >= PEAK_ATT(ctrl_reg)
            /\ Len(TONE') = Len(TONE) + 1
            /\ TONE'[Len(TONE')].key = k]_vars

(* The bus leaves the six envelope registers alone.                        *)
EnvelopeAtRest == \A w \in CtrlWrites : w[1] \notin 0 .. 5

(* Settings whose subtractions fit what they are subtracted from: a decay  *)
(* step from above the sustain level, a release step from the peak, and a  *)
(* sustain step wherever a release step fits.                              *)
Gentle(c) ==
  /\ DEC_STEP(c) <= PEAK_SUS(c) + 1
  /\ REL_STEP(c) <= PEAK_ATT(c)
  /\ SUS_STEP(c) <= REL_STEP(c)

(* With the envelope registers at rest, a voice is never cut off: it is    *)
(* silenced only after its amplitude has fallen below one release step.    *)
SilencedWhenQuiet ==
  state = "key_off" => amp_reg[KEY] = 0 \/ amp_reg[KEY] < REL_STEP(ctrl_reg)

(* With the envelope registers at rest, a voice past its attack never gets *)
(* louder: the subtractions of decay, sustain and release never wrap.      *)
NeverLouder ==
  [][\A k \in Keys : Attack \notin play_reg[k] => amp_reg'[k] <= amp_reg[k]]_vars

=============================================================================
