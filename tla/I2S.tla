--------------------------------- MODULE I2S ---------------------------------
(***************************************************************************)
(* The serial transmitter src/I2S.sv and the receiver it feeds.  A step is *)
(* one rising edge of MCLK together with the edges of SCLK and LRCLK that  *)
(* follow from it: both are registers clocked by MCLK, and the rest of the *)
(* module is clocked by them.  No register has a working reset (TOP.sv ties*)
(* RESET to 0), so a run may start with any contents.                      *)
(*                                                                         *)
(* A bit on the wire is the pair of the sample it comes from and its index *)
(* in it.  The receiver is the codec in standard I2S mode, as              *)
(* software/USB_MIDI_AUDIO_SYNTH/include/sgtl5000.cpp sets it up: it reads *)
(* DIN on rising SCLK, and a slot ends one SCLK after LRCLK changes.       *)
(***************************************************************************)
EXTENDS Naturals, Sequences

CONSTANTS
  Width,    \* bits of a sample: 32
  Samples   \* samples the FIFO may offer

ASSUME I2SAssumption == Width \in Nat \ {0, 1}

CounterMod == 8 * Width   \* COUNTER: 2^8 for 32 bits, so 2 * Width SCLK per LRCLK

VARIABLES
  COUNTER, SCLK, LRCLK,   \* registers on MCLK
  FLAG, PHASE_COUNTER,    \* registers on rising SCLK
  DIN,                    \* register on falling SCLK: the wire to the codec
  AUDIO,                  \* the FIFO's output, which changes on rising LRCLK
  lrSeen, slot, received, \* codec: last LRCLK, bits of this slot, last slot
  changes                 \* LRCLK changes the codec has seen, up to SyncCap

i2sVars == <<COUNTER, SCLK, LRCLK, FLAG, PHASE_COUNTER, DIN, AUDIO, lrSeen, slot, received, changes>>

Bits    == [sample : Samples, bit : 0 .. Width - 1]
SyncCap == 4

I2SInit ==
  /\ COUNTER \in 0 .. CounterMod - 1
  /\ SCLK \in {0, 1} /\ LRCLK \in {0, 1} /\ FLAG \in {0, 1}
  /\ PHASE_COUNTER \in 0 .. Width - 1
  /\ AUDIO \in Samples
  /\ DIN = [sample |-> AUDIO, bit |-> 0]
  /\ lrSeen = LRCLK
  /\ slot = << >> /\ received = << >>
  /\ changes = 0

(* The clock registers, and the edges they make.                           *)
ClockDivider ==
  /\ COUNTER' = (COUNTER + 1) % CounterMod
  /\ SCLK'    = (COUNTER \div 2) % 2
  /\ LRCLK'   = COUNTER \div (CounterMod \div 2)

RisingSCLK  == SCLK = 0 /\ SCLK' = 1
FallingSCLK == SCLK = 1 /\ SCLK' = 0
RisingLRCLK == LRCLK = 0 /\ LRCLK' = 1

(* Mutants: a new sample for each channel; a second read, a bit later, for *)
(* as long as the slot has not been noticed.                               *)
ReadEachSlot == IF LRCLK # LRCLK' THEN AUDIO' \in Samples ELSE UNCHANGED AUDIO
ReadTwice ==
  IF RisingLRCLK \/ (RisingSCLK /\ LRCLK = 1 /\ FLAG = 0)
  THEN AUDIO' \in Samples ELSE UNCHANGED AUDIO

(* LRCLK is the FIFO's read clock and its read request is always high: a   *)
(* new sample, or the old one again when the FIFO is empty.                *)
ReadFifo == IF RisingLRCLK THEN AUDIO' \in Samples ELSE UNCHANGED AUDIO

(* Mutant: the bit counter is not aligned to LRCLK.                        *)
CountUnaligned ==
  IF RisingSCLK
  THEN \E lr \in {LRCLK, LRCLK'} :
         /\ FLAG' = lr
         /\ PHASE_COUNTER' = (PHASE_COUNTER + 1) % Width
  ELSE UNCHANGED <<FLAG, PHASE_COUNTER>>

CountBits ==
  IF RisingSCLK
  THEN \E lr \in {LRCLK, LRCLK'} :
         /\ FLAG' = lr
         /\ PHASE_COUNTER' = IF lr # FLAG THEN 0 ELSE (PHASE_COUNTER + 1) % Width
  ELSE UNCHANGED <<FLAG, PHASE_COUNTER>>

SendBit ==
  IF FallingSCLK
  THEN \E word \in {AUDIO, AUDIO'} :
         DIN' = [sample |-> word, bit |-> Width - 1 - PHASE_COUNTER]
  ELSE UNCHANGED DIN

(* The codec shifts a bit in on rising SCLK; the bit it reads when it finds*)
(* LRCLK changed is the last of the slot.  It keeps Width bits at most.    *)
Receive ==
  IF ~RisingSCLK
  THEN UNCHANGED <<lrSeen, slot, received, changes>>
  ELSE LET bits == IF Len(slot) < Width THEN Append(slot, DIN) ELSE slot
       IN  /\ lrSeen' = LRCLK'
           /\ IF LRCLK' # lrSeen
              THEN /\ received' = bits
                   /\ slot' = << >>
                   /\ changes' = IF changes < SyncCap THEN changes + 1 ELSE changes
              ELSE /\ slot' = bits
                   /\ UNCHANGED <<received, changes>>

MCLK ==
  /\ ClockDivider
  /\ ReadFifo
  /\ CountBits
  /\ SendBit
  /\ Receive

I2SSpec == I2SInit /\ [][MCLK]_i2sVars /\ WF_i2sVars(MCLK)

-----------------------------------------------------------------------------
(* Whatever the registers held at power-up, from the fourth slot the codec *)
(* sees on, every slot is a whole sample, most significant bit first, all  *)
(* of it one sample: only the least significant bit, sent as LRCLK rises   *)
(* and the FIFO moves on, may come from the next.                          *)
WholeSample ==
  changes = SyncCap =>
    /\ Len(received) = Width
    /\ \A i \in 1 .. Width : received[i].bit = Width - i
    /\ \A i \in 1 .. Width - 1 : received[i].sample = received[1].sample

(* Both channels play every sample: the slot with LRCLK low repeats the    *)
(* sample of the slot with LRCLK high before it.                           *)
BothChannels ==
  [][lrSeen = 0 /\ lrSeen' = 1 /\ changes = SyncCap
       => received'[1].sample = received[1].sample]_i2sVars

(* A sample the FIFO offers once the codec is in step is played.           *)
OfferedIsPlayed ==
  \A s \in Samples :
    (AUDIO = s /\ changes = SyncCap) ~> (received # << >> /\ received[1].sample = s)
=============================================================================
