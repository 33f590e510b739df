------------------------------- MODULE AudioPath -------------------------------
(***************************************************************************)
(* The engine and the sample FIFO as src/TOP.sv wires them: TONE and       *)
(* LD_FIFO drive the write port on CLK, wrfull is the engine's FIFO_FULL,  *)
(* and LRCLK of the I2S transmitter is the read clock.  Reset is tied off  *)
(* in src/TOP.sv, so it is not a step here.                                *)
(***************************************************************************)
EXTENDS SynthIP, AudioFifo

pathVars == <<vars, fifoVars>>

Silence == << >>   \* q before the first read: the power-up word is zero

PathInit == Init /\ FifoInit(Silence)

(* One edge of CLK for both the engine and the FIFO's write port.          *)
WrClock(b) ==
  /\ Clock(b, wrfull)
  /\ IF LD_FIFO THEN WrReq(TONE) ELSE UNCHANGED fifoVars

ReadSide ==
  /\ RdClock \/ SyncToWrite \/ SyncToRead
  /\ UNCHANGED vars

PathNext == (\E b \in BusOps : WrClock(b)) \/ ReadSide

PathSpec == PathInit /\ [][PathNext]_pathVars

(* Both clocks run for ever and the synchronizers deliver.                 *)
PathFairness ==
  /\ WF_pathVars(\E b \in BusOps : WrClock(b))
  /\ WF_pathVars(RdClock /\ UNCHANGED vars)
  /\ WF_pathVars(SyncToWrite /\ UNCHANGED vars)
  /\ WF_pathVars(SyncToRead /\ UNCHANGED vars)

FairPathSpec == PathSpec /\ PathFairness

-----------------------------------------------------------------------------
(* The FIFO's counters stay within its capacity, and a side is never       *)
(* behind by more than what the other side has done.                       *)
FifoTypeOK ==
  /\ mem \in Seq(Seq(ContributionType))
  /\ q \in Seq(ContributionType)
  /\ unseenReads \in Nat
  /\ unseenWrites \in 0 .. Len(mem)
  /\ Len(mem) + unseenReads <= Depth

(* The engine looks at the full flag only in state start, up to two clocks *)
(* a key before the write of the sample; no sample is lost all the same.   *)
NothingDropped == LD_FIFO => ~wrfull

(* The engine stalls only between samples: when it waits for room it is at *)
(* key 0 with nothing mixed, so a stall never freezes half a sample.       *)
StallsBetweenSamples == state = "start" /\ wrfull => KEY = 0 /\ TONE = << >>

(* The stream of samples, from the one the reader shows to the one just    *)
(* finished: the ones that follow each other with the same key in both     *)
(* hold that key one unbent phase step apart, so none is lost, repeated or *)
(* out of order anywhere between the phase register and the read port.     *)
Stream == <<q>> \o mem \o (IF state = "write" THEN <<TONE>> ELSE << >>)

AddrIn(sample, k) ==
  {sample[i].addr : i \in {j \in DOMAIN sample : sample[j].key = k}}

OneStepOn(k, addr, addr2) ==
  \E phase \in Phases :
    addr = ADDR(phase) /\ addr2 = ADDR((phase + F[k]) % PhaseMod)

Continues(sample, sample2) ==
  \A k \in Keys :
    \A a \in AddrIn(sample, k), a2 \in AddrIn(sample2, k) : OneStepOn(k, a, a2)

StreamContiguous ==
  \A i \in 1 .. Len(Stream) - 1 : Continues(Stream[i], Stream[i + 1])

(* The bus never turns the bend on, so that every step is the table's.     *)
Unbent(c) == ~BEND_MUX(c)

NoBend == \A w \in CtrlWrites : w[1] = 11 => w[2] % 2 = 0

(* The path from the engine to the reader implements the bounded queue.    *)
Queue == INSTANCE SampleQueue WITH
  Words <- Seq(ContributionType), NoWord <- Silence, buffer <- mem, shown <- q

QueueSpec == Queue!SQSpec

(* A key that is struck is heard: its contribution reaches the read port,  *)
(* even if it is released at once.                                         *)
PressHeard ==
  \A k \in Keys : (Attack \in play_reg[k]) ~> (\E i \in DOMAIN q : q[i].key = k)

(* A key that stays released, without the pedal, ends: its voice falls     *)
(* silent and its amplitude and phase are cleared for the next press.      *)
ReleasedEnds ==
  \A k \in Keys :
    <>[](Held \notin play_reg[k] /\ ~SUS(ctrl_reg))
      => <>[](play_reg[k] = {} /\ amp_reg[k] = 0 /\ phase_reg[k] = 0)
=============================================================================
