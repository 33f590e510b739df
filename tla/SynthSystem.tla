----------------------------- MODULE SynthSystem -----------------------------
(***************************************************************************)
(* The firmware and the engine on the Avalon bus.  Every step is a clock   *)
(* of the engine or a poll of the firmware; on a clock the processor makes *)
(* its next access or, busy with software, none.  The slave declares one   *)
(* wait state for reads and none for writes                                *)
(* (src/Audio_Synthesizer_Module_hw.tcl): a read holds the address for two *)
(* clocks and takes the data at the end of the second.                     *)
(***************************************************************************)
EXTENDS SynthIP, MidiFirmware

(* The register file of the software is the register file of the slave, and*)
(* SUS_PEDAL of src/synth_ip.sv the low bits of a register that a pedal    *)
(* parameter has: 7 of 20, with the threshold that the controller goes by. *)
ASSUME BusAssumption ==
  /\ Notes = Keys
  /\ RegMod = StepMod
  /\ PedalMin = PedalOn
  /\ RegMod % (2 * PedalOn) = 0
  /\ \A e \in Events : e.type = "pedal" => e.par < 2 * PedalOn

(* The engine is looked at under all that this bus master may write: every *)
(* envelope, and what the controller's velocities, switches, pedal and     *)
(* wheels come to.                                                         *)
ASSUME MasterAssumption ==
  /\ (0 .. 5) \X Steps \subseteq CtrlWrites
  /\ \A e \in Events :
       /\ e.type \in {"note_on", "note_off"} => e.vel \in Velocities
       /\ e.type = "switch" => <<e.reg, e.par % RegMod>> \in CtrlWrites
       /\ e.type = "pedal" => \A v \in {e.par, -1 - e.par} : <<RegSUS, v % RegMod>> \in CtrlWrites
       /\ e.type = "bend" => <<RegBEND, e.val % RegMod>> \in CtrlWrites

VARIABLES
  waited,   \* the read at the head of todo has had its wait state
  readData  \* the velocity the last read returned

busVars == <<waited, readData>>
sysVars == <<vars, fwVars, busVars>>

SysInit ==
  /\ Init
  /\ FwInit
  /\ waited = FALSE
  /\ readData = 0

Access == Head(todo)
Done   == todo' = Tail(todo)

(* Mutant: the control registers are numbered from one.                    *)
BusOffByOne(a) ==
  CASE a.acc = "press" -> [op |-> "key", key |-> a.key, play |-> TRUE, vel |-> a.vel]
    [] a.acc = "back"  -> [op |-> "key", key |-> a.key, play |-> FALSE, vel |-> readData]
    [] a.acc = "read"  -> [op |-> "idle", key |-> a.key]
    [] a.acc = "ctrl"  -> [op |-> "ctrl", write |-> <<a.reg + 1, a.val>>]

(* The operation the head of todo puts on the bus.                         *)
BusOf(a) ==
  CASE a.acc = "press" -> [op |-> "key", key |-> a.key, play |-> TRUE, vel |-> a.vel]
    [] a.acc = "back"  -> [op |-> "key", key |-> a.key, play |-> FALSE, vel |-> readData]
    [] a.acc = "read"  -> [op |-> "idle", key |-> a.key]
    [] a.acc = "ctrl"  -> [op |-> "ctrl", write |-> <<a.reg, a.val>>]

(* The processor is busy elsewhere; the address lines hold anything.       *)
Busy(FIFO_FULL) ==
  /\ ~waited
  /\ \E b \in BusIdle : Clock(b, FIFO_FULL)
  /\ UNCHANGED <<fwVars, busVars>>

WriteAccess(FIFO_FULL) ==
  /\ todo # << >> /\ Access.acc # "read"
  /\ Clock(BusOf(Access), FIFO_FULL)
  /\ Done
  /\ UNCHANGED <<globals, ped_flip, controller, busVars>>

(* The wait state: the address is on the bus, the velocity register of     *)
(* src/datapath.sv loads at the end of the clock.                          *)
ReadWait(FIFO_FULL) ==
  /\ todo # << >> /\ Access.acc = "read" /\ ~waited
  /\ Clock(BusOf(Access), FIFO_FULL)
  /\ waited' = TRUE
  /\ UNCHANGED <<fwVars, readData>>

(* Mutant: the slave declares no wait state.                               *)
ReadAtOnce(FIFO_FULL) ==
  /\ todo # << >> /\ Access.acc = "read"
  /\ Clock(BusOf(Access), FIFO_FULL)
  /\ readData' = AVL_READVEL
  /\ waited' = FALSE
  /\ Done
  /\ UNCHANGED <<globals, ped_flip, controller>>

ReadAccess(FIFO_FULL) ==
  /\ todo # << >> /\ Access.acc = "read" /\ waited
  /\ Clock(BusOf(Access), FIFO_FULL)
  /\ readData' = AVL_READVEL
  /\ waited' = FALSE
  /\ Done
  /\ UNCHANGED <<globals, ped_flip, controller>>

Poll == MIDI_poll /\ UNCHANGED <<vars, busVars>>

SysClock(FIFO_FULL) ==
  Busy(FIFO_FULL) \/ WriteAccess(FIFO_FULL) \/ ReadWait(FIFO_FULL) \/ ReadAccess(FIFO_FULL)

SysNext == (\E FIFO_FULL \in BOOLEAN : SysClock(FIFO_FULL)) \/ Poll

SysSpec == SysInit /\ [][SysNext]_sysVars

(* The clock runs, the FIFO is drained for ever, so the engine is not held *)
(* off for ever, and the processor gets to its next access.                *)
SysFairness ==
  /\ WF_sysVars(SysClock(FALSE))
  /\ WF_sysVars(WriteAccess(FALSE))
  /\ WF_sysVars(ReadWait(FALSE))

FairSysSpec == SysSpec /\ SysFairness

-----------------------------------------------------------------------------
(* The firmware makes no access the engine was not specified for: to the   *)
(* engine, the firmware is one of the bus masters of module SynthIP, and   *)
(* everything proved of the engine holds of the whole system.              *)
EngineSpec == Spec

(* A key that is up on the controller is up in the engine once the firmware*)
(* is done with what the controller sent: no note is left hanging.         *)
KeyUpReleases ==
  todo = << >> => \A k \in Keys : ~keyDown[k] => Held \notin play_reg[k]

(* A release does not change how loud the rest of the note is: the velocity*)
(* written back after the wait state is the one the key was struck with,   *)
(* whatever key the engine visited meanwhile.                              *)
ReleaseKeepsVelocity ==
  [][\A k \in Keys : vel_reg'[k] # vel_reg[k]
       => todo # << >> /\ Access.acc = "press" /\ Access.key = k]_sysVars

(* The pedal is down in the engine when it is down on the controller, once *)
(* the firmware is done with what the controller sent: whichever way the   *)
(* pedal is wired, and however often the controller changed its mind.      *)
PedalFollows == todo = << >> => (SUS(ctrl_reg) <=> pedalDown)

(* A note ends: when its key stays up and the pedal stays up, both of them *)
(* on the controller, its voice is idle in the end, whatever other events  *)
(* the firmware is kept busy with.                                         *)
NotesEnd ==
  \A k \in Keys : <>[](~keyDown[k] /\ ~pedalDown) => <>[](play_reg[k] = {})

(* A released note fades: with its key up, no attack and the pedal         *)
(* released, a voice never gets louder, whatever the knobs do.             *)
ReleaseFades ==
  [][\A k \in Keys :
       play_reg[k] \subseteq {Sounding} /\ ~SUS(ctrl_reg) => amp_reg'[k] <= amp_reg[k]]_sysVars
=============================================================================
