----------------------------- MODULE I2CMaster -----------------------------
(***************************************************************************)
(* The way to the codec: sgtl5000.cpp writes and reads registers with the  *)
(* polled transactions of altera_avalon_i2c.c, which put commands into the *)
(* FIFO of the I2C core; the core works them off on a bus on which the     *)
(* codec refuses what it is not ready for and, if there is another master, *)
(* a byte may be lost to it.  The driver writes commands much faster than  *)
(* the core sends them, and learns of a refusal some commands later.       *)
(*                                                                         *)
(* Driver steps are register accesses, core steps are bytes.  A register   *)
(* address is a number, a value its two bytes, an address byte its         *)
(* read/write bit.  The waits for the bus are longer than any transaction: *)
(* they end in a timeout only where they would not end otherwise.          *)
(***************************************************************************)
EXTENDS Integers, SequencesExt

CONSTANTS
  Script,             \* the register accesses main() begins with
  Volumes,            \* what the volume control is turned to
  Depth,              \* I2C_0_FIFO_DEPTH, four
  Retries,            \* attempts; 10000
  OtherMaster         \* whether a byte may be lost to another master

VARIABLES
  pc, call, pos,      \* the driver's next step, what it does, what comes next
  phase, n,           \* transmit or receive, commands written
  status, retry, rbuf,
  en, core, tfr, rw,  \* CTRL.EN, the state machine, the command it works on
  txfifo, rxfifo, nack_det, arblost_det,
  got, rpos, regs,    \* the codec: bytes of a message, bytes read, registers
  intended, failed, unseen, answer

driver == <<pc, call, pos, phase, n, status, retry, rbuf>>
fifos == <<txfifo, rxfifo>>
chip == <<en, core, tfr, rw, fifos, nack_det, arblost_det>>
codec == <<got, rpos, regs>>
ghosts == <<intended, failed, unseen, answer>>
vars == <<driver, chip, codec, ghosts>>

None == [op |-> "none"]
Write(reg, val) == [op |-> "write", reg |-> reg, val |-> val]
Read(reg) == [op |-> "read", reg |-> reg]

ANA_HP_CTRL == 34     \* 0x22
HP_MIN_VOL == 127

\* What the program may ask for.
Accesses ==
  [op : {"write"}, reg : Nat, val : Nat \X Nat] \cup [op : {"read"}, reg : Nat]

ASSUME I2CAssumption ==
  /\ Script \in Seq(Accesses) /\ Volumes \subseteq 0 .. HP_MIN_VOL
  /\ Depth \in Nat \ {0} /\ Retries \in Nat \ {0}

Registers == {ANA_HP_CTRL} \cup {Script[i].reg : i \in DOMAIN Script}

-----------------------------------------------------------------------------
(* Commands of a transaction                                               *)

Cmd(byte, restart, stop) == [byte |-> byte, restart |-> restart, stop |-> stop]

\* I2Creg_wr() sends four bytes, I2Creg_rd() two before it reads two.
txbuffer ==
  IF call.op = "write" THEN <<0, call.reg, call.val[1], call.val[2]>>
  ELSE <<0, call.reg>>

\* master_transmit(); the last byte of a write carries the stop.
Transmit ==
  <<Cmd(0, FALSE, FALSE)>> \o
  [i \in DOMAIN txbuffer |->
     Cmd(txbuffer[i], FALSE, call.op = "write" /\ i = Len(txbuffer))]

\* master_receive() of two bytes after a restart.
Receive == <<Cmd(1, TRUE, FALSE), Cmd(0, FALSE, FALSE), Cmd(0, FALSE, TRUE)>>

Commands == IF phase = "transmit" THEN Transmit ELSE Receive

-----------------------------------------------------------------------------
(* The driver                                                              *)

Begin(access) ==
  /\ pc = "idle"
  /\ pc' = "enable" /\ call' = access /\ retry' = Retries - 1
  /\ answer' = None
  /\ UNCHANGED <<phase, n, status, rbuf, chip, codec, intended, failed, unseen>>

NextOfScript ==
  /\ pos <= Len(Script)
  /\ pos' = pos + 1
  /\ Begin(Script[pos])

\* SGTL5000vol_change(); both channels get the same.
vol_change(vol) ==
  /\ pos > Len(Script)
  /\ Begin(Write(ANA_HP_CTRL, <<HP_MIN_VOL - vol, HP_MIN_VOL - vol>>))
  /\ UNCHANGED pos

\* alt_avalon_i2c_int_clear()
int_clear == nack_det' = FALSE /\ arblost_det' = FALSE

Returns(rc) ==
  /\ pc' = "idle" /\ call' = None
  /\ IF call.op = "write"
     THEN /\ intended' = [intended EXCEPT ![call.reg] = call.val]
          /\ failed' = IF rc = "SUCCESS" THEN failed \ {call.reg} ELSE failed \cup {call.reg}
          /\ unseen' = IF arblost_det THEN unseen \cup {call.reg} ELSE unseen \ {call.reg}
          /\ UNCHANGED answer
     ELSE /\ answer' = IF rc = "SUCCESS" THEN Write(call.reg, rbuf) ELSE None
          /\ UNCHANGED <<intended, failed, unseen>>

Again(rc) == rc \in {"ARB_LOST", "NACK", "BUSY"} /\ retry > 0

\* Mutant: the attempts are not counted.
UncountedRetry == retry

NextRetry == retry - 1

\* master_tx() or master_tx_rx() repeats or returns.
RepeatOrReturn(rc) ==
  IF Again(rc)
  THEN pc' = "enable" /\ retry' = NextRetry /\ UNCHANGED <<call, ghosts>>
  ELSE Returns(rc) /\ UNCHANGED retry

\* A transaction begins: enable, clear the ISR.  The core starts on the edge of
\* the enable bit; one that is still enabled is busy.
Enable ==
  /\ pc = "enable"
  /\ phase' = "transmit" /\ n' = 0 /\ rbuf' = <<>>
  /\ IF en
     THEN /\ status' = "BUSY" /\ RepeatOrReturn("BUSY")
          /\ UNCHANGED <<core, nack_det, arblost_det>>
     ELSE /\ core' = IF core = "IDLE" THEN "PRE_START" ELSE core
          /\ int_clear
          /\ status' = "SUCCESS" /\ pc' = "cmd"
          /\ UNCHANGED <<call, retry, ghosts>>
  /\ en' = TRUE
  /\ UNCHANGED <<pos, tfr, rw, fifos, codec>>

flush == nack_det \/ arblost_det

\* cmd_write(); a FIFO that is being flushed takes nothing.
cmd_write ==
  /\ pc = "cmd"
  /\ en /\ Len(txfifo) < Depth
  /\ txfifo' = IF flush THEN <<>> ELSE Append(txfifo, Commands[n + 1])
  /\ pc' = "check" /\ n' = n + 1
  /\ UNCHANGED <<call, pos, phase, status, retry, rbuf, en, core, tfr, rw, rxfifo,
                 nack_det, arblost_det, codec, ghosts>>

ISR == IF arblost_det THEN "ARB_LOST" ELSE IF nack_det THEN "NACK" ELSE "SUCCESS"

\* After each command; in between a receive takes what has come.
Check ==
  /\ pc = "check"
  /\ status' = ISR
  /\ LET last == n = Len(Commands)
         onward == ISR = "SUCCESS" /\ phase = "transmit" /\ call.op = "read" /\ last
         takes == ISR = "SUCCESS" /\ phase = "receive" /\ n \in 2 .. Len(Commands) - 1
     IN /\ pc' = IF ISR # "SUCCESS" THEN "end"
                 ELSE IF ~last \/ onward THEN "cmd"
                 ELSE IF phase = "receive" THEN "read" ELSE "end"
        /\ phase' = IF onward THEN "receive" ELSE phase
        /\ n' = IF onward THEN 0 ELSE n
        /\ rbuf' = IF takes THEN rbuf \o rxfifo ELSE rbuf
        /\ rxfifo' = IF takes THEN <<>> ELSE rxfifo
  /\ UNCHANGED <<call, pos, retry, en, core, tfr, rw, txfifo, nack_det, arblost_det,
                 codec, ghosts>>

Busy == core \notin {"IDLE", "PRE_IDLE"}

\* rx_read() of the bytes that are still to come.
rx_read ==
  /\ pc = "read"
  /\ \/ /\ Len(rbuf) = 2
        /\ pc' = "end" /\ UNCHANGED <<status, rbuf, rxfifo>>
     \/ /\ Len(rbuf) < 2 /\ rxfifo # <<>>
        /\ rbuf' = Append(rbuf, Head(rxfifo)) /\ rxfifo' = Tail(rxfifo)
        /\ UNCHANGED <<pc, status>>
     \/ /\ Len(rbuf) < 2 /\ rxfifo = <<>> /\ ~Busy
        /\ pc' = "end" /\ status' = "TIMEOUT" /\ UNCHANGED <<rbuf, rxfifo>>
  /\ UNCHANGED <<call, pos, phase, n, retry, en, core, tfr, rw, txfifo, nack_det,
                 arblost_det, codec, ghosts>>

\* The core waits for a command that does not come.
Stuck == core \in {"PRE_START", "BUS_HOLD"} /\ (txfifo = <<>> \/ flush)

\* Mutant: the refusals are those seen while commands were written.
EndStatusAsSeen == IF Stuck THEN "TIMEOUT" ELSE status

\* check_nack() after the wait.
EndStatus ==
  IF nack_det THEN "NACK" ELSE IF Stuck THEN "TIMEOUT" ELSE status

\* Mutant: the core is disabled without a wait for the end of the transaction.
WaitedNot == TRUE

Waited == ~Busy \/ Stuck

\* The end of the transaction: wait until the core is at rest, disable it.
End ==
  /\ pc = "end"
  /\ Waited
  /\ en' = FALSE /\ core' = IF core = "PRE_IDLE" THEN "IDLE" ELSE core
  /\ status' = EndStatus
  /\ RepeatOrReturn(EndStatus)
  /\ UNCHANGED <<pos, phase, n, rbuf, tfr, rw, fifos, nack_det, arblost_det, codec>>

-----------------------------------------------------------------------------
(* The core, mstfsm.v, and the codec                                       *)

Abort(flag) ==
  /\ txfifo' = <<>> /\ rxfifo' = <<>>
  /\ nack_det' = (nack_det \/ flag = "nack")
  /\ arblost_det' = (arblost_det \/ flag = "arblost")

\* PRE_START and, between bytes, BUS_HOLD: the next command is popped.
Pop ==
  /\ core \in {"PRE_START", "BUS_HOLD"} /\ ~flush /\ txfifo # <<>>
  /\ tfr' = Head(txfifo) /\ txfifo' = Tail(txfifo)
  /\ core' = IF core = "PRE_START" \/ Head(txfifo).restart THEN "GEN_7BIT_ADDR"
             ELSE IF rw = 0 THEN "TX_BYTE" ELSE "RX_BYTE"
  /\ got' = IF core = "PRE_START" THEN <<>> ELSE got
  /\ UNCHANGED <<driver, en, rw, rxfifo, nack_det, arblost_det, rpos, regs, ghosts>>

\* A refusal stops the transaction and flushes the FIFOs.
Refused ==
  /\ core \in {"GEN_7BIT_ADDR", "TX_BYTE"}
  /\ core' = "GEN_STOP" /\ Abort("nack")
  /\ UNCHANGED <<driver, en, tfr, rw, codec, ghosts>>

Addressed ==
  /\ core = "GEN_7BIT_ADDR"
  /\ core' = "BUS_HOLD" /\ rw' = tfr.byte /\ rpos' = 0
  /\ UNCHANGED <<driver, en, tfr, fifos, nack_det, arblost_det, got, regs, ghosts>>

\* The codec takes over a value with its second byte.
Sent ==
  /\ core = "TX_BYTE"
  /\ core' = IF tfr.stop THEN "GEN_STOP" ELSE "BUS_HOLD"
  /\ got' = Append(got, tfr.byte)
  /\ regs' = IF Len(got') = 4 THEN [regs EXCEPT ![got'[2]] = <<got'[3], got'[4]>>] ELSE regs
  /\ UNCHANGED <<driver, en, tfr, rw, fifos, nack_det, arblost_det, rpos, ghosts>>

Received ==
  /\ core = "RX_BYTE"
  /\ core' = IF tfr.stop THEN "GEN_STOP" ELSE "BUS_HOLD"
  /\ rpos' = rpos + 1 /\ rxfifo' = Append(rxfifo, regs[got[2]][rpos'])
  /\ UNCHANGED <<driver, en, tfr, rw, txfifo, nack_det, arblost_det, got, regs, ghosts>>

Stopped ==
  /\ core = "GEN_STOP"
  /\ core' = IF txfifo = <<>> THEN "PRE_IDLE" ELSE "PRE_START"
  /\ UNCHANGED <<driver, en, tfr, rw, fifos, nack_det, arblost_det, codec, ghosts>>

\* The core lets go of the bus at once.
ArbLost ==
  /\ OtherMaster /\ core \in {"GEN_7BIT_ADDR", "TX_BYTE", "RX_BYTE"}
  /\ core' = "PRE_IDLE" /\ Abort("arblost")
  /\ UNCHANGED <<driver, en, tfr, rw, codec, ghosts>>

-----------------------------------------------------------------------------
Init ==
  /\ pc = "idle" /\ call = None /\ pos = 1
  /\ phase = "transmit" /\ n = 0 /\ status = "SUCCESS" /\ retry = 0 /\ rbuf = <<>>
  /\ en = FALSE /\ core = "IDLE" /\ tfr = Cmd(0, FALSE, FALSE) /\ rw = 0
  /\ txfifo = <<>> /\ rxfifo = <<>> /\ nack_det = FALSE /\ arblost_det = FALSE
  /\ got = <<>> /\ rpos = 0
  /\ regs = [r \in Registers |-> <<0, 0>>]
  /\ intended = regs /\ failed = {} /\ unseen = {} /\ answer = None

Caller == NextOfScript \/ \E vol \in Volumes : vol_change(vol)
Driver == Enable \/ cmd_write \/ Check \/ rx_read \/ End
Core == Pop \/ Refused \/ Addressed \/ Sent \/ Received \/ Stopped \/ ArbLost

Next == Caller \/ Driver \/ Core

\* Processor and bus clock run; the codec may refuse for ever.
Fairness == WF_vars(NextOfScript) /\ WF_vars(Driver) /\ WF_vars(Core)

Spec == Init /\ [][Next]_vars /\ Fairness

-----------------------------------------------------------------------------
(***************************************************************************)
(* However many attempts it took, a register whose last write was not      *)
(* reported as an error holds the value written, unless another master     *)
(* took the bus after the driver's last look; and what a successful read   *)
(* returns is what the register holds (altera_avalon_i2c.c:511, 572).      *)
(***************************************************************************)
CodecKnown ==
  pc = "idle" =>
    /\ \A r \in Registers \ (failed \cup unseen) : regs[r] = intended[r]
    /\ answer # None => answer.val = regs[answer.reg]

(***************************************************************************)
(* Every attempt begins with the core at rest and nothing of an earlier    *)
(* one in its FIFOs: neither does a stale command go out with the next     *)
(* message nor is a stale byte read (altera_avalon_i2c.c:666, 849).        *)
(***************************************************************************)
NothingLeftOver ==
  pc \in {"idle", "enable"} =>
    ~en /\ core = "IDLE" /\ txfifo = <<>> /\ rxfifo = <<>>

(***************************************************************************)
(* main() gets past the codec, also when there is none that answers: all   *)
(* of the script is over in the end (main.cpp:170-174).                    *)
(***************************************************************************)
ScriptEnds == <>(pos > Len(Script) /\ pc = "idle")

=============================================================================
