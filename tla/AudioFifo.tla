------------------------------- MODULE AudioFifo -------------------------------
(***************************************************************************)
(* The dual-clock FIFO between the engine (write clock CLK) and the I2S    *)
(* transmitter (read clock LRCLK): the vendor's dcfifo as src/FIFO.v       *)
(* configures it - overflow and underflow checking on, show-ahead off - and*)
(* as src/TOP.sv connects it, with the read request tied high.             *)
(*                                                                         *)
(* Each side knows its own pointer exactly and the other side's only after *)
(* a chain of synchronizer stages, so the write side counts words already  *)
(* read as present (unseenReads) and the read side does not yet count      *)
(* words already written (unseenWrites).  Flags err on the safe side.      *)
(***************************************************************************)
EXTENDS Naturals, Sequences

CONSTANT Depth   \* lpm_numwords: 256

ASSUME DepthAssumption == Depth \in Nat \ {0}

VARIABLES
  mem,           \* words written and not yet read, oldest first
  unseenReads,   \* reads the write side has not heard of
  unseenWrites,  \* writes the read side has not heard of
  q              \* the read port's output register

fifoVars == <<mem, unseenReads, unseenWrites, q>>

FifoInit(word) ==
  /\ mem = << >>
  /\ unseenReads = 0
  /\ unseenWrites = 0
  /\ q = word

(* Mutant: the full flag comes one word late.                              *)
FullLate == Len(mem) + unseenReads > Depth

wrfull  == Len(mem) + unseenReads >= Depth
rdempty == Len(mem) <= unseenWrites

(* A write-clock edge with wrreq high.  With overflow checking a write to  *)
(* a full FIFO is ignored: the word is lost.                               *)
WrReq(data) ==
  /\ IF wrfull
     THEN UNCHANGED <<mem, unseenWrites>>
     ELSE /\ mem' = Append(mem, data)
          /\ unseenWrites' = unseenWrites + 1
  /\ UNCHANGED <<unseenReads, q>>

(* Mutants: the newest word is read; the read pointer does not advance.    *)
ReadNewest ==
  /\ IF rdempty
     THEN UNCHANGED <<mem, unseenReads, q>>
     ELSE /\ q' = mem[Len(mem)]
          /\ mem' = SubSeq(mem, 1, Len(mem) - 1)
          /\ unseenReads' = unseenReads + 1
  /\ UNCHANGED unseenWrites

ReadAgain ==
  /\ IF rdempty THEN UNCHANGED q ELSE q' = Head(mem)
  /\ UNCHANGED <<mem, unseenReads, unseenWrites>>

(* A read-clock edge.  With underflow checking a read of an empty FIFO is  *)
(* ignored and q keeps the last word.                                      *)
RdClock ==
  /\ IF rdempty
     THEN UNCHANGED <<mem, unseenReads, q>>
     ELSE /\ q' = Head(mem)
          /\ mem' = Tail(mem)
          /\ unseenReads' = unseenReads + 1
  /\ UNCHANGED unseenWrites

(* The synchronizers deliver a pointer to the other side.                  *)
SyncToWrite ==
  /\ unseenReads > 0
  /\ unseenReads' \in 0 .. unseenReads - 1
  /\ UNCHANGED <<mem, unseenWrites, q>>

SyncToRead ==
  /\ unseenWrites > 0
  /\ unseenWrites' \in 0 .. unseenWrites - 1
  /\ UNCHANGED <<mem, unseenReads, q>>
=============================================================================
