---------------------------- MODULE UsbTransfer ----------------------------
(***************************************************************************)
(* The requests of Usb.cpp packet by packet: InTransfer() as the poll of   *)
(* the MIDI endpoint and as the data stage of a control request, ctrlReq() *)
(* with its stages, and under both dispatchPkt(), which repeats a packet.  *)
(* A step is one transaction on the bus with what the processor does about *)
(* its result.  Any packet may be lost, garbled or left unacknowledged.    *)
(*                                                                         *)
(* Data are numbered packets.  A descriptor has Total packets, the last of *)
(* them short, and is read ChunkPackets at a time.                         *)
(***************************************************************************)
EXTENDS Naturals, SequencesExt

CONSTANTS
  MaxEvents,          \* how many events the device sends
  Total, ChunkPackets,
  ControlNaks,        \* nak_limit of endpoint 0; 32767
  RetryLimit          \* USB_RETRY_LIMIT, three

ASSUME TransferAssumption ==
  /\ Total \in Nat \ {0} /\ ChunkPackets \in Nat \ {0}
  /\ ControlNaks \in Nat \ {0} /\ RetryLimit \in Nat \ {0}

EventNaks == 1        \* nak_limit of USB_NAK_NOWAIT

VARIABLES
  call,               \* "idle", "poll", "get" or "set"
  stage,              \* of a control request
  rcode,              \* what the last call returned
  naks, tries,        \* nak_count and retry_count of dispatchPkt()
  rcvTog,             \* the toggle the chip expects, RCVTOGRD
  bmRcvToggle,        \* the MIDI endpoint's toggle between two polls
  received,           \* events handed to the main loop
  chunk, parsed,      \* packets read and packets handed to the parser
  sent,               \* events the device has queued
  inNext, inTog,      \* the packet the device offers and its toggle
  ctlNext, ctlTog     \* the same of its control endpoint

host == <<call, stage, rcode, naks, tries, rcvTog, bmRcvToggle, received, chunk,
          parsed>>
control == <<ctlNext, ctlTog>>
vars == <<host, sent, inNext, inTog, control>>

Flip(toggle) == 1 - toggle

-----------------------------------------------------------------------------
(* The bus.  "ack lost" is a packet that arrived and whose acknowledgement *)
(* did not.                                                                *)

Wire == {"ok", "ack lost", "lost", "garbled", "nak"}

Arrives(w) == w \in {"ok", "ack lost"}

\* HRSL after an IN transaction in which the device sends toggle t.
InResult(w, t) ==
  CASE w = "lost" -> "TIMEOUT"
    [] w = "nak" -> "NAK"
    [] w = "garbled" -> "CRCERR"
    [] OTHER -> IF t = rcvTog THEN "OK" ELSE "TOGERR"

\* HRSL after a SETUP or OUT transaction.
OutResult(w) ==
  CASE w \in {"lost", "ack lost"} -> "TIMEOUT"
    [] w = "nak" -> "NAK"
    [] w = "garbled" -> "CRCERR"
    [] OTHER -> "OK"

\* The chip acknowledges every intact packet and turns its toggle with it, also
\* when it reports a toggle error.
ChipToggle(rc) == IF rc \in {"OK", "TOGERR"} THEN Flip(rcvTog) ELSE rcvTog

\* Mutant: InTransfer() takes over the toggle the chip reports.
AfterTogerrAsRead == ChipToggle("TOGERR")

\* InTransfer() after a toggle error: "yes, we flip it wrong here so that next
\* time it is actually correct".
AfterTogerr == Flip(ChipToggle("TOGERR"))

-----------------------------------------------------------------------------
(* dispatchPkt()                                                           *)

Again(rc, limit) ==
  \/ rc = "NAK" /\ naks + 1 # limit
  \/ rc = "TIMEOUT" /\ tries + 1 # RetryLimit

\* The packet is launched again; the five seconds may be up at any time.
Repeat(rc) ==
  /\ naks' = IF rc = "NAK" THEN naks + 1 ELSE naks
  /\ tries' = IF rc = "TIMEOUT" THEN tries + 1 ELSE tries
  /\ UNCHANGED <<call, stage, rcode>>

\* dispatchPkt() returned something; the next one counts from zero.
Counted == naks' = 0 /\ tries' = 0

\* The call returns rc.
Return(rc) == call' = "idle" /\ stage' = "none" /\ rcode' = rc /\ Counted

-----------------------------------------------------------------------------
(* The poll: RecvData() and InTransfer() of one packet                     *)

Press ==
  /\ sent < MaxEvents
  /\ sent' = sent + 1
  /\ UNCHANGED <<host, inNext, inTog, control>>

\* Mutant: the chip keeps the toggle of the transfer before.
RecvDataAsIs ==
  /\ call = "idle" /\ call' = "poll"
  /\ UNCHANGED <<stage, rcode, naks, tries, rcvTog, bmRcvToggle, received, chunk, parsed,
                 sent, inNext, inTog, control>>

RecvData ==
  /\ call = "idle"
  /\ call' = "poll" /\ rcvTog' = bmRcvToggle
  /\ UNCHANGED <<stage, rcode, naks, tries, bmRcvToggle, received, chunk, parsed,
                 sent, inNext, inTog, control>>

\* The device goes on when it sees the acknowledgement.
EventAcked(w) ==
  /\ inNext' = IF w = "ok" THEN inNext + 1 ELSE inNext
  /\ inTog' = IF w = "ok" THEN Flip(inTog) ELSE inTog

PollPacket(w) ==
  /\ call = "poll"
  /\ inNext > sent => w \in {"nak", "lost"}
  /\ EventAcked(w)
  /\ LET rc == InResult(w, inTog)
     IN \/ /\ Again(rc, EventNaks)
           /\ Repeat(rc)
           /\ UNCHANGED <<rcvTog, bmRcvToggle, received>>
        \/ /\ rc = "TOGERR"
           /\ rcvTog' = AfterTogerr /\ bmRcvToggle' = AfterTogerr
           /\ Counted
           /\ UNCHANGED <<call, stage, rcode, received>>
        \/ /\ rc = "OK"
           /\ received' = Append(received, inNext)
           /\ rcvTog' = ChipToggle(rc) /\ bmRcvToggle' = ChipToggle(rc)
           /\ Return(rc)
        \/ /\ rc \notin {"OK", "TOGERR"}
           /\ Return(rc)
           /\ UNCHANGED <<rcvTog, bmRcvToggle, received>>
  /\ UNCHANGED <<chunk, parsed, sent, control>>

-----------------------------------------------------------------------------
(* ctrlReq(): "get" reads a descriptor, "set" has no data stage            *)

ctrlReq(request) ==
  /\ call = "idle"
  /\ call' = request /\ stage' = "setup"
  /\ chunk' = <<>> /\ parsed' = <<>>
  /\ UNCHANGED <<rcode, naks, tries, rcvTog, bmRcvToggle, received, sent, inNext,
                 inTog, ctlNext, ctlTog>>

\* Mutant: the data stage begins with the toggle of the last transfer.
DataToggleAsIs == rcvTog

\* Endpoint 0 begins its data stage with DATA1.
DataToggle == 1

\* A device may not answer SETUP with NAK, and begins anew with every SETUP.
Setup(w) ==
  /\ stage = "setup" /\ w # "nak"
  /\ ctlNext' = IF Arrives(w) THEN 1 ELSE ctlNext
  /\ ctlTog' = IF Arrives(w) THEN 1 ELSE ctlTog
  /\ LET rc == OutResult(w)
     IN \/ /\ Again(rc, ControlNaks)
           /\ Repeat(rc) /\ rcvTog' = rcvTog
        \/ /\ rc = "OK"
           /\ stage' = IF call = "get" THEN "data" ELSE "status"
           /\ rcvTog' = IF call = "get" THEN DataToggle ELSE rcvTog
           /\ Counted /\ UNCHANGED <<call, rcode>>
        \/ /\ rc # "OK"
           /\ Return(rc) /\ rcvTog' = rcvTog
  /\ UNCHANGED <<bmRcvToggle, received, chunk, parsed, sent, inNext, inTog>>

\* InTransfer() is done at a short packet or when the buffer is full, and its
\* packets go to the parser; the request goes on while buffers are full.
ChunkRead(packet) ==
  LET read == Append(chunk, packet)
      full == Len(read) = ChunkPackets
      short == packet = Total
  IN /\ chunk' = IF full \/ short THEN <<>> ELSE read
     /\ parsed' = IF full \/ short THEN parsed \o read ELSE parsed
     /\ stage' = IF short THEN "status" ELSE "data"

DataAcked(w) ==
  /\ ctlNext' = IF w = "ok" THEN ctlNext + 1 ELSE ctlNext
  /\ ctlTog' = IF w = "ok" THEN Flip(ctlTog) ELSE ctlTog

Data(w) ==
  /\ stage = "data"
  /\ ctlNext > Total => w \in {"nak", "lost"}
  /\ DataAcked(w)
  /\ LET rc == InResult(w, ctlTog)
     IN \/ /\ Again(rc, ControlNaks)
           /\ Repeat(rc)
           /\ UNCHANGED <<rcvTog, chunk, parsed>>
        \/ /\ rc = "TOGERR"
           /\ rcvTog' = AfterTogerr
           /\ Counted
           /\ UNCHANGED <<call, stage, rcode, chunk, parsed>>
        \/ /\ rc = "OK"
           /\ rcvTog' = ChipToggle(rc)
           /\ ChunkRead(ctlNext)
           /\ Counted /\ UNCHANGED <<call, rcode>>
        \/ /\ rc \notin {"OK", "TOGERR"}
           /\ Return(rc)
           /\ UNCHANGED <<rcvTog, chunk, parsed>>
  /\ UNCHANGED <<bmRcvToggle, received, sent, inNext, inTog>>

\* The result of the status stage: an OUT after data, else an IN.
StatusResult(w) ==
  IF call = "set" /\ w = "ack lost" THEN "OK" ELSE OutResult(w)

Status(w) ==
  /\ stage = "status"
  /\ LET rc == StatusResult(w)
     IN \/ Again(rc, ControlNaks) /\ Repeat(rc)
        \/ rc \in {"OK", "CRCERR", "NAK", "TIMEOUT"} /\ Return(rc)
  /\ UNCHANGED <<rcvTog, bmRcvToggle, received, chunk, parsed, sent, inNext, inTog,
                 ctlNext, ctlTog>>

-----------------------------------------------------------------------------
Init ==
  /\ call = "idle" /\ stage = "none" /\ rcode = "none"
  /\ naks = 0 /\ tries = 0
  /\ rcvTog = 0 /\ bmRcvToggle = 0
  /\ received = <<>> /\ chunk = <<>> /\ parsed = <<>>
  /\ sent = 0 /\ inNext = 1 /\ inTog = 0
  /\ ctlNext = 1 /\ ctlTog = 0

Transaction(w) == PollPacket(w) \/ Setup(w) \/ Data(w) \/ Status(w)

Next ==
  \/ Press \/ RecvData
  \/ \E request \in {"get", "set"} : ctrlReq(request)
  \/ \E w \in Wire : Transaction(w)

\* Once the host runs there are no more control requests and the main loop polls
\* for ever; the chip completes each transaction; of the transactions that find
\* data, not all are spoilt -- InTransfer() repeats toggle errors without end.
Fairness ==
  /\ SF_vars(RecvData)
  /\ WF_vars(\E w \in Wire : Transaction(w))
  /\ SF_vars(PollPacket("ok")) /\ SF_vars(Data("ok"))

Spec == Init /\ [][Next]_vars
LiveSpec == Spec /\ Fairness

-----------------------------------------------------------------------------
(* Properties                                                              *)

\* Polling an endpoint over the lossy bus is a channel that loses, repeats and
\* reorders nothing, with control requests between the polls (Usb.cpp:225-297).
Channel == INSTANCE EventChannel
ChannelSpec == Channel!Spec

\* The parser gets a prefix of the descriptor at any time, each packet once,
\* and a request that returns without an error has given it all of them
\* (Usb.cpp:166-193).
DescriptorWhole ==
  /\ parsed = [i \in 1 .. Len(parsed) |-> i]
  /\ stage = "status" /\ call = "get" => Len(parsed) = Total

\* An event that the device has queued is read in the end.
EventArrives ==
  \A n \in 1 .. MaxEvents : (sent >= n) ~> (Len(received) >= n)
=============================================================================
