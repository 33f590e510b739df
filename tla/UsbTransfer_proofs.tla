------------------------- MODULE UsbTransfer_proofs -------------------------
(***************************************************************************)
(* The polled endpoint is a channel that loses and repeats nothing, for    *)
(* any number of events and any limits on the repetitions.                 *)
(***************************************************************************)
EXTENDS UsbTransfer, TLAPS

\* The device is one packet behind exactly when the toggles differ: its last
\* packet was read and the acknowledgement was lost.
InStep == bmRcvToggle = inTog /\ Len(received) = inNext - 1
Behind == bmRcvToggle # inTog /\ Len(received) = inNext

ToggleInv ==
  /\ {rcvTog, bmRcvToggle, inTog} \subseteq {0, 1}
  /\ sent \in Nat /\ inNext \in Nat \ {0} /\ received \in Seq(Nat)
  /\ call = "poll" => rcvTog = bmRcvToggle
  /\ InStep \/ Behind
  /\ Len(received) <= sent

LEMMA ToggleStart == Init => ToggleInv
BY DEF Init, ToggleInv, InStep

(* A packet with the toggle the host waits for is the next event, and what *)
(* the device does about the acknowledgement keeps the two in step or one  *)
(* apart.                                                                  *)
LEMMA PacketTaken ==
  ASSUME ToggleInv, NEW w \in Wire, call = "poll", EventAcked(w),
         inNext > sent => w \in {"nak", "lost"},
         InResult(w, inTog) = "OK",
         received' = Append(received, inNext), UNCHANGED sent,
         rcvTog' = ChipToggle("OK"), bmRcvToggle' = ChipToggle("OK")
  PROVE  ToggleInv' /\ Channel!Receive
<1>1. w \in {"ok", "ack lost"} /\ inTog = rcvTog
  BY DEF InResult, Wire
<1>2. InStep /\ inNext <= sent
  <2>1. InStep
    BY <1>1 DEF ToggleInv, InStep, Behind
  <2>2. ~(inNext > sent)
    BY <1>1
  <2>3. QED
    BY <2>1, <2>2 DEF ToggleInv
<1>3. Len(received) + 1 = inNext /\ Len(received) < sent
  BY <1>2 DEF InStep, ToggleInv
<1>4. received' \in Seq(Nat) /\ Len(received') = inNext
  BY <1>3 DEF ToggleInv
<1>5. rcvTog' = bmRcvToggle' /\ bmRcvToggle' = 1 - inTog
  BY <1>1 DEF ChipToggle, Flip
<1>6. InStep' \/ Behind'
  <2>1. CASE w = "ok"
    <3>1. inNext' = inNext + 1 /\ inTog' = 1 - inTog
      BY <2>1 DEF EventAcked, Flip
    <3>2. QED
      BY <3>1, <1>4, <1>5 DEF InStep, ToggleInv
  <2>2. CASE w = "ack lost"
    <3>1. inNext' = inNext /\ inTog' = inTog
      BY <2>2 DEF EventAcked
    <3>2. QED
      BY <3>1, <1>4, <1>5 DEF Behind, ToggleInv
  <2>3. QED
    BY <1>1, <2>1, <2>2
<1>7. /\ {rcvTog', bmRcvToggle', inTog'} \subseteq {0, 1}
      /\ inNext' \in Nat \ {0}
  BY <1>5 DEF EventAcked, Flip, ToggleInv
<1>8. ToggleInv'
  BY <1>2, <1>4, <1>5, <1>6, <1>7 DEF ToggleInv
<1>9. QED
  BY <1>3, <1>8 DEF Channel!Receive

(* A packet with the other toggle is one the host has: setting the toggle  *)
(* wrong before the chip turns it leaves it as it was.                     *)
LEMMA PacketRepeated ==
  ASSUME ToggleInv, NEW w \in Wire, EventAcked(w), call = "poll", call' = call,
         InResult(w, inTog) = "TOGERR",
         UNCHANGED <<received, sent>>,
         rcvTog' = AfterTogerr, bmRcvToggle' = AfterTogerr
  PROVE  ToggleInv'
<1>1. w \in {"ok", "ack lost"} /\ inTog # rcvTog
  BY DEF InResult, Wire
<1>2. Behind
  BY <1>1 DEF ToggleInv, InStep, Behind
<1>3. rcvTog' = rcvTog /\ bmRcvToggle' = bmRcvToggle
  BY DEF AfterTogerr, ChipToggle, Flip, ToggleInv
<1>4. InStep' \/ Behind'
  <2>1. CASE w = "ok"
    <3>1. inNext' = inNext + 1 /\ inTog' = 1 - inTog
      BY <2>1 DEF EventAcked, Flip
    <3>2. QED
      BY <3>1, <1>2, <1>3 DEF InStep, Behind, ToggleInv
  <2>2. CASE w = "ack lost"
    <3>1. inNext' = inNext /\ inTog' = inTog
      BY <2>2 DEF EventAcked
    <3>2. QED
      BY <3>1, <1>2, <1>3 DEF Behind
  <2>3. QED
    BY <1>1, <2>1, <2>2
<1>5. QED
  BY <1>3, <1>4 DEF ToggleInv, EventAcked, Flip

(* Any other result is of a packet that brought nothing.                   *)
LEMMA PacketMissed ==
  ASSUME ToggleInv, NEW w \in Wire, EventAcked(w), call = "poll",
         InResult(w, inTog) \notin {"OK", "TOGERR"},
         UNCHANGED <<received, sent, rcvTog, bmRcvToggle>>
  PROVE  ToggleInv'
<1>1. w \notin {"ok", "ack lost"}
  BY DEF InResult
<1>2. UNCHANGED <<inNext, inTog>>
  BY <1>1 DEF EventAcked
<1>3. rcvTog' = bmRcvToggle'
  BY DEF ToggleInv
<1>4. QED
  BY <1>2, <1>3 DEF ToggleInv, InStep, Behind

(* Steps that touch neither the polled endpoint nor what was read from it. *)
LEMMA OtherStep ==
  ASSUME ToggleInv, UNCHANGED <<bmRcvToggle, received, sent, inNext, inTog>>,
         rcvTog' \in {0, 1}, call' # "poll"
  PROVE  ToggleInv'
BY DEF ToggleInv, InStep, Behind

LEMMA PollStep ==
  ASSUME ToggleInv, NEW w \in Wire, PollPacket(w)
  PROVE  ToggleInv' /\ [Channel!Next]_<<sent, received>>
<1> DEFINE rc == InResult(w, inTog)
<1>1. /\ call = "poll" /\ EventAcked(w) /\ UNCHANGED sent
      /\ inNext > sent => w \in {"nak", "lost"}
  BY DEF PollPacket
<1>2. CASE rc = "OK"
  <2>1. /\ received' = Append(received, inNext)
        /\ rcvTog' = ChipToggle("OK") /\ bmRcvToggle' = ChipToggle("OK")
    BY <1>2 DEF PollPacket, Again
  <2>2. ToggleInv' /\ Channel!Receive
    BY <1>1, <1>2, <2>1, PacketTaken
  <2>3. QED
    BY <2>2 DEF Channel!Next
<1>3. CASE rc = "TOGERR"
  <2>1. /\ rcvTog' = AfterTogerr /\ bmRcvToggle' = AfterTogerr
        /\ UNCHANGED <<received, call>>
    BY <1>3 DEF PollPacket, Again
  <2>2. QED
    BY <1>1, <1>3, <2>1, PacketRepeated
<1>4. CASE rc \notin {"OK", "TOGERR"}
  <2>1. UNCHANGED <<received, rcvTog, bmRcvToggle>>
    BY <1>4 DEF PollPacket
  <2>2. QED
    BY <1>1, <1>4, <2>1, PacketMissed
<1>5. QED
  BY <1>2, <1>3, <1>4

(* A control request leaves the polled endpoint alone and never runs       *)
(* during a poll.                                                          *)
LEMMA ControlStep ==
  ASSUME ToggleInv, call # "poll", NEW w \in Wire, Setup(w) \/ Data(w) \/ Status(w)
  PROVE  ToggleInv' /\ UNCHANGED <<sent, received>>
<1>1. UNCHANGED <<bmRcvToggle, received, sent, inNext, inTog>>
  BY DEF Setup, Data, Status
<1>2. rcvTog' \in {0, 1}
  BY DEF Setup, Data, Status, DataToggle, AfterTogerr, ChipToggle, Flip, ToggleInv
<1>3. call' # "poll"
  BY DEF Setup, Data, Status, Repeat, Return
<1>4. QED
  BY <1>1, <1>2, <1>3, OtherStep

-----------------------------------------------------------------------------
(* The data stage of a control request.                                    *)

\* How many packets of the descriptor the host has read.
ReadSoFar == Len(parsed) + Len(chunk)

StageInv ==
  /\ call \in {"idle", "poll"} => stage = "none"
  /\ stage = "data" => call = "get"

WholeInv ==
  /\ parsed \in Seq(Nat) /\ chunk \in Seq(Nat)
  /\ \A i \in 1 .. Len(parsed) : parsed[i] = i
  /\ \A i \in 1 .. Len(chunk) : chunk[i] = Len(parsed) + i
  /\ stage = "setup" => ReadSoFar = 0
  /\ stage = "status" /\ call = "get" => Len(parsed) = Total

DataInv ==
  /\ ctlNext \in Nat \ {0} /\ ctlTog \in {0, 1}
  /\ stage = "data" =>
       /\ ReadSoFar < Total
       /\ \/ rcvTog = ctlTog /\ ReadSoFar = ctlNext - 1
          \/ rcvTog # ctlTog /\ ReadSoFar = ctlNext

TransferInv == ToggleInv /\ StageInv /\ WholeInv /\ DataInv

LEMMA TransferStart == Init => TransferInv
<1> SUFFICES ASSUME Init PROVE TransferInv
  OBVIOUS
<1>1. StageInv /\ WholeInv /\ DataInv
  BY DEF Init, StageInv, WholeInv, DataInv, ReadSoFar
<1>2. QED
  BY <1>1, ToggleStart DEF TransferInv

LEMMA StageKept ==
  ASSUME StageInv, [Next]_vars
  PROVE  StageInv'
<1>1. CASE UNCHANGED vars
  BY <1>1 DEF StageInv, vars, host
<1>2. CASE Press \/ RecvData
  BY <1>2 DEF StageInv, Press, RecvData, host
<1>3. ASSUME NEW request \in {"get", "set"}, ctrlReq(request) PROVE StageInv'
  BY <1>3 DEF StageInv, ctrlReq
<1>4. ASSUME NEW w \in Wire, PollPacket(w) PROVE StageInv'
  BY <1>4 DEF StageInv, PollPacket, Repeat, Return, Counted
<1>5. ASSUME NEW w \in Wire, Setup(w) PROVE StageInv'
  BY <1>5 DEF StageInv, Setup, Repeat, Return, Counted
<1>6. ASSUME NEW w \in Wire, Data(w) PROVE StageInv'
  BY <1>6 DEF StageInv, Data, Repeat, Return, Counted, ChunkRead
<1>7. ASSUME NEW w \in Wire, Status(w) PROVE StageInv'
  BY <1>7 DEF StageInv, Status, Repeat, Return, Counted
<1>8. QED
  BY <1>1, <1>2, <1>3, <1>4, <1>5, <1>6, <1>7 DEF Next, Transaction

(* A packet put behind those read so far, and what the parser then has.    *)
LEMMA ChunkReadKeeps ==
  ASSUME WholeInv, NEW n \in Nat, n = ReadSoFar + 1, n <= Total, ChunkRead(n),
         call' = "get"
  PROVE  /\ WholeInv'
         /\ stage' = "data" => ReadSoFar' = n /\ n < Total
<1> DEFINE read == Append(chunk, n)
<1>1. /\ read \in Seq(Nat) /\ Len(read) = Len(chunk) + 1
      /\ \A i \in 1 .. Len(read) : read[i] = Len(parsed) + i
  <2>1. chunk \in Seq(Nat) /\ Len(parsed) \in Nat
    BY DEF WholeInv
  <2>2. read \in Seq(Nat) /\ Len(read) = Len(chunk) + 1
    BY <2>1
  <2>3. ASSUME NEW i \in 1 .. Len(read) PROVE read[i] = Len(parsed) + i
    <3>1. CASE i = Len(read)
      <4>1. read[i] = n
        BY <2>1, <2>2, <3>1
      <4>2. QED
        BY <2>1, <2>2, <3>1, <4>1 DEF ReadSoFar
    <3>2. CASE i # Len(read)
      <4>1. i \in 1 .. Len(chunk) /\ read[i] = chunk[i]
        BY <2>1, <2>2, <3>2
      <4>2. QED
        BY <4>1 DEF WholeInv
    <3>3. QED
      BY <3>1, <3>2
  <2>4. QED
    BY <2>2, <2>3
<1>2. parsed \in Seq(Nat) /\ Len(parsed) \in Nat /\ Len(chunk) \in Nat
  BY DEF WholeInv
<1>3. stage' \in {"data", "status"} /\ (stage' = "status" <=> n = Total)
  BY DEF ChunkRead
<1>4. CASE chunk' = << >> /\ parsed' = parsed \o read
  <2>1. parsed' \in Seq(Nat) /\ Len(parsed') = n
    BY <1>1, <1>2, <1>4 DEF ReadSoFar
  <2>2. ASSUME NEW i \in 1 .. Len(parsed') PROVE parsed'[i] = i
    <3>1. CASE i <= Len(parsed)
      <4>1. i \in 1 .. Len(parsed)
        BY <1>2, <2>1, <3>1
      <4>2. parsed'[i] = parsed[i]
        BY <1>1, <1>2, <1>4, <4>1
      <4>3. QED
        BY <4>1, <4>2 DEF WholeInv
    <3>2. CASE i > Len(parsed)
      <4>1. i - Len(parsed) \in 1 .. Len(read)
        BY <1>1, <1>2, <2>1, <3>2 DEF ReadSoFar
      <4>2. parsed'[i] = read[i - Len(parsed)]
        BY <1>1, <1>2, <1>4, <2>1, <3>2
      <4>3. read[i - Len(parsed)] = Len(parsed) + (i - Len(parsed))
        BY <1>1, <4>1
      <4>4. Len(parsed) + (i - Len(parsed)) = i
        BY <1>2, <2>1
      <4>5. QED
        BY <4>2, <4>3, <4>4
    <3>3. QED
      BY <1>2, <3>1, <3>2, <2>1
  <2>3. chunk' \in Seq(Nat) /\ Len(chunk') = 0
    BY <1>4
  <2>4. QED
    BY <1>3, <2>1, <2>2, <2>3, TransferAssumption DEF WholeInv, ReadSoFar
<1>5. CASE chunk' = read /\ parsed' = parsed /\ n # Total
  <2>1. ReadSoFar' = n /\ Len(chunk') = Len(read)
    BY <1>1, <1>2, <1>5 DEF ReadSoFar
  <2>2. stage' = "data"
    BY <1>3, <1>5
  <2>3. WholeInv'
    BY <1>1, <1>5, <2>2 DEF WholeInv
  <2>4. QED
    BY <1>5, <2>1, <2>3, TransferAssumption
<1>6. QED
  BY <1>4, <1>5 DEF ChunkRead

LEMMA SetupKeeps ==
  ASSUME TransferInv, NEW w \in Wire, Setup(w)
  PROVE  WholeInv' /\ DataInv'
<1>1. /\ parsed' = parsed /\ chunk' = chunk /\ ReadSoFar = 0
      /\ call' \in {call, "idle"}
  BY DEF Setup, TransferInv, WholeInv, Repeat, Return
<1>2. /\ stage' \in {"setup", "none", "data", "status"}
      /\ stage' = "status" => call' # "get"
      /\ stage' = "data" => w = "ok" /\ rcvTog' = 1
  BY DEF Setup, Repeat, Return, DataToggle, OutResult, Wire
<1>3. Len(parsed) \in Nat /\ Len(chunk) \in Nat /\ ReadSoFar' = 0
  BY <1>1 DEF TransferInv, WholeInv, ReadSoFar
<1>4. WholeInv'
  BY <1>1, <1>2, <1>3 DEF TransferInv, WholeInv
<1>5. /\ ctlNext' \in Nat /\ ctlNext' # 0 /\ ctlTog' \in {0, 1}
      /\ w = "ok" => ctlNext' = 1 /\ ctlTog' = 1
  <2>1. /\ ctlNext' = IF Arrives(w) THEN 1 ELSE ctlNext
        /\ ctlTog' = IF Arrives(w) THEN 1 ELSE ctlTog
    BY DEF Setup
  <2>2. ctlNext \in Nat /\ ctlNext # 0 /\ ctlTog \in {0, 1}
    BY DEF TransferInv, DataInv
  <2>3. ctlNext' \in Nat /\ ctlNext' # 0 /\ ctlTog' \in {0, 1}
    BY <2>1, <2>2
  <2>4. w = "ok" => ctlNext' = 1 /\ ctlTog' = 1
    BY <2>1 DEF Arrives
  <2>5. QED
    BY <2>3, <2>4
<1>6. QED
  BY <1>2, <1>3, <1>4, <1>5, TransferAssumption DEF DataInv

(* A data packet is taken when the toggles agree, else it is one the host  *)
(* has.                                                                    *)
LEMMA DataKeeps ==
  ASSUME TransferInv, NEW w \in Wire, Data(w)
  PROVE  WholeInv' /\ DataInv'
<1> DEFINE rc == InResult(w, ctlTog)
<1>1. /\ stage = "data" /\ call = "get" /\ ReadSoFar < Total
      /\ \/ rcvTog = ctlTog /\ ReadSoFar = ctlNext - 1
         \/ rcvTog # ctlTog /\ ReadSoFar = ctlNext
      /\ ctlNext \in Nat /\ ctlNext # 0 /\ Total \in Nat /\ ReadSoFar \in Nat
      /\ ctlTog \in {0, 1} /\ rcvTog \in {0, 1}
  <2>1. stage = "data"
    BY DEF Data
  <2>2. Len(parsed) \in Nat /\ Len(chunk) \in Nat
    BY DEF TransferInv, WholeInv
  <2>3. ReadSoFar \in Nat
    BY <2>2 DEF ReadSoFar
  <2>4. QED
    BY <2>1, <2>3, TransferAssumption DEF TransferInv, StageInv, DataInv, ToggleInv
<1>2. /\ ctlNext' = IF w = "ok" THEN ctlNext + 1 ELSE ctlNext
      /\ ctlTog' = IF w = "ok" THEN 1 - ctlTog ELSE ctlTog
      /\ ctlNext' \in Nat /\ ctlNext' # 0 /\ ctlTog' \in {0, 1}
  <2>1. /\ ctlNext' = IF w = "ok" THEN ctlNext + 1 ELSE ctlNext
        /\ ctlTog' = IF w = "ok" THEN 1 - ctlTog ELSE ctlTog
    BY DEF Data, DataAcked, Flip
  <2>2. QED
    BY <1>1, <2>1
<1>3. CASE rc = "OK"
  <2>1. rcvTog = ctlTog
    BY <1>3 DEF InResult, Wire
  <2>2. rcvTog' = 1 - rcvTog /\ ChunkRead(ctlNext) /\ call' = call
    BY <1>3 DEF Data, Again, ChipToggle, Flip
  <2>3. ctlNext = ReadSoFar + 1 /\ ctlNext <= Total
    BY <1>1, <2>1
  <2>4. WholeInv' /\ (stage' = "data" => ReadSoFar' = ctlNext /\ ctlNext < Total)
    BY <1>1, <2>2, <2>3, ChunkReadKeeps DEF TransferInv
  <2>5. \/ rcvTog' = ctlTog' /\ ctlNext = ctlNext' - 1
        \/ rcvTog' # ctlTog' /\ ctlNext = ctlNext'
    BY <1>1, <1>2, <2>1, <2>2
  <2>6. QED
    BY <1>2, <2>4, <2>5 DEF DataInv
<1>4. CASE rc = "TOGERR"
  <2>1. rcvTog # ctlTog
    BY <1>4 DEF InResult, Wire
  <2>2. /\ rcvTog' = rcvTog /\ UNCHANGED <<call, stage, chunk, parsed>>
    <3>1. rcvTog' = AfterTogerr /\ UNCHANGED <<call, stage, chunk, parsed>>
      BY <1>4 DEF Data, Again
    <3>2. QED
      BY <1>1, <3>1 DEF AfterTogerr, ChipToggle, Flip
  <2>3. WholeInv' /\ ReadSoFar' = ReadSoFar
    BY <2>2 DEF TransferInv, WholeInv, ReadSoFar
  <2>4. \/ rcvTog' = ctlTog' /\ ReadSoFar' = ctlNext' - 1
        \/ rcvTog' # ctlTog' /\ ReadSoFar' = ctlNext'
    BY <1>1, <1>2, <2>1, <2>2, <2>3
  <2>5. QED
    BY <1>1, <1>2, <2>2, <2>3, <2>4 DEF DataInv
<1>5. CASE rc \notin {"OK", "TOGERR"}
  <2>1. w \notin {"ok", "ack lost"}
    BY <1>5 DEF InResult
  <2>2. UNCHANGED <<rcvTog, chunk, parsed, ctlNext, ctlTog>>
    BY <1>2, <1>5, <2>1 DEF Data
  <2>3. /\ stage' \in {"data", "none"} /\ call' \in {call, "idle"}
    BY <1>1, <1>5 DEF Data, Repeat, Return
  <2>4. WholeInv' /\ ReadSoFar' = ReadSoFar
    BY <2>2, <2>3 DEF TransferInv, WholeInv, ReadSoFar
  <2>5. QED
    BY <1>1, <1>2, <2>2, <2>4 DEF DataInv
<1>6. QED
  BY <1>3, <1>4, <1>5

(* The data and the stage of a request that are left alone keep their      *)
(* invariants, also when the call returns.                                 *)
LEMMA DataUntouched ==
  ASSUME TransferInv, UNCHANGED <<chunk, parsed, ctlNext, ctlTog>>,
         \/ stage' = stage /\ call' = call /\ stage # "data"
         \/ stage' = stage /\ call' = call /\ rcvTog' = rcvTog
         \/ stage' = "none"
  PROVE  WholeInv' /\ DataInv'
<1>1. ReadSoFar' = ReadSoFar
  BY DEF ReadSoFar
<1>2. QED
  BY <1>1 DEF TransferInv, WholeInv, DataInv

LEMMA RequestKeeps ==
  ASSUME TransferInv, NEW request \in {"get", "set"}, ctrlReq(request)
  PROVE  TransferInv'
<1>1. /\ call' = request /\ stage' = "setup" /\ chunk' = << >> /\ parsed' = << >>
      /\ UNCHANGED <<rcvTog, bmRcvToggle, received, sent, inNext, inTog, ctlNext, ctlTog>>
  BY DEF ctrlReq
<1>2. ToggleInv'
  <2>1. rcvTog' \in {0, 1} /\ call' # "poll"
    BY <1>1 DEF TransferInv, ToggleInv
  <2>2. QED
    BY <1>1, <2>1, OtherStep DEF TransferInv
<1>3. StageInv'
  BY <1>1 DEF StageInv
<1>4. ReadSoFar' = 0 /\ WholeInv' /\ DataInv'
  BY <1>1 DEF ReadSoFar, WholeInv, DataInv, TransferInv
<1>5. QED
  BY <1>2, <1>3, <1>4 DEF TransferInv

(* One step of the specification is a step of the channel or a stutter.    *)
LEMMA TransferStep ==
  ASSUME TransferInv, [Next]_vars
  PROVE  TransferInv' /\ [Channel!Next]_<<sent, received>>
<1>1. StageInv'
  BY StageKept DEF TransferInv
<1>2. CASE UNCHANGED vars
  <2>1. ToggleInv'
    BY <1>2 DEF TransferInv, ToggleInv, InStep, Behind, vars, host
  <2>2. WholeInv' /\ DataInv'
    BY <1>2, DataUntouched DEF vars, host, control
  <2>3. QED
    BY <1>1, <1>2, <2>1, <2>2 DEF TransferInv, vars, host
<1>3. CASE Press
  <2>1. UNCHANGED <<host, inNext, inTog, ctlNext, ctlTog>> /\ sent' = sent + 1
    BY <1>3 DEF Press, control
  <2>2. ToggleInv'
    BY <2>1 DEF TransferInv, ToggleInv, InStep, Behind, host
  <2>3. WholeInv' /\ DataInv'
    BY <2>1, DataUntouched DEF host
  <2>4. Channel!Send
    BY <2>1 DEF Channel!Send, host
  <2>5. QED
    BY <1>1, <2>2, <2>3, <2>4 DEF TransferInv, Channel!Next
<1>4. CASE RecvData
  <2>1. /\ call' = "poll" /\ rcvTog' = bmRcvToggle /\ call = "idle" /\ stage = "none"
        /\ UNCHANGED <<stage, bmRcvToggle, received, chunk, parsed, sent, inNext, inTog,
                       ctlNext, ctlTog>>
    BY <1>4 DEF RecvData, control, TransferInv, StageInv
  <2>2. ToggleInv'
    BY <2>1 DEF TransferInv, ToggleInv, InStep, Behind
  <2>3. WholeInv' /\ DataInv'
    BY <2>1, DataUntouched
  <2>4. QED
    BY <1>1, <2>1, <2>2, <2>3 DEF TransferInv
<1>5. ASSUME NEW request \in {"get", "set"}, ctrlReq(request)
      PROVE  TransferInv' /\ UNCHANGED <<sent, received>>
  <2>1. UNCHANGED <<sent, received>>
    BY <1>5 DEF ctrlReq
  <2>2. QED
    BY <1>5, <2>1, RequestKeeps
<1>6. ASSUME NEW w \in Wire, PollPacket(w)
      PROVE  TransferInv' /\ [Channel!Next]_<<sent, received>>
  <2>1. ToggleInv' /\ [Channel!Next]_<<sent, received>>
    BY <1>6, PollStep DEF TransferInv
  <2>2. /\ UNCHANGED <<chunk, parsed, ctlNext, ctlTog>>
        /\ stage = "none" /\ stage' \in {stage, "none"}
    BY <1>6 DEF PollPacket, Repeat, Return, control, TransferInv, StageInv
  <2>3. WholeInv' /\ DataInv'
    BY <2>2, DataUntouched
  <2>4. QED
    BY <1>1, <2>1, <2>3 DEF TransferInv
<1>7. ASSUME NEW w \in Wire, Setup(w) \/ Data(w) \/ Status(w)
      PROVE  TransferInv' /\ UNCHANGED <<sent, received>>
  <2>1. call # "poll"
    BY <1>7 DEF TransferInv, StageInv, Setup, Data, Status
  <2>2. ToggleInv' /\ UNCHANGED <<sent, received>>
    BY <1>7, <2>1, ControlStep DEF TransferInv
  <2>3. WholeInv' /\ DataInv'
    <3>1. CASE Setup(w)
      BY <3>1, SetupKeeps
    <3>2. CASE Data(w)
      BY <3>2, DataKeeps
    <3>3. CASE Status(w)
      <4>1. /\ UNCHANGED <<rcvTog, chunk, parsed, ctlNext, ctlTog>>
            /\ (stage' = stage /\ call' = call) \/ stage' = "none"
        BY <3>3 DEF Status, Repeat, Return
      <4>2. QED
        BY <4>1, DataUntouched
    <3>4. QED
      BY <1>7, <3>1, <3>2, <3>3
  <2>4. QED
    BY <1>1, <2>2, <2>3 DEF TransferInv
<1>8. QED
  BY <1>2, <1>3, <1>4, <1>5, <1>6, <1>7 DEF Next, Transaction

LEMMA TransferInvariant == Spec => []TransferInv
<1>1. TransferInv /\ [Next]_vars => TransferInv'
  BY TransferStep
<1>2. QED
  BY TransferStart, <1>1, PTL DEF Spec

-----------------------------------------------------------------------------
(* Every event is read once and in order, however packets and              *)
(* acknowledgements are lost and whatever control requests come between    *)
(* the polls (InTransfer(), Usb.cpp:225-297).                              *)
THEOREM EventsInOrder == Spec => ChannelSpec
<1>1. Init => Channel!Init
  BY DEF Init, Channel!Init
<1>2. TransferInv /\ [Next]_vars => [Channel!Next]_<<sent, received>>
  BY TransferStep
<1>3. QED
  BY <1>1, <1>2, TransferInvariant, PTL
     DEF Spec, ChannelSpec, Channel!Spec, Channel!vars

(* For a descriptor of any length read in chunks of any size: the parser   *)
(* has a prefix of it, and all of it once the request is over              *)
(* (ctrlReq(), Usb.cpp:166-193).                                           *)
THEOREM DescriptorRead == Spec => []DescriptorWhole
<1>1. TransferInv => DescriptorWhole
  <2> SUFFICES ASSUME TransferInv PROVE DescriptorWhole
    OBVIOUS
  <2>1. parsed \in Seq(Nat) /\ \A i \in 1 .. Len(parsed) : parsed[i] = i
    BY DEF TransferInv, WholeInv
  <2>2. parsed = [i \in 1 .. Len(parsed) |-> i]
    <3>1. parsed \in [1 .. Len(parsed) -> Nat]
      BY <2>1
    <3>2. QED
      BY <2>1, <3>1
  <2>3. QED
    BY <2>2 DEF TransferInv, WholeInv, DescriptorWhole
<1>2. QED
  BY <1>1, TransferInvariant, PTL

=============================================================================
