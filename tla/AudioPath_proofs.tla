--------------------------- MODULE AudioPath_proofs ---------------------------
(***************************************************************************)
(* Theorems about the engine with its sample FIFO, for every FIFO depth    *)
(* and every lag of the synchronizers.                                     *)
(***************************************************************************)
EXTENDS AudioPath, SynthIP_proofs

(* Every step of the path is a step of the engine or leaves it alone, so   *)
(* what is proved of the engine's steps holds here.                        *)
LEMMA PathStepIsEngineStep ==
  ASSUME [PathNext]_pathVars
  PROVE  [Next]_vars
<1>1. wrfull \in BOOLEAN
  BY DEF wrfull
<1>2. ASSUME NEW b \in BusOps, WrClock(b) PROVE Next
  BY <1>1, <1>2 DEF WrClock, Next
<1>3. CASE ReadSide
  BY <1>3 DEF ReadSide
<1>4. CASE UNCHANGED pathVars
  BY <1>4 DEF pathVars
<1>5. QED
  BY <1>2, <1>3, <1>4 DEF PathNext

(* A sample under way has a place in the FIFO.  The full flag is sampled   *)
(* before a key is visited; between then and the write only reads happen,  *)
(* and they make room.  Away from key 0 the room was found at key 0.       *)
BetweenSamples == state = "halted" \/ (state = "start" /\ KEY = 0)

RoomInv == ~BetweenSamples => Len(mem) + unseenReads < Depth

LEMMA EngineTypes == PathSpec => [](TypeOK /\ ScanInv)
<1>1. PathInit => TypeOK /\ ScanInv
  BY TypeInit, ScanStart DEF PathInit
<1>2. TypeOK /\ ScanInv /\ [PathNext]_pathVars => TypeOK' /\ ScanInv'
  BY PathStepIsEngineStep, TypeStep, ScanStep
<1>3. QED
  BY <1>1, <1>2, PTL DEF PathSpec

LEMMA FifoStart == PathInit => FifoTypeOK /\ RoomInv
<1> SUFFICES ASSUME PathInit PROVE FifoTypeOK /\ RoomInv
  OBVIOUS
<1>1. mem = << >> /\ q = << >> /\ unseenReads = 0 /\ unseenWrites = 0 /\ state = "halted"
  BY DEF PathInit, Init, FifoInit, Silence
<1>2. Len(mem) = 0
  BY <1>1
<1>3. QED
  BY <1>1, <1>2, DepthAssumption DEF FifoTypeOK, RoomInv, BetweenSamples

(* The read side keeps the counters in range and takes no room.            *)
LEMMA ReadStep ==
  ASSUME FifoTypeOK, RoomInv, ReadSide
  PROVE  FifoTypeOK' /\ RoomInv'
<1>1. /\ mem \in Seq(Seq(ContributionType)) /\ q \in Seq(ContributionType)
      /\ unseenReads \in Nat /\ unseenWrites \in 0 .. Len(mem)
      /\ Len(mem) \in Nat /\ Depth \in Nat
      /\ Len(mem) + unseenReads <= Depth
  BY DepthAssumption DEF FifoTypeOK
<1>2. UNCHANGED <<state, KEY, TONE>> /\ (BetweenSamples' <=> BetweenSamples)
  BY DEF ReadSide, vars, BetweenSamples
<1>3. CASE RdClock
  <2>1. CASE rdempty
    BY <1>2, <1>3, <2>1 DEF RdClock, FifoTypeOK, RoomInv
  <2>2. CASE ~rdempty
    <3>1. Len(mem) > unseenWrites /\ mem # << >>
      BY <1>1, <2>2 DEF rdempty
    <3>2. /\ Head(mem) \in Seq(ContributionType)
          /\ Tail(mem) \in Seq(Seq(ContributionType))
          /\ Len(Tail(mem)) = Len(mem) - 1
      BY <1>1, <3>1
    <3>3. /\ q' = Head(mem) /\ mem' = Tail(mem)
          /\ unseenReads' = unseenReads + 1 /\ unseenWrites' = unseenWrites
      BY <1>3, <2>2 DEF RdClock
    <3>4. QED
      BY <1>1, <1>2, <3>1, <3>2, <3>3 DEF FifoTypeOK, RoomInv
  <2>3. QED
    BY <2>1, <2>2
<1>4. CASE SyncToWrite
  <2>1. /\ unseenReads' \in Nat /\ unseenReads' < unseenReads
        /\ UNCHANGED <<mem, unseenWrites, q>>
    BY <1>1, <1>4 DEF SyncToWrite
  <2>2. QED
    BY <1>1, <1>2, <2>1 DEF FifoTypeOK, RoomInv
<1>5. CASE SyncToRead
  <2>1. /\ unseenWrites' \in 0 .. Len(mem)
        /\ UNCHANGED <<mem, unseenReads, q>>
    BY <1>1, <1>5 DEF SyncToRead
  <2>2. QED
    BY <1>1, <1>2, <2>1 DEF FifoTypeOK, RoomInv
<1>6. QED
  BY <1>3, <1>4, <1>5 DEF ReadSide

(* Away from the write the write side of the FIFO does not move; the engine*)
(* leaves the gap between samples only after seeing room.                  *)
LEMMA WriteSideIdle ==
  ASSUME TypeOK, ScanInv, FifoTypeOK, RoomInv, NEW b \in BusOps, WrClock(b), ~LD_FIFO
  PROVE  FifoTypeOK' /\ RoomInv'
<1>1. UNCHANGED fifoVars /\ state # "write"
  BY DEF WrClock, LD_FIFO
<1>2. Clock(b, wrfull)
  BY DEF WrClock
<1>3. Len(mem) \in Nat /\ unseenReads \in Nat /\ Depth \in Nat
  BY DepthAssumption DEF FifoTypeOK
<1>4. FifoTypeOK'
  BY <1>1 DEF fifoVars, FifoTypeOK
<1>5. ~BetweenSamples' => ~BetweenSamples \/ ~wrfull
  <2>1. CASE Halted(b)
    BY <2>1 DEF Halted, BetweenSamples, ScanInv, ScanAtRest
  <2>2. CASE Start(b, wrfull)
    BY <2>2 DEF Start, BetweenSamples
  <2>3. CASE CheckKey(b) \/ KeyOn(b) \/ KeyOff(b)
    BY <2>3 DEF CheckKey, KeyOn, KeyOff, BetweenSamples
  <2>4. QED
    BY <1>1, <1>2, <2>1, <2>2, <2>3 DEF Clock, Write
<1>6. QED
  BY <1>1, <1>3, <1>4, <1>5 DEF fifoVars, RoomInv, wrfull

(* The write of a sample finds the room that RoomInv promises.             *)
LEMMA WriteSideWrite ==
  ASSUME TypeOK, ScanInv, FifoTypeOK, RoomInv, NEW b \in BusOps, WrClock(b), LD_FIFO
  PROVE  FifoTypeOK' /\ RoomInv' /\ mem' = Append(mem, TONE) /\ UNCHANGED q
<1>1. state = "write" /\ KEY = 0 /\ WrReq(TONE)
  BY DEF WrClock, LD_FIFO, ScanInv, ScanAtRest
<1>2. ~wrfull
  BY <1>1, DepthAssumption DEF RoomInv, BetweenSamples, wrfull, FifoTypeOK
<1>3. /\ mem' = Append(mem, TONE) /\ unseenWrites' = unseenWrites + 1
      /\ UNCHANGED <<unseenReads, q>>
  BY <1>1, <1>2 DEF WrReq
<1>4. mem' \in Seq(Seq(ContributionType)) /\ Len(mem') = Len(mem) + 1
  BY <1>3 DEF FifoTypeOK, TypeOK
<1>5. FifoTypeOK'
  BY <1>2, <1>3, <1>4, DepthAssumption DEF FifoTypeOK, wrfull
<1>6. state' = "start" /\ KEY' = 0
  BY <1>1 DEF WrClock, Clock, Halted, Start, CheckKey, KeyOn, KeyOff, Write
<1>7. QED
  BY <1>3, <1>5, <1>6 DEF RoomInv, BetweenSamples

LEMMA FifoStep ==
  ASSUME TypeOK, ScanInv, FifoTypeOK, RoomInv, [PathNext]_pathVars
  PROVE  FifoTypeOK' /\ RoomInv'
<1>1. CASE UNCHANGED pathVars
  BY <1>1 DEF pathVars, vars, fifoVars, FifoTypeOK, RoomInv, BetweenSamples
<1>2. QED
  BY <1>1, ReadStep, WriteSideIdle, WriteSideWrite DEF PathNext

(* No sample the engine finishes is dropped, and it never waits for room   *)
(* with half a sample mixed, for any depth of the FIFO, any number of keys *)
(* and any lag between the two clock domains.                              *)
THEOREM NoSampleLost == PathSpec => [](FifoTypeOK /\ NothingDropped /\ StallsBetweenSamples)
<1>1. TypeOK /\ ScanInv /\ FifoTypeOK /\ RoomInv /\ [PathNext]_pathVars
        => FifoTypeOK' /\ RoomInv'
  BY FifoStep
<1>2. TypeOK /\ ScanInv /\ FifoTypeOK /\ RoomInv => NothingDropped /\ StallsBetweenSamples
  <2> SUFFICES ASSUME TypeOK, ScanInv, FifoTypeOK, RoomInv
               PROVE  NothingDropped /\ StallsBetweenSamples
    OBVIOUS
  <2>1. wrfull => BetweenSamples
    BY DepthAssumption DEF RoomInv, wrfull, FifoTypeOK
  <2>2. state = "start" /\ KEY = 0 => TONE = << >>
    <3> SUFFICES ASSUME state = "start", KEY = 0 PROVE TONE = << >>
      OBVIOUS
    <3>1. Mixed = {}
      BY DEF ScanInv, MixedInOrder, Scanned
    <3>2. Len(TONE) \in Nat /\ DOMAIN TONE = 1 .. Len(TONE)
      BY DEF TypeOK
    <3>3. Len(TONE) = 0
      <4> SUFFICES ASSUME Len(TONE) # 0 PROVE FALSE
        OBVIOUS
      <4>1. 1 \in DOMAIN TONE
        BY <3>2
      <4>2. QED
        BY <3>1, <4>1 DEF Mixed
    <3>4. QED
      BY <3>3 DEF TypeOK
  <2>3. QED
    BY <2>1, <2>2 DEF NothingDropped, StallsBetweenSamples, LD_FIFO, BetweenSamples
<1>3. QED
  BY <1>1, <1>2, FifoStart, EngineTypes, PTL DEF PathSpec

(* The two sides' views of the FIFO stay apart by no more than it holds,   *)
(* so neither flag errs on the dangerous side.                             *)
THEOREM FifoViews == PathSpec => []FifoTypeOK
  BY NoSampleLost, PTL

(* A full FIFO is met between samples only: no half-mixed sample waits.    *)
THEOREM WholeBeforeStall == PathSpec => []StallsBetweenSamples
  BY NoSampleLost, PTL

(* A prefix of a longer sequence, taken back.                              *)
LEMMA PrefixOfAppend ==
  ASSUME NEW S, NEW s \in Seq(S), NEW x \in S
  PROVE  /\ SubSeq(Append(s, x), 1, Len(s)) = s
         /\ Append(s, x)[Len(Append(s, x))] = x
         /\ Len(Append(s, x)) = Len(s) + 1
  OBVIOUS

(* The engine and the FIFO implement the bounded queue of SampleQueue: the *)
(* only steps the reader can tell from a stutter add one whole sample at   *)
(* the back when there is room, or take the oldest sample.                 *)
THEOREM PathIsQueue == PathSpec => QueueSpec
<1>1. PathInit => Queue!SQInit
  BY DEF PathInit, FifoInit, Queue!SQInit
<1>2. TypeOK /\ ScanInv /\ FifoTypeOK /\ RoomInv /\ [PathNext]_pathVars
        => [Queue!SQNext]_<<mem, q>>
  <2> SUFFICES ASSUME TypeOK, ScanInv, FifoTypeOK, RoomInv, [PathNext]_pathVars
               PROVE  [Queue!SQNext]_<<mem, q>>
    OBVIOUS
  <2>1. CASE UNCHANGED pathVars
    BY <2>1 DEF pathVars, fifoVars
  <2>2. CASE ReadSide
    <3>1. CASE RdClock /\ ~rdempty
      <4>1. mem # << >>
        BY <3>1 DEF rdempty, FifoTypeOK
      <4>2. QED
        BY <3>1, <4>1 DEF RdClock, Queue!Take, Queue!SQNext
    <3>2. CASE ~(RdClock /\ ~rdempty)
      BY <2>2, <3>2 DEF ReadSide, RdClock, SyncToWrite, SyncToRead
    <3>3. QED
      BY <3>1, <3>2
  <2>3. ASSUME NEW b \in BusOps, WrClock(b)
        PROVE  [Queue!SQNext]_<<mem, q>>
    <3>1. CASE ~LD_FIFO
      BY <2>3, <3>1 DEF WrClock, fifoVars
    <3>2. CASE LD_FIFO
      <4>1. mem' = Append(mem, TONE) /\ UNCHANGED q
        BY <2>3, <3>2, WriteSideWrite
      <4>2. Len(mem) < Depth
        BY <3>2, DepthAssumption DEF LD_FIFO, RoomInv, BetweenSamples, FifoTypeOK
      <4>3. mem \in Seq(Seq(ContributionType)) /\ TONE \in Seq(ContributionType)
        BY DEF FifoTypeOK, TypeOK
      <4>4. /\ Len(mem') = Len(mem) + 1
            /\ SubSeq(mem', 1, Len(mem)) = mem
            /\ mem'[Len(mem')] \in Seq(ContributionType)
        BY <4>1, <4>3, PrefixOfAppend
      <4>5. QED
        BY <4>1, <4>2, <4>4 DEF Queue!Put, Queue!SQNext
    <3>3. QED
      BY <3>1, <3>2
  <2>4. QED
    BY <2>1, <2>2, <2>3 DEF PathNext
<1>3. TypeOK /\ ScanInv /\ FifoTypeOK /\ RoomInv /\ [PathNext]_pathVars
        => FifoTypeOK' /\ RoomInv'
  BY FifoStep
<1>4. QED
  BY <1>1, <1>2, <1>3, FifoStart, EngineTypes, PTL DEF PathSpec, QueueSpec, Queue!SQSpec
-----------------------------------------------------------------------------
(* The newest sample in the FIFO, or the one shown when it is empty.       *)
LastDone == IF mem = << >> THEN q ELSE mem[Len(mem)]

(* The phase register of key k is one step on from entry addr.             *)
NextIs(k, addr) ==
  \E phase \in Phases : addr = ADDR(phase) /\ phase_reg[k] = (phase + F[k]) % PhaseMod

QueueContinues ==
  /\ mem # << >> => Continues(q, mem[1])
  /\ \A i \in 1 .. Len(mem) - 1 : Continues(mem[i], mem[i + 1])

(* The phase register of a key stands one step past its last contribution, *)
(* which is in the sample under way if the key has been visited for it and *)
(* in the last finished sample if not.                                     *)
MixedAdvanced == \A k \in Mixed : \A a \in AddrIn(TONE, k) : NextIs(k, a)
WaitingAdvanced == \A k \in Keys \ Scanned : \A a \in AddrIn(LastDone, k) : NextIs(k, a)

StreamInv ==
  /\ Unbent(ctrl_reg)
  /\ QueueContinues
  /\ Continues(LastDone, TONE)
  /\ MixedAdvanced
  /\ WaitingAdvanced

LEMMA EmptyLength ==
  ASSUME NEW S, NEW s \in Seq(S)
  PROVE  s = << >> <=> Len(s) = 0
  OBVIOUS

LEMMA KeysOfSample ==
  ASSUME NEW s \in Seq(ContributionType), NEW i \in DOMAIN s
  PROVE  s[i].key \in Keys
<1>1. s[i] \in ContributionType
  OBVIOUS
<1>2. QED
  BY <1>1 DEF ContributionType

(* What the addresses of a key in a sample are made of.                    *)
LEMMA AddrNone ==
  ASSUME NEW k
  PROVE  AddrIn(<< >>, k) = {}
  BY DEF AddrIn

LEMMA AddrMixed ==
  ASSUME NEW k, NEW a \in AddrIn(TONE, k)
  PROVE  k \in Mixed
  BY DEF AddrIn, Mixed

LEMMA AddrAppend ==
  ASSUME NEW s \in Seq(ContributionType), NEW c \in ContributionType, NEW k,
         NEW a \in AddrIn(Append(s, c), k)
  PROVE  a \in AddrIn(s, k) \/ (k = c.key /\ a = c.addr)
<1>1. PICK j \in DOMAIN Append(s, c) : Append(s, c)[j].key = k /\ a = Append(s, c)[j].addr
  BY DEF AddrIn
<1>2. CASE j \in DOMAIN s
  <2>1. Append(s, c)[j] = s[j]
    BY <1>2
  <2>2. QED
    BY <1>1, <1>2, <2>1 DEF AddrIn
<1>3. CASE j \notin DOMAIN s
  <2>1. Append(s, c)[j] = c
    BY <1>3
  <2>2. QED
    BY <1>1, <2>1
<1>4. QED
  BY <1>2, <1>3

(* A bus that never turns the bend on leaves it off.                       *)
LEMMA UnbentStays ==
  ASSUME TypeOK, NoBend, Unbent(ctrl_reg), NEW b \in BusOps, NEW play, BusEdge(b, play)
  PROVE  Unbent(ctrl_reg')
<1>1. CASE b.op = "ctrl"
  <2>1. b.write \in CtrlWrites
    BY <1>1 DEF BusOps, BusIdle, KeyWrite, CtrlWrite
  <2>2. b.write[1] \in Ctrls /\ (b.write[1] = 11 => b.write[2] % 2 = 0)
    BY <2>1, SynthAssumption DEF NoBend
  <2>3. ctrl_reg' = [ctrl_reg EXCEPT ![b.write[1]] = b.write[2]]
    BY <1>1 DEF BusEdge
  <2>4. CASE b.write[1] = 11
    <3>1. ctrl_reg'[11] = b.write[2]
      BY <2>2, <2>3, <2>4 DEF TypeOK
    <3>2. QED
      BY <2>2, <2>4, <3>1 DEF Unbent, BEND_MUX
  <2>5. CASE b.write[1] # 11
    <3>1. ctrl_reg'[11] = ctrl_reg[11]
      BY <2>3, <2>5 DEF TypeOK, Ctrls
    <3>2. QED
      BY <3>1 DEF Unbent, BEND_MUX
  <2>6. QED
    BY <2>4, <2>5
<1>2. CASE b.op # "ctrl"
  BY <1>2 DEF BusEdge
<1>3. QED
  BY <1>1, <1>2

(* Reading takes the sample shown away at the front; what follows it is    *)
(* unchanged and the newest sample stays the newest.                       *)
LEMMA ReadContinues ==
  ASSUME FifoTypeOK, QueueContinues, ReadSide
  PROVE  QueueContinues' /\ LastDone' = LastDone
<1>1. CASE UNCHANGED <<mem, q>>
  BY <1>1 DEF QueueContinues, LastDone
<1>2. CASE ~UNCHANGED <<mem, q>>
  <2>1. ~rdempty /\ q' = Head(mem) /\ mem' = Tail(mem)
    BY <1>2 DEF ReadSide, RdClock, SyncToWrite, SyncToRead
  <2>2. mem \in Seq(Seq(ContributionType)) /\ Len(mem) \in Nat /\ Len(mem) > 0
    BY <2>1 DEF rdempty, FifoTypeOK
  <2>3. /\ mem # << >> /\ q' = mem[1]
        /\ mem' \in Seq(Seq(ContributionType))
        /\ Len(mem') = Len(mem) - 1
        /\ \A i \in 1 .. Len(mem') : mem'[i] = mem[i + 1]
    BY <2>1, <2>2
  <2>4. mem' = << >> <=> Len(mem) = 1
    <3>1. mem' = << >> <=> Len(mem') = 0
      BY <2>3, EmptyLength
    <3>2. Len(mem') = 0 <=> Len(mem) = 1
      BY <2>2, <2>3
    <3>3. QED
      BY <3>1, <3>2
  <2>5. LastDone' = LastDone
    BY <2>2, <2>3, <2>4 DEF LastDone
  <2>6. mem' # << >> => Continues(q', mem'[1])
    <3> SUFFICES ASSUME mem' # << >> PROVE Continues(q', mem'[1])
      OBVIOUS
    <3>1. 1 \in 1 .. Len(mem) - 1 /\ 1 \in 1 .. Len(mem')
      BY <2>2, <2>3, <2>4
    <3>2. Continues(mem[1], mem[1 + 1])
      BY <3>1 DEF QueueContinues
    <3>3. mem'[1] = mem[1 + 1]
      BY <2>3, <3>1
    <3>4. QED
      BY <2>3, <3>2, <3>3
  <2>7. ASSUME NEW i \in 1 .. Len(mem') - 1 PROVE Continues(mem'[i], mem'[i + 1])
    <3>1. /\ i + 1 \in 1 .. Len(mem) - 1 /\ i \in 1 .. Len(mem')
          /\ i + 1 \in 1 .. Len(mem')
      BY <2>2, <2>3
    <3>2. Continues(mem[i + 1], mem[(i + 1) + 1])
      BY <3>1 DEF QueueContinues
    <3>3. mem'[i] = mem[i + 1] /\ mem'[i + 1] = mem[(i + 1) + 1]
      BY <2>3, <3>1
    <3>4. QED
      BY <3>2, <3>3
  <2>8. QED
    BY <2>5, <2>6, <2>7 DEF QueueContinues
<1>3. QED
  BY <1>1, <1>2

LEMMA StreamRead ==
  ASSUME FifoTypeOK, StreamInv, ReadSide
  PROVE  StreamInv'
<1>1. QueueContinues' /\ LastDone' = LastDone
  BY ReadContinues DEF StreamInv
<1>2. UNCHANGED <<ctrl_reg, phase_reg, TONE, state, KEY>>
  BY DEF ReadSide, vars
<1>3. Mixed' = Mixed /\ Scanned' = Scanned
  BY <1>2 DEF Mixed, Scanned
<1>4. MixedAdvanced' /\ WaitingAdvanced'
  BY <1>1, <1>2, <1>3 DEF StreamInv, MixedAdvanced, WaitingAdvanced, NextIs
<1>5. QED
  BY <1>1, <1>2, <1>4 DEF StreamInv

(* A visit of a sounding key: its contribution was read at the phase its   *)
(* last one left, and its phase moves one step on.                         *)
LEMMA StreamKeyOn ==
  ASSUME TypeOK, ScanInv, FifoTypeOK, StreamInv, NEW b \in BusOps, KeyOn(b), UNCHANGED fifoVars
  PROVE  QueueContinues' /\ Continues(LastDone, TONE)' /\ MixedAdvanced' /\ WaitingAdvanced'
<1> DEFINE next == AMP_MUX_O(amp_reg[KEY], play_reg[KEY], ctrl_reg)
           mixed == Contribution(KEY, table_addr, next, vel_reg[KEY])
           phase == phase_reg[KEY]
<1>1. /\ TONE' = Append(TONE, mixed)
      /\ phase_reg' = [phase_reg EXCEPT ![KEY] = PHASE_INC(@, F[KEY], ctrl_reg)]
      /\ state' = AfterKey /\ KEY' = NEXT_KEY /\ state = "key_on"
  BY DEF KeyOn
<1>2. Scanned = 0 .. KEY - 1 /\ Scanned' = 0 .. KEY
  BY <1>1, AdvanceScan
<1>3. KEY \in Keys /\ Keys \subseteq Nat /\ KEY \notin Scanned /\ KEY \in Scanned'
  BY <1>2 DEF TypeOK, Keys
<1>4. KEY \notin Mixed
  BY <1>3 DEF ScanInv, MixedInOrder
<1>5. /\ phase \in Phases /\ table_addr = ADDR(phase)
      /\ phase_reg'[KEY] = (phase + F[KEY]) % PhaseMod
      /\ \A k \in Keys \ {KEY} : phase_reg'[k] = phase_reg[k]
  <2>1. ~BEND_MUX(ctrl_reg)
    BY DEF StreamInv, Unbent
  <2>2. phase_reg'[KEY] = PHASE_INC(phase, F[KEY], ctrl_reg)
    BY <1>1 DEF TypeOK
  <2>3. phase_reg'[KEY] = (phase + F[KEY]) % PhaseMod
    BY <2>1, <2>2 DEF PHASE_INC
  <2>4. QED
    BY <1>1, <2>3 DEF TypeOK, ScanInv, SampleIsOwn
<1>6. /\ TONE \in Seq(ContributionType) /\ mixed \in ContributionType
      /\ mixed.key = KEY /\ mixed.addr = table_addr
  <2>1. next \in Amps
    BY MuxType DEF TypeOK
  <2>2. QED
    BY <2>1 DEF TypeOK, Contribution, ContributionType
<1> HIDE DEF mixed, phase
<1>7. ASSUME NEW k \in Keys, NEW a \in AddrIn(TONE', k)
      PROVE  (k # KEY /\ k \in Mixed /\ a \in AddrIn(TONE, k)) \/ (k = KEY /\ a = table_addr)
  <2>1. a \in AddrIn(Append(TONE, mixed), k)
    BY <1>1, <1>7
  <2>2. CASE a \in AddrIn(TONE, k)
    BY <1>4, <2>2, AddrMixed
  <2>3. CASE k = KEY /\ a = table_addr
    BY <2>3
  <2>4. QED
    BY <1>6, <2>1, <2>2, <2>3, AddrAppend
<1>8. LastDone' = LastDone /\ QueueContinues'
  BY DEF fifoVars, LastDone, QueueContinues, StreamInv
<1>9. Continues(LastDone, TONE')
  <2>1. ASSUME NEW k \in Keys, NEW a \in AddrIn(LastDone, k), NEW a2 \in AddrIn(TONE', k)
        PROVE  OneStepOn(k, a, a2)
    <3>1. CASE a2 \in AddrIn(TONE, k)
      BY <3>1 DEF StreamInv, Continues
    <3>2. CASE k = KEY /\ a2 = table_addr
      <4>1. NextIs(KEY, a)
        BY <1>3, <3>2 DEF StreamInv, WaitingAdvanced
      <4>2. QED
        BY <1>5, <3>2, <4>1 DEF NextIs, OneStepOn, phase
    <3>3. QED
      BY <1>7, <3>1, <3>2
  <2>2. QED
    BY <2>1 DEF Continues
<1>10. MixedAdvanced'
  <2>1. ASSUME NEW k \in Mixed', NEW a \in AddrIn(TONE', k)
        PROVE  NextIs(k, a)'
    <3>1. k \in Keys
      <4>1. TONE' \in Seq(ContributionType)
        BY <1>1, <1>6
      <4>2. QED
        BY <4>1, KeysOfSample DEF Mixed
    <3>2. CASE k # KEY /\ k \in Mixed /\ a \in AddrIn(TONE, k)
      <4>1. NextIs(k, a)
        BY <3>2 DEF StreamInv, MixedAdvanced
      <4>2. QED
        BY <1>5, <3>1, <3>2, <4>1 DEF NextIs
    <3>3. CASE k = KEY /\ a = table_addr
      BY <1>5, <3>3 DEF NextIs
    <3>4. QED
      BY <1>7, <3>1, <3>2, <3>3
  <2>2. QED
    BY <2>1 DEF MixedAdvanced
<1>11. WaitingAdvanced'
  <2>1. ASSUME NEW k \in Keys \ Scanned', NEW a \in AddrIn(LastDone', k)
        PROVE  NextIs(k, a)'
    <3>1. k \in Keys \ Scanned /\ k # KEY /\ a \in AddrIn(LastDone, k)
      BY <1>2, <1>3, <1>8
    <3>2. NextIs(k, a)
      BY <3>1 DEF StreamInv, WaitingAdvanced
    <3>3. QED
      BY <1>5, <3>1, <3>2 DEF NextIs
  <2>2. QED
    BY <2>1 DEF WaitingAdvanced
<1>12. QED
  BY <1>8, <1>9, <1>10, <1>11

(* A visit of an idle key clears a phase nothing refers to any more.       *)
LEMMA StreamKeyOff ==
  ASSUME TypeOK, ScanInv, FifoTypeOK, StreamInv, NEW b \in BusOps, KeyOff(b), UNCHANGED fifoVars
  PROVE  QueueContinues' /\ Continues(LastDone, TONE)' /\ MixedAdvanced' /\ WaitingAdvanced'
<1>1. /\ TONE' = TONE /\ phase_reg' = [phase_reg EXCEPT ![KEY] = 0]
      /\ state' = AfterKey /\ KEY' = NEXT_KEY /\ state = "key_off"
  BY DEF KeyOff
<1>2. Scanned = 0 .. KEY - 1 /\ Scanned' = 0 .. KEY
  BY <1>1, AdvanceScan
<1>3. KEY \in Keys /\ Keys \subseteq Nat /\ KEY \notin Mixed
  BY <1>2 DEF TypeOK, Keys, ScanInv, MixedInOrder
<1>4. /\ \A k \in Keys \ {KEY} : phase_reg'[k] = phase_reg[k]
      /\ Mixed' = Mixed /\ Mixed \subseteq Keys
  BY <1>1, KeysOfSample DEF TypeOK, Mixed
<1>5. LastDone' = LastDone /\ QueueContinues' /\ Continues(LastDone, TONE)'
  BY <1>1 DEF fifoVars, LastDone, QueueContinues, StreamInv
<1>6. MixedAdvanced'
  <2>1. ASSUME NEW k \in Mixed, NEW a \in AddrIn(TONE, k) PROVE NextIs(k, a)'
    <3>1. NextIs(k, a) /\ k \in Keys \ {KEY}
      BY <1>3, <1>4 DEF StreamInv, MixedAdvanced
    <3>2. QED
      BY <1>4, <3>1 DEF NextIs
  <2>2. QED
    BY <1>1, <1>4, <2>1 DEF MixedAdvanced
<1>7. WaitingAdvanced'
  <2>1. ASSUME NEW k \in Keys \ Scanned', NEW a \in AddrIn(LastDone, k) PROVE NextIs(k, a)'
    <3>1. k \in Keys \ Scanned /\ k # KEY
      BY <1>2, <1>3
    <3>2. NextIs(k, a)
      BY <3>1 DEF StreamInv, WaitingAdvanced
    <3>3. QED
      BY <1>4, <3>1, <3>2 DEF NextIs
  <2>2. QED
    BY <1>5, <2>1 DEF WaitingAdvanced
<1>8. QED
  BY <1>5, <1>6, <1>7

(* The finished sample joins the queue, where it follows its predecessor,  *)
(* and the scan starts again with every phase one step past it.            *)
LEMMA StreamWrite ==
  ASSUME TypeOK, ScanInv, FifoTypeOK, RoomInv, StreamInv, NEW b \in BusOps, WrClock(b), LD_FIFO
  PROVE  QueueContinues' /\ Continues(LastDone, TONE)' /\ MixedAdvanced' /\ WaitingAdvanced'
<1>1. mem' = Append(mem, TONE) /\ q' = q
  BY WriteSideWrite
<1>2. TONE' = << >> /\ phase_reg' = phase_reg
  BY DEF WrClock, LD_FIFO, Clock, Halted, Start, CheckKey, KeyOn, KeyOff, Write
<1>3. mem \in Seq(Seq(ContributionType)) /\ TONE \in Seq(ContributionType)
  BY DEF FifoTypeOK, TypeOK
<1>4. /\ Len(mem) \in Nat /\ Len(mem') = Len(mem) + 1 /\ mem' # << >>
      /\ mem'[Len(mem) + 1] = TONE
      /\ \A i \in 1 .. Len(mem) : mem'[i] = mem[i]
  BY <1>1, <1>3
<1>5. LastDone' = TONE
  BY <1>4 DEF LastDone
<1>6. mem = << >> <=> Len(mem) = 0
  BY <1>3
<1>7. Continues(q', mem'[1])
  <2>1. CASE mem = << >>
    <3>1. LastDone = q /\ mem'[1] = TONE
      BY <2>1, <1>4, <1>6 DEF LastDone
    <3>2. QED
      BY <1>1, <3>1 DEF StreamInv
  <2>2. CASE mem # << >>
    <3>1. mem'[1] = mem[1]
      BY <2>2, <1>4, <1>6
    <3>2. QED
      BY <1>1, <2>2, <3>1 DEF StreamInv, QueueContinues
  <2>3. QED
    BY <2>1, <2>2
<1>8. ASSUME NEW i \in 1 .. Len(mem') - 1 PROVE Continues(mem'[i], mem'[i + 1])
  <2>1. CASE i = Len(mem)
    <3>1. mem # << >> /\ mem'[i] = LastDone /\ mem'[i + 1] = TONE
      BY <2>1, <1>4, <1>6, <1>8 DEF LastDone
    <3>2. QED
      BY <3>1 DEF StreamInv
  <2>2. CASE i # Len(mem)
    <3>1. i \in 1 .. Len(mem) - 1 /\ i \in 1 .. Len(mem) /\ i + 1 \in 1 .. Len(mem)
      BY <2>2, <1>4, <1>8
    <3>2. mem'[i] = mem[i] /\ mem'[i + 1] = mem[i + 1]
      BY <1>4, <3>1
    <3>3. QED
      BY <3>1, <3>2 DEF StreamInv, QueueContinues
  <2>3. QED
    BY <2>1, <2>2
<1>9. QueueContinues'
  BY <1>7, <1>8 DEF QueueContinues
<1>10. Continues(LastDone, TONE)' /\ MixedAdvanced'
  BY <1>2, AddrNone DEF Continues, MixedAdvanced
<1>11. WaitingAdvanced'
  <2>1. ASSUME NEW k \in Keys, NEW a \in AddrIn(TONE, k) PROVE NextIs(k, a)'
    <3>1. NextIs(k, a)
      BY AddrMixed DEF StreamInv, MixedAdvanced
    <3>2. QED
      BY <1>2, <3>1 DEF NextIs
  <2>2. QED
    BY <1>5, <2>1 DEF WaitingAdvanced
<1>12. QED
  BY <1>9, <1>10, <1>11

(* Every other edge of the engine leaves samples, phases and the scan.     *)
LEMMA StreamIdle ==
  ASSUME TypeOK, ScanInv, StreamInv, NEW b \in BusOps,
         Halted(b) \/ Start(b, wrfull) \/ CheckKey(b), UNCHANGED fifoVars
  PROVE  QueueContinues' /\ Continues(LastDone, TONE)' /\ MixedAdvanced' /\ WaitingAdvanced'
<1>1. UNCHANGED <<TONE, phase_reg, KEY>> /\ state # "write" /\ state' # "write"
  BY DEF Halted, Start, CheckKey
<1>2. Scanned' = Scanned /\ Mixed' = Mixed
  BY <1>1 DEF Scanned, Mixed
<1>3. LastDone' = LastDone /\ QueueContinues' /\ Continues(LastDone, TONE)'
  BY <1>1 DEF fifoVars, LastDone, QueueContinues, StreamInv
<1>4. MixedAdvanced' /\ WaitingAdvanced'
  BY <1>1, <1>2, <1>3 DEF StreamInv, MixedAdvanced, WaitingAdvanced, NextIs
<1>5. QED
  BY <1>3, <1>4

LEMMA StreamStep ==
  ASSUME NoBend, TypeOK, ScanInv, FifoTypeOK, RoomInv, StreamInv, [PathNext]_pathVars
  PROVE  StreamInv'
<1>1. CASE UNCHANGED pathVars
  BY <1>1 DEF pathVars, vars, fifoVars, StreamInv, QueueContinues, LastDone, MixedAdvanced,
              WaitingAdvanced, NextIs, Mixed, Scanned
<1>2. ASSUME NEW b \in BusOps, WrClock(b) PROVE StreamInv'
  <2>1. Clock(b, wrfull)
    BY <1>2 DEF WrClock
  <2>2. Unbent(ctrl_reg')
    <3>1. PICK play : BusEdge(b, play)
      BY <2>1 DEF Clock, Halted, Start, CheckKey, KeyOn, KeyOff, Write
    <3>2. QED
      BY <3>1, UnbentStays DEF StreamInv
  <2>3. ~LD_FIFO => UNCHANGED fifoVars
    BY <1>2 DEF WrClock
  <2>4. QueueContinues' /\ Continues(LastDone, TONE)' /\ MixedAdvanced' /\ WaitingAdvanced'
    <3>1. CASE LD_FIFO
      BY <1>2, <3>1, StreamWrite
    <3>2. CASE ~LD_FIFO
      BY <2>1, <2>3, <3>2, StreamIdle, StreamKeyOn, StreamKeyOff DEF Clock, Write, LD_FIFO
    <3>3. QED
      BY <3>1, <3>2
  <2>5. QED
    BY <2>2, <2>4 DEF StreamInv
<1>3. QED
  BY <1>1, <1>2, StreamRead DEF PathNext

LEMMA StreamStart ==
  ASSUME Unbent(CtrlInit), PathInit
  PROVE  StreamInv
<1>1. mem = << >> /\ q = << >> /\ TONE = << >> /\ ctrl_reg = CtrlInit
  BY DEF PathInit, Init, FifoInit, Silence
<1>2. Len(mem) = 0 /\ LastDone = << >>
  BY <1>1 DEF LastDone
<1>3. QED
  BY <1>1, <1>2, AddrNone
     DEF StreamInv, QueueContinues, Continues, MixedAdvanced, WaitingAdvanced

(* The members of the stream, one behind the other.                        *)
LEMMA StreamParts ==
  ASSUME NEW S, NEW x \in S, NEW m \in Seq(S), NEW e \in Seq(S),
         e = << >> \/ Len(e) = 1
  PROVE  /\ Len(<<x>> \o m \o e) = 1 + Len(m) + Len(e)
         /\ (<<x>> \o m \o e)[1] = x
         /\ \A i \in 1 .. Len(m) : (<<x>> \o m \o e)[i + 1] = m[i]
         /\ Len(e) = 1 => (<<x>> \o m \o e)[Len(m) + 2] = e[1]
  OBVIOUS

LEMMA InnerIndex ==
  ASSUME NEW n \in Nat, NEW e \in 0 .. 1, NEW i \in 1 .. n + e, i # n + 1, i # 1
  PROVE  /\ i - 1 \in 1 .. n - 1 /\ i - 1 \in 1 .. n /\ i \in 1 .. n
         /\ (i - 1) + 1 = i
  OBVIOUS

LEMMA StreamFollows ==
  ASSUME TypeOK, FifoTypeOK, StreamInv
  PROVE  StreamContiguous
<1> DEFINE S == Seq(ContributionType)
           end == IF state = "write" THEN <<TONE>> ELSE << >>
<1>1. /\ q \in S /\ mem \in Seq(S) /\ TONE \in S /\ Len(mem) \in Nat
      /\ (mem = << >> <=> Len(mem) = 0)
  BY DEF TypeOK, FifoTypeOK
<1>2. /\ end \in Seq(S) /\ Len(end) \in Nat /\ (end = << >> \/ Len(end) = 1)
      /\ (Len(end) = 1 => end[1] = TONE) /\ (Len(end) # 1 => Len(end) = 0)
  BY <1>1
<1>3. Stream = <<q>> \o mem \o end
  BY DEF Stream
<1> HIDE DEF end, S
<1>4. /\ Len(Stream) = 1 + Len(mem) + Len(end) /\ Stream[1] = q
      /\ \A i \in 1 .. Len(mem) : Stream[i + 1] = mem[i]
      /\ Len(end) = 1 => Stream[Len(mem) + 2] = TONE
  BY <1>1, <1>2, <1>3, StreamParts
<1>5. ASSUME NEW i \in 1 .. Len(Stream) - 1
      PROVE  Continues(Stream[i], Stream[i + 1])
  <2>1. CASE i = Len(mem) + 1
    <3>1. Len(end) = 1 /\ Stream[i + 1] = TONE
      BY <1>1, <1>2, <1>4, <1>5, <2>1
    <3>2. Stream[i] = LastDone
      BY <1>1, <1>4, <2>1 DEF LastDone
    <3>3. QED
      BY <3>1, <3>2 DEF StreamInv
  <2>2. CASE i # Len(mem) + 1 /\ i = 1
    <3>1. 1 \in 1 .. Len(mem) /\ mem # << >>
      BY <1>1, <1>2, <1>4, <1>5, <2>2
    <3>2. Stream[1 + 1] = mem[1]
      BY <1>4, <3>1
    <3>3. QED
      BY <1>4, <2>2, <3>1, <3>2 DEF StreamInv, QueueContinues
  <2>3. CASE i # Len(mem) + 1 /\ i # 1
    <3>1. /\ i - 1 \in 1 .. Len(mem) - 1 /\ i - 1 \in 1 .. Len(mem) /\ i \in 1 .. Len(mem)
          /\ (i - 1) + 1 = i
      <4>1. Len(end) \in 0 .. 1
        BY <1>2
      <4>2. i \in 1 .. Len(mem) + Len(end)
        BY <1>1, <1>2, <1>4, <1>5
      <4>3. QED
        BY <1>1, <2>3, <4>1, <4>2, InnerIndex
    <3>2. Stream[i] = mem[i - 1] /\ Stream[i + 1] = mem[i]
      BY <1>4, <3>1
    <3>3. Continues(mem[i - 1], mem[(i - 1) + 1])
      BY <3>1 DEF StreamInv, QueueContinues
    <3>4. QED
      BY <3>1, <3>2, <3>3
  <2>4. QED
    BY <2>1, <2>2, <2>3
<1>6. QED
  BY <1>5 DEF StreamContiguous

(* While the bend is off, the reader hears every voice without a break:    *)
(* from the phase register through the FIFO to the read port, samples that *)
(* follow each other hold a key one phase step apart, for every number of  *)
(* keys, table of steps, depth of the FIFO and lag of the two clocks.      *)
THEOREM StreamUnbroken ==
  ASSUME NoBend, Unbent(CtrlInit)
  PROVE  PathSpec => []StreamContiguous
<1>1. PathInit => StreamInv
  BY StreamStart
<1>2. TypeOK /\ ScanInv /\ FifoTypeOK /\ RoomInv /\ StreamInv /\ [PathNext]_pathVars
        => FifoTypeOK' /\ RoomInv' /\ StreamInv'
  BY FifoStep, StreamStep
<1>3. TypeOK /\ ScanInv /\ FifoTypeOK /\ RoomInv /\ StreamInv => StreamContiguous
  BY StreamFollows
<1>4. QED
  BY <1>1, <1>2, <1>3, FifoStart, EngineTypes, PTL DEF PathSpec
=============================================================================
