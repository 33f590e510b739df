-------------------------- MODULE I2CMaster_proofs --------------------------
(***************************************************************************)
(* Every attempt of a transaction begins with a core at rest and nothing   *)
(* left over, and what the program was told of the codec's registers is so,*)
(* for every script, depth of the FIFO and number of attempts.             *)
(***************************************************************************)
EXTENDS I2CMaster, SequenceTheorems, TLAPS

-----------------------------------------------------------------------------
(* Sequences of whatever elements                                          *)

IsSeq(s) == s \in Seq(Range(s))

LEMMA SeqIs ==
  ASSUME NEW S, NEW s \in Seq(S)
  PROVE  IsSeq(s)
<1>1. Len(s) \in Nat /\ s \in [1 .. Len(s) -> S] /\ DOMAIN s = 1 .. Len(s)
  BY LenProperties
<1>2. s \in [1 .. Len(s) -> Range(s)]
  BY <1>1 DEF Range
<1>3. QED
  BY <1>1, <1>2 DEF IsSeq

LEMMA SeqWider ==
  ASSUME NEW s, IsSeq(s), NEW T, Range(s) \subseteq T
  PROVE  s \in Seq(T)
<1>1. Len(s) \in Nat /\ s \in [1 .. Len(s) -> Range(s)]
  BY LenProperties DEF IsSeq
<1>2. s \in [1 .. Len(s) -> T]
  BY <1>1
<1>3. QED
  BY <1>1, <1>2

LEMMA LenIs ==
  ASSUME NEW s, IsSeq(s)
  PROVE  Len(s) \in Nat /\ (Len(s) = 0 <=> s = <<>>)
BY LenProperties, EmptySeq DEF IsSeq

LEMMA EmptyIs == IsSeq(<<>>) /\ Len(<<>>) = 0
BY SeqIs, EmptySeq

LEMMA AppendIs ==
  ASSUME NEW s, IsSeq(s), NEW x
  PROVE  /\ IsSeq(Append(s, x)) /\ Len(Append(s, x)) = Len(s) + 1
         /\ \A i \in 1 .. Len(s) : Append(s, x)[i] = s[i]
         /\ Append(s, x)[Len(s) + 1] = x
<1>1. s \in Seq(Range(s) \cup {x})
  BY SeqWider
<1>2. ASSUME NEW S, s \in Seq(S), x \in S
      PROVE  /\ Append(s, x) \in Seq(S) /\ Len(Append(s, x)) = Len(s) + 1
             /\ \A i \in 1 .. Len(s) : Append(s, x)[i] = s[i]
             /\ Append(s, x)[Len(s) + 1] = x
  BY <1>2, AppendProperties
<1>3. Append(s, x) \in Seq(Range(s) \cup {x})
  BY <1>1, <1>2
<1>4. QED
  BY <1>1, <1>2, <1>3, SeqIs

LEMMA ConcatIs ==
  ASSUME NEW s, IsSeq(s), NEW t, IsSeq(t)
  PROVE  /\ IsSeq(s \o t) /\ Len(s \o t) = Len(s) + Len(t)
         /\ \A i \in 1 .. Len(s) + Len(t) :
              (s \o t)[i] = IF i <= Len(s) THEN s[i] ELSE t[i - Len(s)]
<1>1. s \in Seq(Range(s) \cup Range(t)) /\ t \in Seq(Range(s) \cup Range(t))
  BY SeqWider
<1>2. QED
  BY <1>1, ConcatProperties, SeqIs

LEMMA TailIs ==
  ASSUME NEW s, IsSeq(s), s # <<>>
  PROVE  /\ IsSeq(Tail(s)) /\ Len(Tail(s)) = Len(s) - 1 /\ Head(s) = s[1]
         /\ \A i \in 1 .. Len(Tail(s)) : Tail(s)[i] = s[i + 1]
<1>1. s \in Seq(Range(s))
  BY DEF IsSeq
<1>2. /\ Tail(s) \in Seq(Range(s)) /\ Len(Tail(s)) = Len(s) - 1
      /\ \A i \in 1 .. Len(Tail(s)) : Tail(s)[i] = s[i + 1]
  BY <1>1, HeadTailProperties
<1>3. IsSeq(Tail(s))
  BY <1>2, SeqIs
<1>4. Head(s) = s[1]
  OBVIOUS
<1>5. QED
  BY <1>2, <1>3, <1>4

-----------------------------------------------------------------------------
(* The commands of a transaction, numbered from its first byte on          *)

Reads == call.op = "read"
Whole == IF Reads THEN 6 ELSE 5
Written == IF phase = "receive" THEN 3 + n ELSE n
Popped == Written - Len(txfifo)

\* Command k of a transaction: the last carries the stop, the restart and the
\* two address bytes are where they should be.
Fits(cmd, k) ==
  /\ cmd.stop <=> k = Whole
  /\ cmd.restart <=> Reads /\ k = 4
  /\ k = 1 => cmd.byte = 0
  /\ Reads /\ k = 4 => cmd.byte = 1

Count == IF Reads THEN 3 ELSE 5

LEMMA TransmitIs ==
  ASSUME phase = "transmit", call.op \in {"read", "write"}
  PROVE  /\ Len(Commands) = Count
         /\ Commands[1] = Cmd(0, FALSE, FALSE)
         /\ \A i \in 1 .. Count - 1 :
              Commands[i + 1] = Cmd(txbuffer[i], FALSE, call.op = "write" /\ i = Len(txbuffer))
<1> DEFINE bytes == [i \in DOMAIN txbuffer |->
                      Cmd(txbuffer[i], FALSE, call.op = "write" /\ i = Len(txbuffer))]
<1>1. DOMAIN txbuffer = 1 .. Count - 1 /\ Len(txbuffer) = Count - 1 /\ Count \in Nat \ {0}
  <2>1. CASE Reads
    BY <2>1 DEF txbuffer, Count, Reads
  <2>2. CASE ~Reads
    BY <2>2 DEF txbuffer, Count, Reads
  <2>3. QED
    BY <2>1, <2>2
<1>2. Commands = <<Cmd(0, FALSE, FALSE)>> \o bytes
  BY DEF Commands, Transmit
<1>3. IsSeq(bytes) /\ Len(bytes) = Count - 1
  <2>1. bytes \in [1 .. Count - 1 -> Range(bytes)]
    BY <1>1 DEF Range
  <2>2. Count - 1 \in Nat
    BY <1>1
  <2> HIDE DEF bytes
  <2>3. bytes \in Seq(Range(bytes))
    BY <2>1, <2>2, IsASeq
  <2>4. Len(bytes) = Count - 1
    BY <2>1, <2>2, <2>3, LenProperties
  <2>5. QED
    BY <2>3, <2>4 DEF IsSeq
<1>4. IsSeq(<<Cmd(0, FALSE, FALSE)>>)
  <2>1. <<Cmd(0, FALSE, FALSE)>> \in Seq({Cmd(0, FALSE, FALSE)})
    OBVIOUS
  <2>2. QED
    BY <2>1, SeqIs
<1>5. Len(<<Cmd(0, FALSE, FALSE)>>) = 1
  OBVIOUS
<1> HIDE DEF bytes
<1>6. QED
  <2>1. /\ Len(<<Cmd(0, FALSE, FALSE)>> \o bytes) = Count
        /\ (<<Cmd(0, FALSE, FALSE)>> \o bytes)[1] = Cmd(0, FALSE, FALSE)
        /\ \A i \in 1 .. Count - 1 :
             (<<Cmd(0, FALSE, FALSE)>> \o bytes)[i + 1] = bytes[i]
    BY <1>1, <1>3, <1>4, <1>5, ConcatIs
  <2>2. \A i \in 1 .. Count - 1 :
          bytes[i] = Cmd(txbuffer[i], FALSE, call.op = "write" /\ i = Len(txbuffer))
    BY <1>1 DEF bytes
  <2>3. QED
    BY <1>2, <2>1, <2>2

LEMMA CommandsCount ==
  ASSUME call.op \in {"read", "write"}, phase \in {"transmit", "receive"},
         phase = "receive" => Reads
  PROVE  Len(Commands) = Count
<1>1. CASE phase = "receive"
  BY <1>1 DEF Commands, Receive, Count
<1>2. CASE phase = "transmit"
  BY <1>2, TransmitIs
<1>3. QED
  BY <1>1, <1>2

LEMMA CommandsFit ==
  ASSUME call.op \in {"read", "write"}, phase \in {"transmit", "receive"},
         phase = "receive" => Reads, n \in Nat, n < Count
  PROVE  Fits(Commands[n + 1], Written + 1)
<1>1. CASE phase = "receive"
  <2>1. n \in {0, 1, 2}
    BY <1>1 DEF Count
  <2>2. Commands = <<Cmd(1, TRUE, FALSE), Cmd(0, FALSE, FALSE), Cmd(0, FALSE, TRUE)>>
    BY <1>1 DEF Commands, Receive
  <2>3. QED
    BY <1>1, <2>1, <2>2 DEF Fits, Cmd, Reads, Whole, Written
<1>2. CASE phase = "transmit" /\ n = 0
  BY <1>2, TransmitIs DEF Fits, Cmd, Reads, Whole, Written
<1>3. CASE phase = "transmit" /\ n # 0
  <2>1. n \in 1 .. Count - 1 /\ Count - 1 \in Nat
    BY <1>3 DEF Count
  <2>2. Commands[n + 1] = Cmd(txbuffer[n], FALSE, call.op = "write" /\ n = Len(txbuffer))
    BY <1>3, <2>1, TransmitIs
  <2>3. /\ ~Commands[n + 1].restart
        /\ Commands[n + 1].stop <=> call.op = "write" /\ n = Len(txbuffer)
    <3>1. CASE call.op = "write" /\ n = Len(txbuffer)
      <4>1. Commands[n + 1] = Cmd(txbuffer[n], FALSE, TRUE)
        BY <2>2, <3>1
      <4>2. QED
        BY <3>1, <4>1 DEF Cmd
    <3>2. CASE ~(call.op = "write" /\ n = Len(txbuffer))
      <4>1. Commands[n + 1] = Cmd(txbuffer[n], FALSE, FALSE)
        BY <2>2, <3>2
      <4>2. QED
        BY <3>2, <4>1 DEF Cmd
    <3>3. QED
      BY <3>1, <3>2
  <2>4. Len(txbuffer) = Count - 1
    BY DEF txbuffer, Count, Reads
  <2>5. Written = n /\ n \in Nat /\ n # 0
    BY <1>3 DEF Written
  <2>6. CASE Reads
    BY <2>1, <2>3, <2>4, <2>5, <2>6 DEF Fits, Whole, Reads, Count
  <2>7. CASE ~Reads
    BY <2>1, <2>3, <2>4, <2>5, <2>7 DEF Fits, Whole, Reads, Count
  <2>8. QED
    BY <2>6, <2>7
<1>4. QED
  BY <1>1, <1>2, <1>3

-----------------------------------------------------------------------------
(* The invariant                                                           *)

Working == pc \in {"cmd", "check", "read", "end"}

DriverOK ==
  /\ pc \in {"idle", "enable", "cmd", "check", "read", "end"}
  /\ phase \in {"transmit", "receive"} /\ pos \in Nat \ {0}
  /\ pc # "idle" => call.op \in {"read", "write"}
  /\ Working => /\ n \in 0 .. Count
                /\ phase = "receive" => Reads
                /\ pc = "cmd" => n < Count
                /\ pc = "read" => phase = "receive" /\ n = Count

ChipOK ==
  /\ nack_det \in BOOLEAN /\ arblost_det \in BOOLEAN
  /\ IsSeq(txfifo) /\ IsSeq(rxfifo) /\ IsSeq(rbuf)

\* Between transactions.
AtRest == ~en /\ core = "IDLE" /\ txfifo = <<>> /\ rxfifo = <<>>

\* After a refusal or a lost byte the core only goes to rest.
Flushed == txfifo = <<>> /\ rxfifo = <<>> /\ core \in {"GEN_STOP", "PRE_IDLE"}

\* How far the core is with the commands it has popped.
Place ==
  \/ core = "PRE_START" /\ Popped = 0
  \/ core = "GEN_7BIT_ADDR" /\ (Popped = 1 \/ (Reads /\ Popped = 4)) /\ Fits(tfr, Popped)
  \/ core = "BUS_HOLD" /\ Popped >= 1 /\ Popped < Whole /\ (rw = 0 <=> ~(Reads /\ Popped >= 4))
  \/ core = "TX_BYTE" /\ Popped >= 2 /\ (Reads => Popped <= 3) /\ rw = 0
     /\ Fits(tfr, Popped)
  \/ core = "RX_BYTE" /\ Reads /\ Popped >= 5 /\ rw # 0 /\ Fits(tfr, Popped)
  \/ core \in {"GEN_STOP", "PRE_IDLE"} /\ Popped = Whole

\* The bytes that have come back.
Came == IF Reads /\ Popped >= 5 THEN Popped - 4 - (IF core = "RX_BYTE" THEN 1 ELSE 0) ELSE 0

UnderWay ==
  /\ Popped >= 0
  /\ Place
  /\ \A i \in 1 .. Len(txfifo) : Fits(txfifo[i], Popped + i)
  /\ Len(rbuf) + Len(rxfifo) = Came
  /\ pc = "end" => Written = Whole /\ (Reads => Len(rbuf) = 2)

RestInv ==
  /\ DriverOK /\ ChipOK
  /\ ~Working => AtRest
  /\ Working => en /\ (IF flush THEN Flushed ELSE UnderWay)

LEMMA RestStart == Init => RestInv
<1>1. SUFFICES ASSUME Init PROVE RestInv
  OBVIOUS
<1>2. /\ pc = "idle" /\ phase = "transmit" /\ pos = 1 /\ nack_det = FALSE
      /\ arblost_det = FALSE /\ txfifo = <<>> /\ rxfifo = <<>> /\ rbuf = <<>>
      /\ en = FALSE /\ core = "IDLE"
  BY <1>1 DEF Init
<1>3. ~Working /\ AtRest
  BY <1>2 DEF Working, AtRest
<1>4. DriverOK
  BY <1>2, <1>3 DEF DriverOK
<1>5. ChipOK
  BY <1>2, EmptyIs DEF ChipOK
<1>6. QED
  BY <1>3, <1>4, <1>5 DEF RestInv

-----------------------------------------------------------------------------
(* The caller                                                              *)

LEMMA BeginKeeps ==
  ASSUME RestInv, NEW access, access.op \in {"read", "write"}, Begin(access),
         pos' \in Nat \ {0}
  PROVE  RestInv'
<1>1. /\ pc = "idle" /\ pc' = "enable" /\ call' = access
      /\ UNCHANGED <<phase, rbuf, en, core, txfifo, rxfifo, nack_det, arblost_det>>
  BY DEF Begin, chip, fifos
<1>2. AtRest /\ AtRest'
  BY <1>1 DEF RestInv, Working, AtRest
<1>3. DriverOK' /\ ChipOK'
  BY <1>1 DEF RestInv, DriverOK, ChipOK, Working
<1>4. ~Working'
  BY <1>1 DEF Working
<1>5. QED
  BY <1>2, <1>3, <1>4 DEF RestInv

LEMMA CallerKeeps ==
  ASSUME RestInv, Caller
  PROVE  RestInv'
<1>1. CASE NextOfScript
  <2>1. pos \in 1 .. Len(Script) /\ pos' = pos + 1 /\ pos \in Nat
    BY <1>1, I2CAssumption, LenProperties DEF NextOfScript, RestInv, DriverOK
  <2>2. Script[pos] \in Accesses
    BY <2>1, I2CAssumption
  <2>3. Script[pos].op \in {"read", "write"}
    BY <2>2 DEF Accesses
  <2>4. QED
    BY <1>1, <2>1, <2>3, BeginKeeps DEF NextOfScript
<1>2. ASSUME NEW vol \in Volumes, vol_change(vol)
      PROVE  RestInv'
  <2> DEFINE access == Write(ANA_HP_CTRL, <<HP_MIN_VOL - vol, HP_MIN_VOL - vol>>)
  <2>1. access.op = "write"
    BY DEF Write
  <2>2. Begin(access) /\ pos' = pos
    BY <1>2 DEF vol_change
  <2>3. QED
    BY <2>1, <2>2, BeginKeeps DEF RestInv, DriverOK
<1>3. QED
  BY <1>1, <1>2 DEF Caller

-----------------------------------------------------------------------------
(* The driver                                                              *)

LEMMA EnableKeeps ==
  ASSUME RestInv, Enable
  PROVE  RestInv'
<1>1. /\ pc = "enable" /\ ~en /\ core = "IDLE" /\ txfifo = <<>> /\ rxfifo = <<>>
      /\ call.op \in {"read", "write"}
  BY DEF Enable, RestInv, Working, AtRest, DriverOK
<1>2. /\ pc' = "cmd" /\ phase' = "transmit" /\ n' = 0 /\ rbuf' = <<>> /\ en'
      /\ core' = "PRE_START" /\ ~flush' /\ nack_det' = FALSE /\ arblost_det' = FALSE
      /\ UNCHANGED <<call, pos, txfifo, rxfifo>>
  BY <1>1 DEF Enable, int_clear, flush, fifos
<1>3. DriverOK'
  BY <1>1, <1>2 DEF RestInv, DriverOK, Count, Reads, Working
<1>4. ChipOK'
  BY <1>1, <1>2, EmptyIs DEF ChipOK
<1>5. Popped' = 0 /\ Len(txfifo') = 0 /\ Len(rxfifo') = 0 /\ Len(rbuf') = 0
  <2>1. txfifo' = <<>> /\ rxfifo' = <<>> /\ rbuf' = <<>>
    BY <1>1, <1>2
  <2>2. Len(txfifo') = 0 /\ Len(rxfifo') = 0 /\ Len(rbuf') = 0
    BY <2>1, EmptyIs
  <2>3. Written' = 0
    BY <1>2 DEF Written
  <2>4. QED
    BY <2>2, <2>3 DEF Popped
<1>6. UnderWay'
  BY <1>2, <1>5 DEF UnderWay, Place, Came
<1>7. Working'
  BY <1>2 DEF Working
<1>8. QED
  BY <1>2, <1>3, <1>4, <1>6, <1>7 DEF RestInv

LEMMA cmd_writeKeeps ==
  ASSUME RestInv, cmd_write
  PROVE  RestInv'
<1>1. /\ pc = "cmd" /\ Working /\ en /\ n \in 0 .. Count /\ n < Count /\ Count \in Nat
      /\ call.op \in {"read", "write"} /\ phase \in {"transmit", "receive"}
      /\ phase = "receive" => Reads
  BY DEF cmd_write, RestInv, Working, DriverOK, Count
<1>2. /\ pc' = "check" /\ n' = n + 1
      /\ UNCHANGED <<call, pos, phase, rbuf, en, core, tfr, rw, rxfifo, nack_det, arblost_det>>
  BY DEF cmd_write
<1>3. DriverOK' /\ Working'
  BY <1>1, <1>2 DEF RestInv, DriverOK, Working, Count, Reads
<1>4. CASE flush
  <2>1. txfifo' = <<>> /\ flush'
    BY <1>2, <1>4 DEF cmd_write, flush
  <2>2. Flushed'
    BY <1>1, <1>2, <1>4, <2>1 DEF RestInv, Flushed
  <2>3. ChipOK'
    BY <1>2, <2>1, EmptyIs DEF RestInv, ChipOK
  <2>4. QED
    BY <1>1, <1>2, <1>3, <2>1, <2>2, <2>3 DEF RestInv
<1>5. CASE ~flush
  <2>1. txfifo' = Append(txfifo, Commands[n + 1]) /\ ~flush'
    BY <1>2, <1>5 DEF cmd_write, flush
  <2>2. UnderWay /\ IsSeq(txfifo)
    BY <1>1, <1>5 DEF RestInv, ChipOK
  <2>3. /\ IsSeq(txfifo') /\ Len(txfifo') = Len(txfifo) + 1 /\ Len(txfifo) \in Nat
        /\ \A i \in 1 .. Len(txfifo) : txfifo'[i] = txfifo[i]
        /\ txfifo'[Len(txfifo) + 1] = Commands[n + 1]
    BY <2>1, <2>2, AppendIs, LenIs
  <2>4. Written' = Written + 1 /\ Written \in Nat
    BY <1>1, <1>2 DEF Written
  <2>5. Popped' = Popped /\ Popped \in Int /\ Written + 1 = Popped + Len(txfifo) + 1
    BY <2>3, <2>4 DEF Popped
  <2>6. Reads' = Reads /\ Whole' = Whole
    BY <1>2 DEF Reads, Whole
  <2>7. ASSUME NEW i \in 1 .. Len(txfifo')
        PROVE  Fits(txfifo[i], Popped + i)'
    <3>1. Fits(txfifo'[i], Popped + i)
      <4>1. CASE i \in 1 .. Len(txfifo)
        BY <2>2, <2>3, <4>1 DEF UnderWay
      <4>2. CASE i = Len(txfifo) + 1
        <5>1. Fits(Commands[n + 1], Written + 1)
          BY <1>1, CommandsFit
        <5>2. QED
          BY <2>3, <2>5, <4>2, <5>1
      <4>3. QED
        BY <2>3, <4>1, <4>2
    <3>2. QED
      BY <3>1, <2>5, <2>6 DEF Fits
  <2>8. Place' /\ Came' = Came
    BY <1>2, <2>2, <2>5, <2>6 DEF UnderWay, Place, Came, Fits
  <2>9. UnderWay'
    BY <1>2, <2>2, <2>5, <2>7, <2>8 DEF UnderWay
  <2>10. ChipOK'
    BY <1>2, <2>3 DEF RestInv, ChipOK
  <2>11. QED
    BY <1>1, <1>2, <1>3, <2>1, <2>9, <2>10 DEF RestInv
<1>6. QED
  BY <1>4, <1>5

(* What the driver does with the bytes that came back does not move the    *)
(* core.                                                                   *)
LEMMA UnderWayStays ==
  ASSUME UnderWay, Written' = Written,
         UNCHANGED <<call, txfifo, core, tfr, rw>>,
         Len(rbuf') + Len(rxfifo') = Len(rbuf) + Len(rxfifo),
         pc' = "end" => Written = Whole /\ (Reads => Len(rbuf') = 2)
  PROVE  UnderWay'
<1>1. Popped' = Popped /\ Reads' = Reads /\ Whole' = Whole
  BY DEF Popped, Reads, Whole
<1>2. Place' /\ Came' = Came
  BY <1>1 DEF UnderWay, Place, Came, Fits
<1>3. ASSUME NEW i \in 1 .. Len(txfifo') PROVE Fits(txfifo[i], Popped + i)'
  BY <1>1 DEF UnderWay, Fits
<1>4. QED
  BY <1>1, <1>2, <1>3 DEF UnderWay

LEMMA CheckKeeps ==
  ASSUME RestInv, Check
  PROVE  RestInv'
<1>1. /\ pc = "check" /\ Working /\ en /\ n \in 0 .. Count
      /\ call.op \in {"read", "write"} /\ phase \in {"transmit", "receive"}
      /\ phase = "receive" => Reads
  BY DEF Check, RestInv, Working, DriverOK
<1>2. UNCHANGED <<call, pos, en, core, tfr, rw, txfifo, nack_det, arblost_det>>
  BY DEF Check
<1>3. IsSeq(txfifo) /\ IsSeq(rxfifo) /\ IsSeq(rbuf) /\ nack_det \in BOOLEAN /\ arblost_det \in BOOLEAN
  BY DEF RestInv, ChipOK
<1>4. Count' = Count /\ Reads' = Reads /\ flush' = flush
  BY <1>2 DEF Count, Reads, flush
<1>5. CASE flush
  <2>1. ISR # "SUCCESS"
    BY <1>5 DEF ISR, flush
  <2>2. pc' = "end" /\ UNCHANGED <<phase, n, rbuf, rxfifo>>
    BY <2>1 DEF Check
  <2>3. DriverOK' /\ Working' /\ ChipOK'
    BY <1>1, <1>2, <1>4, <2>2 DEF RestInv, DriverOK, ChipOK, Working
  <2>4. Flushed'
    BY <1>1, <1>2, <1>5, <2>2 DEF RestInv, Flushed
  <2>5. QED
    BY <1>1, <1>2, <1>4, <1>5, <2>3, <2>4 DEF RestInv
<1>6. CASE ~flush
  <2>1. ISR = "SUCCESS" /\ UnderWay
    BY <1>1, <1>6 DEF ISR, flush, RestInv
  <2>2. Len(Commands) = Count
    BY <1>1, CommandsCount
  <2>3. /\ IsSeq(rbuf') /\ IsSeq(rxfifo')
        /\ Len(rbuf') + Len(rxfifo') = Len(rbuf) + Len(rxfifo)
    <3>1. CASE phase = "receive" /\ n \in 2 .. Count - 1
      <4>1. rbuf' = rbuf \o rxfifo /\ rxfifo' = <<>>
        BY <2>1, <2>2, <3>1 DEF Check
      <4>2. IsSeq(rbuf') /\ Len(rbuf') = Len(rbuf) + Len(rxfifo) /\ Len(rbuf') \in Nat
        BY <1>3, <4>1, ConcatIs, LenIs
      <4>3. QED
        BY <4>1, <4>2, EmptyIs
    <3>2. CASE ~(phase = "receive" /\ n \in 2 .. Count - 1)
      <4>1. UNCHANGED <<rbuf, rxfifo>>
        BY <2>1, <2>2, <3>2 DEF Check
      <4>2. QED
        BY <1>3, <4>1
    <3>3. QED
      BY <3>1, <3>2
  <2>4. /\ DriverOK' /\ Working' /\ Written' = Written
        /\ pc' = "end" => Written = Whole /\ ~Reads
    <3>1. CASE n # Count
      <4>1. pc' = "cmd" /\ phase' = phase /\ n' = n
        BY <2>1, <2>2, <3>1 DEF Check
      <4>2. n < Count /\ n \in Nat
        BY <1>1, <3>1 DEF Count
      <4>3. Written' = Written
        BY <4>1 DEF Written
      <4>4. QED
        BY <1>1, <1>2, <1>4, <4>1, <4>2, <4>3 DEF RestInv, DriverOK, Working
    <3>2. CASE n = Count /\ phase = "transmit" /\ Reads
      <4>1. pc' = "cmd" /\ phase' = "receive" /\ n' = 0 /\ n = 3
        BY <2>1, <2>2, <3>2 DEF Check, Reads, Count
      <4>2. Written' = Written
        BY <3>2, <4>1 DEF Written
      <4>3. QED
        BY <1>1, <1>2, <1>4, <3>2, <4>1, <4>2 DEF RestInv, DriverOK, Working, Count
    <3>3. CASE n = Count /\ phase = "receive"
      <4>1. pc' = "read" /\ phase' = phase /\ n' = n
        BY <2>1, <2>2, <3>3 DEF Check
      <4>2. Written' = Written
        BY <4>1 DEF Written
      <4>3. QED
        BY <1>1, <1>2, <1>4, <3>3, <4>1, <4>2 DEF RestInv, DriverOK, Working
    <3>4. CASE n = Count /\ phase = "transmit" /\ ~Reads
      <4>1. pc' = "end" /\ phase' = phase /\ n' = n
        BY <2>1, <2>2, <3>4 DEF Check, Reads
      <4>2. Written' = Written /\ Written = Whole
        BY <3>4, <4>1 DEF Written, Whole, Count
      <4>3. QED
        BY <1>1, <1>2, <1>4, <3>4, <4>1, <4>2 DEF RestInv, DriverOK, Working
    <3>5. QED
      BY <1>1, <3>1, <3>2, <3>3, <3>4
  <2>5. UnderWay'
    BY <1>2, <2>1, <2>3, <2>4, UnderWayStays
  <2>6. ChipOK'
    BY <1>2, <1>3, <2>3 DEF ChipOK
  <2>7. QED
    BY <1>1, <1>2, <1>4, <1>6, <2>4, <2>5, <2>6 DEF RestInv
<1>7. QED
  BY <1>5, <1>6

LEMMA rx_readKeeps ==
  ASSUME RestInv, rx_read
  PROVE  RestInv'
<1>1. /\ pc = "read" /\ Working /\ en /\ n = Count /\ phase = "receive" /\ Reads
      /\ call.op \in {"read", "write"} /\ Count \in Nat
  BY DEF rx_read, RestInv, Working, DriverOK, Count
<1>2. UNCHANGED <<call, pos, phase, n, en, core, tfr, rw, txfifo, nack_det, arblost_det>>
  BY DEF rx_read
<1>3. IsSeq(txfifo) /\ IsSeq(rxfifo) /\ IsSeq(rbuf) /\ nack_det \in BOOLEAN /\ arblost_det \in BOOLEAN
  BY DEF RestInv, ChipOK
<1>4. /\ Count' = Count /\ Reads' = Reads /\ flush' = flush /\ Written' = Written
      /\ Written = Whole /\ pc' \in {"read", "end"}
  BY <1>1, <1>2 DEF Count, Reads, flush, Written, Whole, rx_read
<1>5. DriverOK' /\ Working'
  BY <1>1, <1>2, <1>4 DEF RestInv, DriverOK, Working
<1>6. /\ IsSeq(rbuf') /\ IsSeq(rxfifo')
      /\ Len(rbuf') + Len(rxfifo') = Len(rbuf) + Len(rxfifo)
      /\ rxfifo = <<>> => rxfifo' = <<>>
  <2>1. CASE UNCHANGED <<rbuf, rxfifo>>
    BY <1>3, <2>1
  <2>2. CASE /\ rxfifo # <<>> /\ rbuf' = Append(rbuf, Head(rxfifo))
             /\ rxfifo' = Tail(rxfifo)
    <3>1. IsSeq(rbuf') /\ Len(rbuf') = Len(rbuf) + 1
      BY <1>3, <2>2, AppendIs
    <3>2. IsSeq(rxfifo') /\ Len(rxfifo') = Len(rxfifo) - 1
      BY <1>3, <2>2, TailIs
    <3>3. Len(rbuf) \in Nat /\ Len(rxfifo) \in Nat
      BY <1>3, LenIs
    <3>4. QED
      BY <2>2, <3>1, <3>2, <3>3
  <2>3. QED
    BY <2>1, <2>2 DEF rx_read
<1>7. ChipOK'
  BY <1>2, <1>3, <1>6 DEF ChipOK
<1>8. CASE flush
  <2>1. Flushed'
    BY <1>1, <1>2, <1>6, <1>8 DEF RestInv, Flushed
  <2>2. QED
    BY <1>1, <1>2, <1>4, <1>5, <1>7, <1>8, <2>1 DEF RestInv
<1>9. CASE ~flush
  <2>1. UnderWay
    BY <1>1, <1>9 DEF RestInv
  (* An idle core has sent all commands: both bytes have come.             *)
  <2>2. pc' = "end" => Len(rbuf') = 2
    <3>1. CASE Len(rbuf) = 2
      BY <3>1 DEF rx_read
    <3>2. CASE rxfifo = <<>> /\ ~Busy
      <4>1. core = "PRE_IDLE" /\ Popped = 6
        BY <1>1, <2>1, <3>2 DEF UnderWay, Place, Busy, Whole
      <4>2. Len(rbuf) + Len(rxfifo) = 2
        BY <1>1, <2>1, <4>1 DEF UnderWay, Came
      <4>3. Len(rbuf) = 2
        BY <1>3, <3>2, <4>2, LenIs
      <4>4. QED
        BY <4>3, <3>1
    <3>3. QED
      BY <3>1, <3>2 DEF rx_read
  <2>3. UnderWay'
    BY <1>2, <1>4, <1>6, <2>1, <2>2, UnderWayStays
  <2>4. QED
    BY <1>1, <1>2, <1>4, <1>5, <1>7, <1>9, <2>3 DEF RestInv
<1>10. QED
  BY <1>8, <1>9

(* A transaction that has ended leaves nothing: either all commands were   *)
(* sent and all bytes read, or a refusal has flushed both FIFOs.           *)
LEMMA EndKeeps ==
  ASSUME RestInv, End
  PROVE  RestInv'
<1>1. /\ pc = "end" /\ Working /\ en /\ call.op \in {"read", "write"}
      /\ IsSeq(txfifo) /\ IsSeq(rxfifo) /\ IsSeq(rbuf)
  BY DEF End, RestInv, Working, DriverOK, ChipOK
<1>2. UNCHANGED <<pos, phase, n, rbuf, txfifo, rxfifo, nack_det, arblost_det>>
  BY DEF End, fifos
<1>3. core = "PRE_IDLE" /\ txfifo = <<>> /\ rxfifo = <<>>
  <2>1. CASE flush
    <3>1. Flushed
      BY <1>1, <2>1 DEF RestInv
    <3>2. core = "PRE_IDLE"
      BY <3>1 DEF End, Waited, Busy, Stuck, Flushed
    <3>3. QED
      BY <3>1, <3>2 DEF Flushed
  <2>2. CASE ~flush
    <3>1. UnderWay /\ Written = Whole /\ (Reads => Len(rbuf) = 2)
      BY <1>1, <2>2 DEF RestInv, UnderWay
    <3>2. Len(txfifo) \in Nat /\ Whole \in {5, 6} /\ Popped = Whole - Len(txfifo)
      BY <1>1, <3>1, LenIs DEF Whole, Popped
    <3>3. ~Stuck
      <4>1. CASE core = "PRE_START"
        <5>1. Popped = 0
          BY <3>1, <4>1 DEF UnderWay, Place
        <5>2. Len(txfifo) # 0
          BY <3>2, <5>1
        <5>3. QED
          BY <1>1, <2>2, <5>2, LenIs DEF Stuck
      <4>2. CASE core = "BUS_HOLD"
        <5>1. Popped < Whole
          BY <3>1, <4>2 DEF UnderWay, Place
        <5>2. Len(txfifo) # 0
          BY <3>2, <5>1
        <5>3. QED
          BY <1>1, <2>2, <5>2, LenIs DEF Stuck
      <4>3. QED
        BY <4>1, <4>2 DEF Stuck
    <3>4. core = "PRE_IDLE" /\ Popped = Whole
      BY <3>1, <3>3 DEF End, Waited, Busy, UnderWay, Place
    <3>5. Len(txfifo) = 0
      BY <3>2, <3>4
    <3>6. Len(rbuf) + Len(rxfifo) = IF Reads THEN 2 ELSE 0
      BY <3>1, <3>4 DEF UnderWay, Came, Whole
    <3>7. Len(rxfifo) \in Nat /\ Len(rbuf) \in Nat
      BY <1>1, LenIs
    <3>8. Len(rxfifo) = 0
      <4>1. CASE Reads
        BY <3>1, <3>6, <3>7, <4>1
      <4>2. CASE ~Reads
        BY <3>6, <3>7, <4>2
      <4>3. QED
        BY <4>1, <4>2
    <3>9. QED
      BY <1>1, <3>4, <3>5, <3>8, LenIs
  <2>3. QED
    BY <2>1, <2>2
<1>4. AtRest'
  BY <1>2, <1>3 DEF End, AtRest
<1>5. /\ pc' \in {"enable", "idle"}
      /\ pc' = "enable" => call' = call
  BY DEF End, RepeatOrReturn, Returns
<1>6. ~Working' /\ DriverOK'
  BY <1>1, <1>2, <1>5 DEF RestInv, DriverOK, Working
<1>7. ChipOK'
  BY <1>2 DEF RestInv, ChipOK
<1>8. QED
  BY <1>4, <1>6, <1>7 DEF RestInv

LEMMA DriverKeeps ==
  ASSUME RestInv, Driver
  PROVE  RestInv'
BY EnableKeeps, cmd_writeKeeps, CheckKeeps, rx_readKeeps, EndKeeps DEF Driver

-----------------------------------------------------------------------------
(* The core                                                                *)

(* The core steps only in a transaction, and not while the driver looks.   *)
LEMMA CoreContext ==
  ASSUME RestInv, UNCHANGED <<driver, en>>, core # "IDLE"
  PROVE  /\ Working /\ Working' /\ en' /\ DriverOK'
         /\ Reads' = Reads /\ Whole' = Whole /\ Written' = Written
         /\ Written \in Nat /\ Written <= Whole
<1>1. Working
  BY DEF RestInv, AtRest
<1>2. UNCHANGED <<pc, call, pos, phase, n, rbuf>>
  BY DEF driver
<1>3. DriverOK' /\ Working'
  BY <1>1, <1>2 DEF RestInv, DriverOK, Working, Count, Reads
<1>4. Reads' = Reads /\ Whole' = Whole /\ Written' = Written
  BY <1>2 DEF Reads, Whole, Written
<1>5. Written \in Nat /\ Written <= Whole
  BY <1>1 DEF RestInv, DriverOK, Written, Whole, Count
<1>6. QED
  BY <1>1, <1>3, <1>4, <1>5 DEF RestInv

LEMMA AbortKeeps ==
  ASSUME RestInv, UNCHANGED <<driver, en>>, core # "IDLE",
         NEW flag \in {"nack", "arblost"}, Abort(flag),
         core' \in {"GEN_STOP", "PRE_IDLE"}
  PROVE  RestInv'
<1>1. Working' /\ en' /\ DriverOK'
  BY CoreContext
<1>2. flush' /\ nack_det' \in BOOLEAN /\ arblost_det' \in BOOLEAN
  BY DEF Abort, flush, RestInv, ChipOK
<1>3. txfifo' = <<>> /\ rxfifo' = <<>> /\ rbuf' = rbuf
  BY DEF Abort, driver
<1>4. Flushed' /\ ChipOK'
  BY <1>2, <1>3, EmptyIs DEF Flushed, ChipOK, RestInv
<1>5. QED
  BY <1>1, <1>2, <1>4 DEF RestInv

(* A step on the bus that pops no command.                                 *)
LEMMA ByteKeeps ==
  ASSUME RestInv, UnderWay, ~flush, core # "IDLE",
         UNCHANGED <<driver, en, tfr, txfifo, nack_det, arblost_det>>,
         IsSeq(rxfifo'), Popped' = Popped => Place',
         Popped' = Popped => Len(rxfifo') - Len(rxfifo) = Came' - Came
  PROVE  RestInv'
<1>1. /\ Working' /\ en' /\ DriverOK' /\ Reads' = Reads /\ Whole' = Whole
      /\ Written' = Written
  BY CoreContext
<1>2. Popped' = Popped /\ ~flush'
  BY <1>1 DEF Popped, flush
<1>3. ASSUME NEW i \in 1 .. Len(txfifo') PROVE Fits(txfifo[i], Popped + i)'
  BY <1>1, <1>2 DEF UnderWay, Fits
<1>4. ChipOK' /\ pc' = pc /\ rbuf' = rbuf
  BY DEF RestInv, ChipOK, driver
<1>5. Len(rbuf') + Len(rxfifo') = Came'
  <2>1. Len(rxfifo) \in Nat /\ Len(rxfifo') \in Nat /\ Len(rbuf) \in Nat
    BY LenIs DEF RestInv, ChipOK
  <2>2. Len(rbuf) + Len(rxfifo) = Came /\ Came \in Int
    BY <2>1 DEF UnderWay
  <2>3. Came' \in Int
    BY <1>1, <1>2, <2>1, CoreContext, LenIs DEF Came, Popped, RestInv, ChipOK
  <2>4. QED
    BY <1>2, <1>4, <2>1, <2>2, <2>3
<1>6. UnderWay'
  BY <1>1, <1>2, <1>3, <1>4, <1>5 DEF UnderWay
<1>7. QED
  BY <1>1, <1>2, <1>4, <1>6 DEF RestInv

(* A popped command is the one the place in the transaction calls for.     *)
LEMMA PopKeeps ==
  ASSUME RestInv, Pop
  PROVE  RestInv'
<1>1. core # "IDLE" /\ ~flush /\ txfifo # <<>> /\ core \in {"PRE_START", "BUS_HOLD"}
  BY DEF Pop
<1>2. /\ UNCHANGED <<driver, en, rw, rxfifo, nack_det, arblost_det>>
      /\ tfr' = txfifo[1] /\ txfifo' = Tail(txfifo)
  BY DEF Pop
<1>3. /\ Working /\ Working' /\ en' /\ DriverOK' /\ Reads' = Reads /\ Whole' = Whole
      /\ Written' = Written /\ Written \in Nat /\ Written <= Whole
  BY <1>1, <1>2, CoreContext
<1>4. UnderWay /\ IsSeq(txfifo)
  BY <1>1, <1>3 DEF RestInv, ChipOK
<1>5. /\ IsSeq(txfifo') /\ Len(txfifo') = Len(txfifo) - 1
      /\ \A i \in 1 .. Len(txfifo') : txfifo'[i] = txfifo[i + 1]
      /\ Len(txfifo) \in Nat \ {0} /\ Len(txfifo') \in Nat
  BY <1>1, <1>2, <1>4, TailIs, LenIs
<1>6. Popped' = Popped + 1 /\ Popped \in Nat /\ Popped' <= Whole /\ Whole \in {5, 6}
  BY <1>3, <1>4, <1>5 DEF Popped, UnderWay, Whole
<1>7. Fits(txfifo[1], Popped + 1)
  BY <1>4, <1>5 DEF UnderWay
<1>8. Fits(tfr, Popped)'
  BY <1>2, <1>3, <1>6, <1>7 DEF Fits
<1>9. ASSUME NEW i \in 1 .. Len(txfifo') PROVE Fits(txfifo[i], Popped + i)'
  <2>1. i + 1 \in 1 .. Len(txfifo)
    BY <1>5
  <2>2. Fits(txfifo[i + 1], Popped + (i + 1))
    BY <1>4, <2>1 DEF UnderWay
  <2>3. Popped + (i + 1) = Popped' + i /\ txfifo'[i] = txfifo[i + 1]
    BY <1>5, <1>6
  <2>4. QED
    BY <1>3, <2>2, <2>3 DEF Fits
<1>10. Place' /\ Came' = Came
  <2>1. CASE core = "PRE_START"
    <3>1. core' = "GEN_7BIT_ADDR" /\ Popped' = 1 /\ Popped = 0
      BY <1>4, <1>6, <2>1 DEF Pop, UnderWay, Place
    <3>2. QED
      BY <1>8, <3>1 DEF Place, Came
  <2>2. CASE core = "BUS_HOLD" /\ txfifo[1].restart
    <3>1. core' = "GEN_7BIT_ADDR" /\ Popped + 1 = 4 /\ Reads
      BY <1>7, <2>2 DEF Pop, Fits
    <3>2. QED
      BY <1>3, <1>6, <1>8, <3>1 DEF Place, Came
  <2>3. CASE core = "BUS_HOLD" /\ ~txfifo[1].restart /\ rw = 0
    <3>1. core' = "TX_BYTE" /\ Popped >= 1 /\ (Reads => Popped < 4)
      BY <1>4, <1>6, <2>3 DEF Pop, UnderWay, Place
    <3>2. Reads => Popped # 3
      BY <1>6, <1>7, <2>3 DEF Fits
    <3>3. (Reads => Popped' <= 3) /\ Popped' >= 2
      BY <1>6, <3>1, <3>2
    <3>4. Place'
      BY <1>2, <1>3, <1>8, <2>3, <3>1, <3>3 DEF Place
    <3>5. QED
      BY <1>3, <1>6, <3>1, <3>3, <3>4 DEF Came
  <2>4. CASE core = "BUS_HOLD" /\ ~txfifo[1].restart /\ rw # 0
    <3>1. core' = "RX_BYTE" /\ Reads /\ Popped >= 4
      BY <1>4, <1>6, <2>4 DEF Pop, UnderWay, Place
    <3>2. Popped' >= 5
      BY <1>6, <3>1
    <3>3. Place'
      BY <1>2, <1>3, <1>8, <2>4, <3>1, <3>2 DEF Place
    <3>4. Came = Popped - 4 /\ Came' = Popped' - 4 - 1
      BY <1>3, <1>6, <2>4, <3>1, <3>2 DEF Came
    <3>5. QED
      BY <1>6, <3>3, <3>4
  <2>5. QED
    BY <1>1, <2>1, <2>2, <2>3, <2>4
<1>11. pc' = pc /\ rbuf' = rbuf /\ ~flush' /\ ChipOK'
  BY <1>1, <1>2, <1>5 DEF driver, flush, RestInv, ChipOK
<1>12. UnderWay'
  BY <1>2, <1>3, <1>4, <1>6, <1>9, <1>10, <1>11 DEF UnderWay
<1>13. QED
  BY <1>3, <1>11, <1>12 DEF RestInv

(* Where an address, a byte or a stop is over.                             *)
LEMMA CoreOnBus ==
  ASSUME RestInv, core \in {"GEN_7BIT_ADDR", "TX_BYTE", "RX_BYTE"}
  PROVE  /\ Working /\ ~flush /\ UnderWay
         /\ Popped \in Nat /\ Popped <= Whole /\ Whole \in {5, 6}
         /\ tfr.stop <=> Popped = Whole
         /\ IsSeq(rxfifo)
<1>1. Working /\ ~flush /\ UnderWay
  BY DEF RestInv, AtRest, Flushed
<1>2. Len(txfifo) \in Nat /\ IsSeq(rxfifo)
  BY LenIs DEF RestInv, ChipOK
<1>3. Written \in Nat /\ Written <= Whole /\ Whole \in {5, 6}
  BY <1>1 DEF RestInv, DriverOK, Written, Whole, Count
<1>4. Popped \in Nat /\ Popped <= Whole
  BY <1>1, <1>2, <1>3 DEF Popped, UnderWay
<1>5. Fits(tfr, Popped)
  BY <1>1 DEF UnderWay, Place
<1>6. QED
  BY <1>1, <1>2, <1>3, <1>4, <1>5 DEF Fits

LEMMA AddressedKeeps ==
  ASSUME RestInv, Addressed
  PROVE  RestInv'
<1>1. /\ core = "GEN_7BIT_ADDR" /\ core' = "BUS_HOLD" /\ rw' = tfr.byte
      /\ UNCHANGED <<driver, en, tfr, txfifo, rxfifo, nack_det, arblost_det>>
  BY DEF Addressed, fifos
<1>2. UnderWay /\ ~flush /\ IsSeq(rxfifo) /\ Popped \in Nat /\ Whole \in {5, 6}
  BY <1>1, CoreOnBus
<1>3. Reads' = Reads /\ Whole' = Whole
  BY <1>1, CoreContext
<1>4. (Popped = 1 \/ (Reads /\ Popped = 4)) /\ Fits(tfr, Popped)
  BY <1>1, <1>2 DEF UnderWay, Place
<1>5. Popped < Whole
  BY <1>2, <1>4 DEF Whole
<1>6. rw' = 0 <=> ~(Reads /\ Popped >= 4)
  BY <1>1, <1>4 DEF Fits
<1>7. Popped' = Popped => Place'
  BY <1>1, <1>2, <1>3, <1>5, <1>6, <1>4 DEF Place
<1>8. Popped' = Popped => Came' = 0 /\ Came = 0
  BY <1>3, <1>4 DEF Came
<1>9. Len(rxfifo') - Len(rxfifo) = 0
  BY <1>1, <1>2, LenIs
<1>10. QED
  BY <1>1, <1>2, <1>7, <1>8, <1>9, ByteKeeps

LEMMA SentKeeps ==
  ASSUME RestInv, Sent
  PROVE  RestInv'
<1>1. /\ core = "TX_BYTE" /\ core' = (IF tfr.stop THEN "GEN_STOP" ELSE "BUS_HOLD")
      /\ UNCHANGED <<driver, en, tfr, rw, txfifo, rxfifo, nack_det, arblost_det>>
  BY DEF Sent, fifos
<1>2. /\ UnderWay /\ ~flush /\ IsSeq(rxfifo) /\ Popped \in Nat /\ Whole \in {5, 6}
      /\ Popped <= Whole /\ (tfr.stop <=> Popped = Whole)
  BY <1>1, CoreOnBus
<1>3. Reads' = Reads /\ Whole' = Whole
  BY <1>1, CoreContext
<1>4. Popped >= 2 /\ (Reads => Popped <= 3) /\ rw = 0
  BY <1>1, <1>2 DEF UnderWay, Place
<1>5. Popped' = Popped => Place'
  <2>1. CASE tfr.stop
    BY <1>1, <1>2, <1>3, <2>1 DEF Place
  <2>2. CASE ~tfr.stop
    BY <1>1, <1>2, <1>3, <1>4, <2>2 DEF Place
  <2>3. QED
    BY <2>1, <2>2
<1>6. Popped' = Popped => Came' = 0 /\ Came = 0
  BY <1>2, <1>3, <1>4 DEF Came
<1>7. Len(rxfifo') - Len(rxfifo) = 0
  BY <1>1, <1>2, LenIs
<1>8. QED
  BY <1>1, <1>2, <1>5, <1>6, <1>7, ByteKeeps

LEMMA ReceivedKeeps ==
  ASSUME RestInv, Received
  PROVE  RestInv'
<1>1. /\ core = "RX_BYTE" /\ core' = (IF tfr.stop THEN "GEN_STOP" ELSE "BUS_HOLD")
      /\ UNCHANGED <<driver, en, tfr, rw, txfifo, nack_det, arblost_det>>
  BY DEF Received
<1>2. /\ UnderWay /\ ~flush /\ IsSeq(rxfifo) /\ Popped \in Nat /\ Whole \in {5, 6}
      /\ Popped <= Whole /\ (tfr.stop <=> Popped = Whole)
  BY <1>1, CoreOnBus
<1>3. Reads' = Reads /\ Whole' = Whole
  BY <1>1, CoreContext
<1>4. Reads /\ Popped >= 5 /\ rw # 0
  BY <1>1, <1>2 DEF UnderWay, Place
<1>5. IsSeq(rxfifo') /\ Len(rxfifo') = Len(rxfifo) + 1 /\ Len(rxfifo) \in Nat
  BY <1>2, AppendIs, LenIs DEF Received
<1>6. Popped' = Popped => Place'
  <2>1. CASE tfr.stop
    BY <1>1, <1>2, <1>3, <2>1 DEF Place
  <2>2. CASE ~tfr.stop
    BY <1>1, <1>2, <1>3, <1>4, <2>2 DEF Place
  <2>3. QED
    BY <2>1, <2>2
<1>7. Popped' = Popped => Came' = Popped - 4 /\ Came = Popped - 4 - 1
  BY <1>1, <1>2, <1>3, <1>4 DEF Came
<1>8. Popped' = Popped => Len(rxfifo') - Len(rxfifo) = Came' - Came
  BY <1>2, <1>5, <1>7
<1>9. QED
  BY <1>1, <1>2, <1>5, <1>6, <1>8, ByteKeeps

(* The FIFO is empty when the stop has been sent, so no second transaction *)
(* starts by itself.                                                       *)
LEMMA StoppedKeeps ==
  ASSUME RestInv, Stopped
  PROVE  RestInv'
<1>1. /\ core = "GEN_STOP" /\ core' = (IF txfifo = <<>> THEN "PRE_IDLE" ELSE "PRE_START")
      /\ UNCHANGED <<driver, en, tfr, rw, txfifo, rxfifo, nack_det, arblost_det>>
  BY DEF Stopped, fifos
<1>2. /\ Working /\ Working' /\ en' /\ DriverOK' /\ Written \in Nat /\ Written <= Whole
      /\ Reads' = Reads /\ Whole' = Whole
  BY <1>1, CoreContext
<1>3. IsSeq(txfifo) /\ Len(txfifo) \in Nat /\ IsSeq(rxfifo) /\ ChipOK'
  BY <1>1, LenIs DEF RestInv, ChipOK, driver
<1>4. CASE flush
  <2>1. Flushed /\ flush'
    BY <1>1, <1>2, <1>4 DEF RestInv, flush
  <2>2. Flushed'
    BY <1>1, <2>1 DEF Flushed
  <2>3. QED
    BY <1>2, <1>3, <2>1, <2>2 DEF RestInv
<1>5. CASE ~flush
  <2>1. UnderWay /\ Popped = Whole
    BY <1>1, <1>2, <1>5 DEF RestInv, UnderWay, Place
  <2>2. Len(txfifo) = 0
    BY <1>2, <1>3, <2>1 DEF Popped, Whole
  <2>3. core' = "PRE_IDLE"
    BY <1>1, <1>3, <2>2, LenIs
  <2>4. Popped' = Popped => Place'
    BY <1>2, <2>1, <2>3 DEF Place
  <2>5. Popped' = Popped => Came' = Came
    BY <1>1, <1>2, <2>3 DEF Came
  <2>6. Came \in Int /\ Len(rxfifo') - Len(rxfifo) = 0
    BY <1>1, <1>3, <2>1, LenIs DEF Came, Whole
  <2>7. QED
    BY <1>1, <1>3, <1>5, <2>1, <2>4, <2>5, <2>6, ByteKeeps
<1>6. QED
  BY <1>4, <1>5

LEMMA CoreKeeps ==
  ASSUME RestInv, Core
  PROVE  RestInv'
<1>1. CASE Refused
  BY <1>1, AbortKeeps DEF Refused
<1>2. CASE ArbLost
  BY <1>2, AbortKeeps DEF ArbLost
<1>3. QED
  BY <1>1, <1>2, PopKeeps, AddressedKeeps, SentKeeps, ReceivedKeeps, StoppedKeeps DEF Core

-----------------------------------------------------------------------------
LEMMA StutterKeeps ==
  ASSUME RestInv, UNCHANGED vars
  PROVE  RestInv'
<1>1. UNCHANGED <<pc, call, pos, phase, n, rbuf, en, core, tfr, rw, txfifo, rxfifo,
                  nack_det, arblost_det>>
  BY DEF vars, driver, chip, fifos
<1>2. QED
  BY <1>1 DEF RestInv, DriverOK, ChipOK, Working, AtRest, flush, Flushed, UnderWay, Place,
              Popped, Written, Whole, Reads, Count, Came, Fits

(***************************************************************************)
(* Every attempt begins with the core at rest and both FIFOs empty, for    *)
(* every script, depth of the FIFO and number of attempts, however many    *)
(* bytes are refused or lost (altera_avalon_i2c.c:666, 849).               *)
(***************************************************************************)
THEOREM AttemptsApart == Spec => []NothingLeftOver
<1>1. RestInv => NothingLeftOver
  BY DEF RestInv, DriverOK, Working, AtRest, NothingLeftOver
<1>2. RestInv /\ [Next]_vars => RestInv'
  BY CallerKeeps, DriverKeeps, CoreKeeps, StutterKeeps DEF Next
<1>3. QED
  BY RestStart, <1>1, <1>2, PTL DEF Spec
-----------------------------------------------------------------------------
(* What the codec holds                                                    *)

Value == Nat \X Nat

\* Byte k of a message is the one the driver meant.
ByteOK(cmd, k) == k \in 2 .. Count => cmd.byte = txbuffer[k - 1]

\* The bytes the codec has of the message under way.
SentBytes ==
  IF core = "TX_BYTE" THEN Popped - 2 ELSE IF Popped < Count THEN Popped - 1 ELSE Count - 1

CallOK == pc # "idle" => call.reg \in Registers /\ (call.op = "write" => call.val \in Value)

\* What is known of a register is what was written last, but for the one that
\* is being written.
OthersKnown ==
  \A r \in Registers \ (failed \cup unseen) :
    regs[r] = intended[r] \/ (pc # "idle" /\ call.op = "write" /\ r = call.reg)

AnswerKnown ==
  answer # None => pc = "idle" /\ answer.reg \in Registers /\ answer.val = regs[answer.reg]

\* The message so far, while nothing was refused or lost.
MessageOK ==
  /\ core = "TX_BYTE" => ByteOK(tfr, Popped)
  /\ \A i \in 1 .. Len(txfifo) : ByteOK(txfifo[i], Popped + i)
  /\ core # "PRE_START" =>
       IsSeq(got) /\ Len(got) = SentBytes /\ \A i \in 1 .. SentBytes : got[i] = txbuffer[i]
  /\ Reads /\ Popped >= 4 /\ core # "GEN_7BIT_ADDR" => rpos = Came
  /\ ~Reads /\ Popped = Whole /\ core # "TX_BYTE" => regs[call.reg] = call.val
  /\ Reads => \A i \in 1 .. Len(rxfifo) : rxfifo[i] = regs[call.reg][Len(rbuf) + i]

BytesRead == Reads => \A i \in 1 .. Len(rbuf) : rbuf[i] = regs[call.reg][i]

ReadOver ==
  /\ pc = "read" => status = "SUCCESS"
  /\ pc = "end" /\ Reads /\ status = "SUCCESS" => Len(rbuf) = 2

CodecInv ==
  /\ regs \in [Registers -> Value] /\ intended \in [Registers -> Value]
  /\ CallOK /\ OthersKnown /\ AnswerKnown
  /\ Working => BytesRead /\ ReadOver
  /\ Working /\ ~flush => MessageOK

LEMMA SameCall ==
  ASSUME call' = call
  PROVE  Count' = Count /\ txbuffer' = txbuffer /\ Reads' = Reads /\ Whole' = Whole
BY DEF Count, txbuffer, Reads, Whole

LEMMA TxBytes ==
  /\ txbuffer[1] = 0 /\ txbuffer[2] = call.reg
  /\ call.op = "write" => txbuffer[3] = call.val[1] /\ txbuffer[4] = call.val[2]
BY DEF txbuffer

LEMMA PairIs ==
  ASSUME NEW v \in Value
  PROVE  v = <<v[1], v[2]>> /\ IsSeq(v) /\ Len(v) = 2
<1>1. v = <<v[1], v[2]>>
  BY DEF Value
<1>2. Len(<<v[1], v[2]>>) = 2 /\ <<v[1], v[2]>> \in Seq({v[1], v[2]})
  OBVIOUS
<1>3. QED
  BY <1>1, <1>2, SeqIs

LEMMA TwoBytes ==
  ASSUME NEW s, IsSeq(s), Len(s) = 2, NEW v \in Value, s[1] = v[1], s[2] = v[2]
  PROVE  s = v
<1>1. s \in [1 .. 2 -> Range(s)]
  BY LenProperties DEF IsSeq
<1>2. v = <<v[1], v[2]>>
  BY PairIs
<1>3. s = <<s[1], s[2]>>
  BY <1>1
<1>4. QED
  BY <1>2, <1>3

LEMMA CodecStart == Init => CodecInv
<1>1. SUFFICES ASSUME Init PROVE CodecInv
  OBVIOUS
<1>2. /\ pc = "idle" /\ regs = [r \in Registers |-> <<0, 0>>] /\ intended = regs
      /\ answer = None
  BY <1>1 DEF Init
<1>3. regs \in [Registers -> Value] /\ intended \in [Registers -> Value] /\ OthersKnown
  BY <1>2 DEF OthersKnown, Value
<1>4. QED
  BY <1>2, <1>3 DEF CodecInv, CallOK, AnswerKnown, Working

-----------------------------------------------------------------------------
(* The caller begins to write or read one of the registers.                *)

LEMMA BeginCodec ==
  ASSUME CodecInv, NEW access, Begin(access), access.reg \in Registers,
         access.op = "write" => access.val \in Value
  PROVE  CodecInv'
<1>1. /\ pc = "idle" /\ pc' = "enable" /\ call' = access /\ answer' = None
      /\ UNCHANGED <<regs, intended, failed, unseen>>
  BY DEF Begin, codec
<1>2. CallOK' /\ AnswerKnown' /\ ~Working'
  BY <1>1 DEF CallOK, AnswerKnown, Working
<1>3. OthersKnown'
  BY <1>1 DEF CodecInv, OthersKnown
<1>4. QED
  BY <1>1, <1>2, <1>3 DEF CodecInv

LEMMA CallerCodec ==
  ASSUME RestInv, CodecInv, Caller
  PROVE  CodecInv'
<1>1. CASE NextOfScript
  <2>1. pos \in DOMAIN Script /\ Script[pos] \in Accesses
    <3>1. pos \in 1 .. Len(Script)
      BY <1>1, I2CAssumption, LenProperties DEF NextOfScript, RestInv, DriverOK
    <3>2. QED
      BY <3>1, I2CAssumption
  <2>2. Script[pos].reg \in Registers
    BY <2>1 DEF Registers
  <2>3. Script[pos].op = "write" => Script[pos].val \in Value
    BY <2>1 DEF Accesses, Value
  <2>4. QED
    BY <1>1, <2>2, <2>3, BeginCodec DEF NextOfScript
<1>2. ASSUME NEW vol \in Volumes, vol_change(vol)
      PROVE  CodecInv'
  <2> DEFINE access == Write(ANA_HP_CTRL, <<HP_MIN_VOL - vol, HP_MIN_VOL - vol>>)
  <2>1. HP_MIN_VOL - vol \in Nat
    BY I2CAssumption DEF HP_MIN_VOL
  <2>2. access.reg \in Registers /\ access.val \in Value
    BY <2>1 DEF Write, Registers, Value
  <2>3. QED
    BY <1>2, <2>2, BeginCodec DEF vol_change
<1>3. QED
  BY <1>1, <1>2 DEF Caller

-----------------------------------------------------------------------------
(* The driver                                                              *)

\* A step of the driver that neither begins nor ends a transaction.
LEMMA SameRegisters ==
  ASSUME CodecInv, UNCHANGED <<call, regs, intended, failed, unseen, answer>>,
         pc # "idle", pc' # "idle"
  PROVE  /\ regs' \in [Registers -> Value] /\ intended' \in [Registers -> Value]
         /\ CallOK' /\ OthersKnown' /\ AnswerKnown'
<1>1. CallOK' /\ OthersKnown'
  BY DEF CodecInv, CallOK, OthersKnown
<1>2. AnswerKnown'
  BY DEF CodecInv, AnswerKnown
<1>3. QED
  BY <1>1, <1>2 DEF CodecInv

LEMMA EnableCodec ==
  ASSUME RestInv, CodecInv, Enable
  PROVE  CodecInv'
<1>1. pc = "enable" /\ ~en /\ core = "IDLE" /\ txfifo = <<>> /\ rxfifo = <<>>
  BY DEF Enable, RestInv, Working, AtRest
<1>2. /\ pc' = "cmd" /\ phase' = "transmit" /\ n' = 0 /\ rbuf' = <<>>
      /\ core' = "PRE_START"
      /\ UNCHANGED <<call, txfifo, rxfifo, regs, intended, failed, unseen, answer>>
  BY <1>1 DEF Enable, fifos, codec, ghosts
<1>3. Len(txfifo') = 0 /\ Len(rxfifo') = 0 /\ Len(rbuf') = 0
  BY <1>1, <1>2, EmptyIs
<1>4. Popped' = 0
  <2>1. Written' = 0
    BY <1>2 DEF Written
  <2>2. QED
    BY <1>3, <2>1 DEF Popped
<1>5. MessageOK'
  BY <1>2, <1>3, <1>4 DEF MessageOK, Whole
<1>6. BytesRead' /\ ReadOver'
  BY <1>2, <1>3 DEF BytesRead, ReadOver
<1>7. QED
  BY <1>1, <1>2, <1>5, <1>6, SameRegisters DEF CodecInv

LEMMA CommandsCarry ==
  ASSUME call.op \in {"read", "write"}, phase \in {"transmit", "receive"},
         phase = "receive" => Reads, n \in Nat, n < Count
  PROVE  ByteOK(Commands[n + 1], Written + 1)
<1>1. CASE phase = "receive"
  BY <1>1 DEF ByteOK, Written, Count
<1>2. CASE phase = "transmit" /\ n = 0
  BY <1>2 DEF ByteOK, Written
<1>3. CASE phase = "transmit" /\ n # 0
  <2>1. n \in 1 .. Count - 1 /\ Written = n /\ Count \in Nat
    BY <1>3 DEF Count, Written
  <2>2. Commands[n + 1].byte = txbuffer[n]
    <3>1. Commands[n + 1] = Cmd(txbuffer[n], FALSE, call.op = "write" /\ n = Len(txbuffer))
      BY <1>3, <2>1, TransmitIs
    <3>2. CASE call.op = "write" /\ n = Len(txbuffer)
      <4>1. Commands[n + 1] = Cmd(txbuffer[n], FALSE, TRUE)
        BY <3>1, <3>2
      <4>2. QED
        BY <4>1 DEF Cmd
    <3>3. CASE ~(call.op = "write" /\ n = Len(txbuffer))
      <4>1. Commands[n + 1] = Cmd(txbuffer[n], FALSE, FALSE)
        BY <3>1, <3>3
      <4>2. QED
        BY <4>1 DEF Cmd
    <3>4. QED
      BY <3>2, <3>3
  <2>3. QED
    BY <2>1, <2>2 DEF ByteOK
<1>4. QED
  BY <1>1, <1>2, <1>3

LEMMA cmd_writeCodec ==
  ASSUME RestInv, CodecInv, cmd_write
  PROVE  CodecInv'
<1>1. /\ pc = "cmd" /\ Working /\ n \in Nat /\ n < Count
      /\ call.op \in {"read", "write"} /\ phase \in {"transmit", "receive"}
      /\ phase = "receive" => Reads
  BY DEF cmd_write, RestInv, Working, DriverOK, Count
<1>2. /\ pc' = "check" /\ n' = n + 1
      /\ UNCHANGED <<call, phase, status, rbuf, core, tfr, rxfifo, nack_det, arblost_det,
                     got, rpos, regs, intended, failed, unseen, answer>>
  BY DEF cmd_write, codec, ghosts
<1>3. BytesRead' /\ ReadOver'
  BY <1>1, <1>2 DEF CodecInv, BytesRead, ReadOver, Reads
<1>4. ASSUME ~flush PROVE MessageOK'
  <2>1. txfifo' = Append(txfifo, Commands[n + 1])
    BY <1>4 DEF cmd_write, flush
  <2>2. /\ Len(txfifo') = Len(txfifo) + 1 /\ Len(txfifo) \in Nat
        /\ \A i \in 1 .. Len(txfifo) : txfifo'[i] = txfifo[i]
        /\ txfifo'[Len(txfifo) + 1] = Commands[n + 1]
    BY <2>1, AppendIs, LenIs DEF RestInv, ChipOK
  <2>3. Written' = Written + 1 /\ Written \in Nat
    BY <1>1, <1>2 DEF Written
  <2>4. Popped' = Popped /\ Popped \in Int /\ Written + 1 = Popped + Len(txfifo) + 1
    BY <2>2, <2>3 DEF Popped
  <2>5. MessageOK
    BY <1>1, <1>4 DEF CodecInv
  <2>6. Count' = Count /\ txbuffer' = txbuffer /\ Reads' = Reads /\ Whole' = Whole
    BY <1>2, SameCall
  <2>7. ASSUME NEW i \in 1 .. Len(txfifo') PROVE ByteOK(txfifo[i], Popped + i)'
    <3>1. ByteOK(txfifo'[i], Popped + i)
      <4>1. CASE i \in 1 .. Len(txfifo)
        BY <2>2, <2>5, <4>1 DEF MessageOK
      <4>2. CASE i = Len(txfifo) + 1
        <5>1. ByteOK(Commands[n + 1], Written + 1)
          BY <1>1, CommandsCarry
        <5>2. QED
          BY <2>2, <2>4, <4>2, <5>1
      <4>3. QED
        BY <2>2, <4>1, <4>2
    <3>2. QED
      BY <3>1, <2>4, <2>6 DEF ByteOK
  <2>8. SentBytes' = SentBytes /\ Came' = Came
    BY <1>2, <2>4, <2>6 DEF SentBytes, Came
  <2>9. core = "TX_BYTE" => ByteOK(tfr, Popped)'
    BY <1>2, <2>4, <2>5, <2>6 DEF MessageOK, ByteOK
  <2>10. QED
    BY <1>2, <2>4, <2>5, <2>6, <2>7, <2>8, <2>9 DEF MessageOK
<1>5. flush' = flush
  BY <1>2 DEF flush
<1>6. QED
  BY <1>1, <1>2, <1>3, <1>4, <1>5, SameRegisters DEF CodecInv

\* The driver takes bytes that came back: the message is what it was.
LEMMA MessageStays ==
  ASSUME MessageOK, Written' = Written,
         UNCHANGED <<call, txfifo, core, tfr, got, rpos, regs>>,
         Reads => \A i \in 1 .. Len(rxfifo') : rxfifo'[i] = regs[call.reg][Len(rbuf') + i]
  PROVE  MessageOK'
<1>1. Count' = Count /\ txbuffer' = txbuffer /\ Reads' = Reads /\ Whole' = Whole
  BY SameCall
<1>2. Popped' = Popped
  BY DEF Popped
<1>3. SentBytes' = SentBytes /\ Came' = Came
  BY <1>1, <1>2 DEF SentBytes, Came
<1>4. ASSUME NEW i \in 1 .. Len(txfifo') PROVE ByteOK(txfifo[i], Popped + i)'
  BY <1>1, <1>2 DEF MessageOK, ByteOK
<1>5. core = "TX_BYTE" => ByteOK(tfr, Popped)'
  BY <1>1, <1>2 DEF MessageOK, ByteOK
<1>6. QED
  BY <1>1, <1>2, <1>3, <1>4, <1>5 DEF MessageOK

LEMMA CheckCodec ==
  ASSUME RestInv, CodecInv, Check
  PROVE  CodecInv'
<1>1. /\ pc = "check" /\ Working /\ n \in 0 .. Count
      /\ call.op \in {"read", "write"} /\ phase \in {"transmit", "receive"}
      /\ phase = "receive" => Reads
  BY DEF Check, RestInv, Working, DriverOK
<1>2. UNCHANGED <<call, core, tfr, txfifo, nack_det, arblost_det, got, rpos, regs,
                  intended, failed, unseen, answer>>
  BY DEF Check, codec, ghosts
<1>3. IsSeq(rxfifo) /\ IsSeq(rbuf) /\ Len(Commands) = Count
  BY <1>1, CommandsCount DEF RestInv, ChipOK
<1>4. status' = ISR /\ pc' \in {"cmd", "read", "end"} /\ Reads' = Reads /\ flush' = flush
  BY <1>2 DEF Check, Reads, flush
<1>5. CASE flush
  <2>1. ISR # "SUCCESS"
    BY <1>5 DEF ISR, flush
  <2>2. pc' = "end" /\ rbuf' = rbuf
    BY <2>1 DEF Check
  <2>3. BytesRead' /\ ReadOver'
    BY <1>1, <1>2, <1>4, <2>1, <2>2 DEF CodecInv, BytesRead, ReadOver
  <2>4. QED
    BY <1>1, <1>2, <1>4, <1>5, <2>3, SameRegisters DEF CodecInv
<1>6. CASE ~flush
  <2>1. ISR = "SUCCESS" /\ MessageOK /\ BytesRead
    BY <1>1, <1>6 DEF ISR, flush, CodecInv
  <2>2. /\ Reads => \A i \in 1 .. Len(rbuf') : rbuf'[i] = regs[call.reg][i]
        /\ Reads => \A i \in 1 .. Len(rxfifo') : rxfifo'[i] = regs[call.reg][Len(rbuf') + i]
    <3>1. CASE phase = "receive" /\ n \in 2 .. Count - 1
      <4>1. rbuf' = rbuf \o rxfifo /\ rxfifo' = <<>>
        BY <1>3, <2>1, <3>1 DEF Check
      <4>2. /\ Len(rbuf') = Len(rbuf) + Len(rxfifo) /\ Len(rbuf) \in Nat /\ Len(rxfifo) \in Nat
            /\ \A i \in 1 .. Len(rbuf) + Len(rxfifo) :
                 rbuf'[i] = IF i <= Len(rbuf) THEN rbuf[i] ELSE rxfifo[i - Len(rbuf)]
        BY <1>3, <4>1, ConcatIs, LenIs
      <4>3. ASSUME Reads, NEW i \in 1 .. Len(rbuf') PROVE rbuf'[i] = regs[call.reg][i]
        <5>1. CASE i <= Len(rbuf)
          BY <2>1, <4>2, <4>3, <5>1 DEF BytesRead
        <5>2. CASE i > Len(rbuf)
          <6>1. i - Len(rbuf) \in 1 .. Len(rxfifo) /\ Len(rbuf) + (i - Len(rbuf)) = i
            BY <4>2, <5>2
          <6>2. rxfifo[i - Len(rbuf)] = regs[call.reg][Len(rbuf) + (i - Len(rbuf))]
            BY <2>1, <4>3, <6>1 DEF MessageOK
          <6>3. QED
            BY <4>2, <5>2, <6>1, <6>2
        <5>3. QED
          BY <4>2, <5>1, <5>2
      <4>4. Len(rxfifo') = 0
        BY <4>1, EmptyIs
      <4>5. QED
        BY <4>3, <4>4
    <3>2. CASE ~(phase = "receive" /\ n \in 2 .. Count - 1)
      <4>1. UNCHANGED <<rbuf, rxfifo>>
        BY <1>3, <2>1, <3>2 DEF Check
      <4>2. QED
        BY <2>1, <4>1 DEF BytesRead, MessageOK
    <3>3. QED
      BY <3>1, <3>2
  <2>3. Written' = Written /\ (pc' = "end" => ~Reads)
    <3>1. CASE n # Count
      <4>1. pc' = "cmd" /\ phase' = phase /\ n' = n
        BY <1>3, <2>1, <3>1 DEF Check
      <4>2. QED
        BY <4>1 DEF Written
    <3>2. CASE n = Count /\ phase = "transmit" /\ Reads
      <4>1. pc' = "cmd" /\ phase' = "receive" /\ n' = 0 /\ n = 3
        BY <1>3, <2>1, <3>2 DEF Check, Reads, Count
      <4>2. QED
        BY <3>2, <4>1 DEF Written
    <3>3. CASE n = Count /\ phase = "receive"
      <4>1. pc' = "read" /\ phase' = phase /\ n' = n
        BY <1>3, <2>1, <3>3 DEF Check
      <4>2. QED
        BY <4>1 DEF Written
    <3>4. CASE n = Count /\ phase = "transmit" /\ ~Reads
      <4>1. pc' = "end" /\ phase' = phase /\ n' = n
        BY <1>3, <2>1, <3>4 DEF Check, Reads
      <4>2. QED
        BY <3>4, <4>1 DEF Written
    <3>5. QED
      BY <1>1, <3>1, <3>2, <3>3, <3>4
  <2>4. BytesRead' /\ ReadOver'
    BY <1>2, <1>4, <2>1, <2>2, <2>3 DEF BytesRead, ReadOver
  <2>5. MessageOK'
    BY <1>2, <2>1, <2>2, <2>3, MessageStays
  <2>6. QED
    BY <1>1, <1>2, <1>4, <2>4, <2>5, SameRegisters DEF CodecInv
<1>7. QED
  BY <1>5, <1>6

LEMMA rx_readCodec ==
  ASSUME RestInv, CodecInv, rx_read
  PROVE  CodecInv'
<1>1. pc = "read" /\ Working /\ Reads /\ pc' \in {"read", "end"}
  BY DEF rx_read, RestInv, Working, DriverOK
<1>2. UNCHANGED <<call, phase, n, core, tfr, txfifo, nack_det, arblost_det, got, rpos, regs,
                  intended, failed, unseen, answer>>
  BY DEF rx_read, codec, ghosts
<1>3. IsSeq(rxfifo) /\ IsSeq(rbuf)
  BY DEF RestInv, ChipOK
<1>4. Written' = Written /\ Reads' = Reads /\ flush' = flush
  BY <1>2 DEF Written, Reads, flush
<1>5. status = "SUCCESS"
  BY <1>1 DEF CodecInv, ReadOver
<1>6. ReadOver'
  <2>1. CASE Len(rbuf) = 2 /\ UNCHANGED <<rbuf, status>>
    BY <1>5, <2>1 DEF ReadOver
  <2>2. CASE UNCHANGED <<pc, status>>
    BY <1>1, <1>5, <2>2 DEF ReadOver
  <2>3. CASE pc' = "end" /\ status' = "TIMEOUT"
    BY <2>3 DEF ReadOver
  <2>4. QED
    BY <2>1, <2>2, <2>3 DEF rx_read
<1>7. CASE UNCHANGED <<rbuf, rxfifo>>
  <2>1. BytesRead'
    BY <1>1, <1>2, <1>4, <1>7 DEF CodecInv, BytesRead
  <2>2. ~flush => MessageOK'
    BY <1>1, <1>2, <1>4, <1>7, MessageStays DEF CodecInv, MessageOK
  <2>3. QED
    BY <1>1, <1>2, <1>4, <1>6, <2>1, <2>2, SameRegisters DEF CodecInv
<1>8. CASE rxfifo # <<>> /\ rbuf' = Append(rbuf, Head(rxfifo)) /\ rxfifo' = Tail(rxfifo)
  <2>1. ~flush
    <3>1. flush => rxfifo = <<>>
      BY <1>1 DEF RestInv, Flushed
    <3>2. QED
      BY <1>8, <3>1
  <2>2. MessageOK /\ BytesRead
    BY <1>1, <2>1 DEF CodecInv
  <2>3. /\ Len(rbuf') = Len(rbuf) + 1 /\ Len(rbuf) \in Nat
        /\ \A i \in 1 .. Len(rbuf) : rbuf'[i] = rbuf[i]
        /\ rbuf'[Len(rbuf) + 1] = Head(rxfifo)
    BY <1>3, <1>8, AppendIs, LenIs
  <2>4. /\ Len(rxfifo') = Len(rxfifo) - 1 /\ Head(rxfifo) = rxfifo[1] /\ Len(rxfifo) \in Nat \ {0}
        /\ \A i \in 1 .. Len(rxfifo') : rxfifo'[i] = rxfifo[i + 1]
    BY <1>3, <1>8, TailIs, LenIs
  <2>5. \A i \in 1 .. Len(rxfifo) : rxfifo[i] = regs[call.reg][Len(rbuf) + i]
    BY <1>1, <2>2 DEF MessageOK
  <2>6. ASSUME NEW i \in 1 .. Len(rbuf') PROVE rbuf'[i] = regs[call.reg][i]
    <3>1. CASE i \in 1 .. Len(rbuf)
      BY <1>1, <2>2, <2>3, <3>1 DEF BytesRead
    <3>2. CASE i = Len(rbuf) + 1
      <4>1. rxfifo[1] = regs[call.reg][Len(rbuf) + 1]
        BY <2>4, <2>5
      <4>2. QED
        BY <2>3, <2>4, <3>2, <4>1
    <3>3. QED
      BY <2>3, <3>1, <3>2
  <2>7. ASSUME NEW i \in 1 .. Len(rxfifo') PROVE rxfifo'[i] = regs[call.reg][Len(rbuf') + i]
    <3>1. i + 1 \in 1 .. Len(rxfifo) /\ Len(rbuf) + (i + 1) = Len(rbuf') + i
      BY <2>3, <2>4
    <3>2. rxfifo[i + 1] = regs[call.reg][Len(rbuf) + (i + 1)]
      BY <2>5, <3>1
    <3>3. QED
      BY <2>4, <3>1, <3>2
  <2>8. BytesRead'
    BY <1>2, <2>6 DEF BytesRead
  <2>9. MessageOK'
    BY <1>2, <1>4, <2>2, <2>7, MessageStays
  <2>10. QED
    BY <1>1, <1>2, <1>4, <1>6, <2>8, <2>9, SameRegisters DEF CodecInv
<1>9. QED
  BY <1>7, <1>8 DEF rx_read

\* Where a transaction that nothing was refused or lost of ends.
LEMMA WholeAtEnd ==
  ASSUME RestInv, CodecInv, End, ~flush
  PROVE  /\ Reads => Len(rbuf) = 2
         /\ ~Reads => regs[call.reg] = call.val
<1>1. /\ pc = "end" /\ Working /\ IsSeq(txfifo) /\ call.op \in {"read", "write"}
  BY DEF End, RestInv, Working, DriverOK, ChipOK
<1>2. UnderWay /\ MessageOK /\ Written = Whole /\ (Reads => Len(rbuf) = 2)
  BY <1>1 DEF RestInv, UnderWay, CodecInv
<1>3. Len(txfifo) \in Nat /\ Whole \in {5, 6} /\ Popped = Whole - Len(txfifo)
  BY <1>1, <1>2, LenIs DEF Whole, Popped
<1>4. ~Stuck
  <2>1. core = "PRE_START" => Popped = 0
    BY <1>2 DEF UnderWay, Place
  <2>2. core = "BUS_HOLD" => Popped < Whole
    BY <1>2 DEF UnderWay, Place
  <2>3. core \in {"PRE_START", "BUS_HOLD"} => Len(txfifo) # 0
    BY <1>3, <2>1, <2>2
  <2>4. QED
    BY <1>1, <2>3, LenIs DEF Stuck
<1>5. core = "PRE_IDLE" /\ Popped = Whole
  BY <1>2, <1>4 DEF End, Waited, Busy, UnderWay, Place
<1>6. QED
  BY <1>2, <1>5 DEF MessageOK

LEMMA EndCodec ==
  ASSUME RestInv, CodecInv, End
  PROVE  CodecInv'
<1>1. /\ pc = "end" /\ Working /\ call.op \in {"read", "write"} /\ IsSeq(rbuf)
      /\ nack_det \in BOOLEAN /\ arblost_det \in BOOLEAN
  BY DEF End, RestInv, Working, DriverOK, ChipOK
<1>2. UNCHANGED <<regs, rbuf>> /\ RepeatOrReturn(EndStatus)
  BY DEF End, codec
<1>3. CASE Again(EndStatus)
  <2>1. pc' = "enable" /\ UNCHANGED <<call, intended, failed, unseen, answer>>
    BY <1>2, <1>3 DEF RepeatOrReturn, ghosts
  <2>2. ~Working'
    BY <2>1 DEF Working
  <2>3. QED
    BY <1>1, <1>2, <2>1, <2>2, SameRegisters DEF CodecInv
<1>4. CASE ~Again(EndStatus)
  <2>1. Returns(EndStatus)
    BY <1>2, <1>4 DEF RepeatOrReturn
  <2>2. pc' = "idle"
    BY <2>1 DEF Returns
  <2>3. ~Working' /\ CallOK'
    BY <2>2 DEF Working, CallOK
  <2>4. CASE call.op = "write"
    <3>1. /\ intended' = [intended EXCEPT ![call.reg] = call.val]
          /\ failed' = IF EndStatus = "SUCCESS" THEN failed \ {call.reg} ELSE failed \cup {call.reg}
          /\ unseen' = IF arblost_det THEN unseen \cup {call.reg} ELSE unseen \ {call.reg}
          /\ answer' = answer
      BY <2>1, <2>4 DEF Returns
    <3>2. call.reg \notin failed' \cup unseen' => regs[call.reg] = call.val
      <4>1. CASE flush
        <5>1. CASE nack_det
          BY <3>1, <5>1 DEF EndStatus
        <5>2. CASE arblost_det
          BY <3>1, <5>2
        <5>3. QED
          BY <4>1, <5>1, <5>2 DEF flush
      <4>2. CASE ~flush
        BY <2>4, <4>2, WholeAtEnd DEF Reads
      <4>3. QED
        BY <4>1, <4>2
    <3>3. AnswerKnown'
      BY <1>1, <3>1 DEF CodecInv, AnswerKnown
    <3>0. call.reg \in Registers /\ call.val \in Value
      BY <1>1, <2>4 DEF CodecInv, CallOK
    <3>7. intended \in [Registers -> Value] /\ intended' \in [Registers -> Value]
      BY <3>0, <3>1 DEF CodecInv
    <3>4. ASSUME NEW r \in Registers, r \notin failed' \cup unseen'
          PROVE  regs[r] = intended'[r]
      <4>1. CASE r = call.reg
        BY <3>1, <3>2, <3>4, <3>7, <4>1
      <4>2. CASE r # call.reg
        <5>1. intended'[r] = intended[r] /\ r \notin failed \cup unseen
          BY <3>1, <3>4, <3>7, <4>2
        <5>2. QED
          BY <4>2, <5>1 DEF CodecInv, OthersKnown
      <4>3. QED
        BY <4>1, <4>2
    <3>5. OthersKnown'
      BY <1>2, <3>4 DEF OthersKnown
    <3>6. QED
      BY <1>2, <2>3, <3>3, <3>5, <3>7 DEF CodecInv
  <2>5. CASE call.op = "read"
    <3>1. /\ answer' = IF EndStatus = "SUCCESS" THEN Write(call.reg, rbuf) ELSE None
          /\ UNCHANGED <<intended, failed, unseen>>
      BY <2>1, <2>5 DEF Returns
    <3>2. OthersKnown'
      BY <1>2, <2>5, <3>1 DEF CodecInv, OthersKnown
    <3>3. EndStatus = "SUCCESS" => rbuf = regs[call.reg]
      <4> HAVE EndStatus = "SUCCESS"
      <4>1. status = "SUCCESS"
        BY DEF EndStatus
      <4>2. BytesRead /\ Len(rbuf) = 2
        BY <1>1, <2>5, <4>1 DEF CodecInv, ReadOver, Reads
      <4>3. regs[call.reg] \in Value
        BY <1>1 DEF CodecInv, CallOK
      <4>4. rbuf[1] = regs[call.reg][1] /\ rbuf[2] = regs[call.reg][2]
        BY <2>5, <4>2 DEF BytesRead, Reads
      <4>5. QED
        BY <1>1, <4>2, <4>3, <4>4, TwoBytes
    <3>4. AnswerKnown'
      <4>1. CASE EndStatus = "SUCCESS"
        <5>1. answer'.reg = call.reg /\ answer'.val = rbuf
          BY <3>1, <4>1 DEF Write
        <5>2. call.reg \in Registers
          BY <1>1 DEF CodecInv, CallOK
        <5>3. rbuf = regs[call.reg]
          BY <3>3, <4>1
        <5>4. QED
          BY <1>2, <2>2, <5>1, <5>2, <5>3 DEF AnswerKnown
      <4>2. CASE EndStatus # "SUCCESS"
        BY <3>1, <4>2 DEF AnswerKnown
      <4>3. QED
        BY <4>1, <4>2
    <3>5. QED
      BY <1>2, <2>3, <3>1, <3>2, <3>4 DEF CodecInv
  <2>6. QED
    BY <1>1, <2>4, <2>5
<1>5. QED
  BY <1>3, <1>4

LEMMA DriverCodec ==
  ASSUME RestInv, CodecInv, Driver
  PROVE  CodecInv'
BY EnableCodec, cmd_writeCodec, CheckCodec, rx_readCodec, EndCodec DEF Driver

-----------------------------------------------------------------------------
(* The core                                                                *)

\* A step of the core that changes no register.
LEMMA CoreRegisters ==
  ASSUME CodecInv, Working, UNCHANGED <<driver, ghosts, regs>>,
         ~flush' => MessageOK'
  PROVE  CodecInv'
<1>1. UNCHANGED <<pc, call, status, rbuf, intended, failed, unseen, answer>>
  BY DEF driver, ghosts
<1>2. pc # "idle" /\ Working'
  BY <1>1 DEF Working
<1>3. BytesRead' /\ ReadOver'
  BY <1>1 DEF CodecInv, BytesRead, ReadOver, Reads
<1>4. QED
  BY <1>1, <1>2, <1>3, SameRegisters DEF CodecInv

LEMMA AbortCodec ==
  ASSUME RestInv, CodecInv, core # "IDLE", NEW flag \in {"nack", "arblost"}, Abort(flag),
         UNCHANGED <<driver, en, codec, ghosts>>
  PROVE  CodecInv'
<1>1. flush'
  BY DEF Abort, flush
<1>2. Working
  BY CoreContext
<1>3. QED
  BY <1>1, <1>2, CoreRegisters DEF codec

LEMMA PopCodec ==
  ASSUME RestInv, CodecInv, Pop
  PROVE  CodecInv'
<1>1. core # "IDLE" /\ ~flush /\ txfifo # <<>> /\ core \in {"PRE_START", "BUS_HOLD"}
  BY DEF Pop
<1>2. /\ UNCHANGED <<driver, en, rw, rxfifo, nack_det, arblost_det, rpos, regs, ghosts>>
      /\ tfr' = txfifo[1] /\ txfifo' = Tail(txfifo)
  BY DEF Pop
<1>3. /\ Working /\ Reads' = Reads /\ Whole' = Whole
      /\ Written' = Written /\ Written \in Nat /\ Written <= Whole
  BY <1>1, <1>2, CoreContext
<1>4. UnderWay /\ MessageOK /\ IsSeq(txfifo)
  BY <1>1, <1>3 DEF RestInv, ChipOK, CodecInv
<1>5. /\ Len(txfifo') = Len(txfifo) - 1
      /\ \A i \in 1 .. Len(txfifo') : txfifo'[i] = txfifo[i + 1]
      /\ Len(txfifo) \in Nat \ {0} /\ Len(txfifo') \in Nat
  BY <1>1, <1>2, <1>4, TailIs, LenIs
<1>6. Popped' = Popped + 1 /\ Popped \in Nat /\ Popped' <= Whole /\ Whole \in {5, 6}
  BY <1>3, <1>4, <1>5 DEF Popped, UnderWay, Whole
<1>7. UNCHANGED <<call, rbuf>>
  BY <1>2 DEF driver
<1>8. Count' = Count /\ txbuffer' = txbuffer
  BY <1>7, SameCall
<1>9. ByteOK(txfifo[1], Popped + 1) /\ Fits(txfifo[1], Popped + 1)
  BY <1>4, <1>5 DEF MessageOK, UnderWay
<1>10. ByteOK(tfr, Popped)'
  BY <1>2, <1>6, <1>8, <1>9 DEF ByteOK
<1>11. ASSUME NEW i \in 1 .. Len(txfifo') PROVE ByteOK(txfifo[i], Popped + i)'
  <2>1. i + 1 \in 1 .. Len(txfifo)
    BY <1>5
  <2>2. ByteOK(txfifo[i + 1], Popped + (i + 1))
    BY <1>4, <2>1 DEF MessageOK
  <2>3. Popped + (i + 1) = Popped' + i /\ txfifo'[i] = txfifo[i + 1]
    BY <1>5, <1>6
  <2>4. QED
    BY <1>8, <2>2, <2>3 DEF ByteOK
<1>12. Reads => \A i \in 1 .. Len(rxfifo') : rxfifo'[i] = regs'[call'.reg][Len(rbuf') + i]
  BY <1>2, <1>4, <1>7 DEF MessageOK
<1>13. CASE core = "PRE_START"
  <2>1. core' = "GEN_7BIT_ADDR" /\ Popped' = 1 /\ got' = <<>>
    BY <1>4, <1>6, <1>13 DEF Pop, UnderWay, Place
  <2>2. SentBytes' = 0 /\ IsSeq(got') /\ Len(got') = 0
    BY <1>8, <2>1, EmptyIs DEF SentBytes, Count
  <2>3. MessageOK'
    BY <1>3, <1>6, <1>11, <1>12, <2>1, <2>2 DEF MessageOK
  <2>4. QED
    BY <1>2, <1>3, <2>3, CoreRegisters
<1>14. CASE core = "BUS_HOLD"
  <2>1. got' = got /\ IsSeq(got) /\ Len(got) = SentBytes /\ \A i \in 1 .. SentBytes : got[i] = txbuffer[i]
    BY <1>4, <1>14 DEF Pop, MessageOK
  <2>2. Popped >= 1 /\ (rw = 0 <=> ~(Reads /\ Popped >= 4))
    BY <1>4, <1>14 DEF UnderWay, Place
  <2>3. CASE txfifo[1].restart
    <3>1. core' = "GEN_7BIT_ADDR" /\ Popped = 3 /\ Reads /\ Popped' = 4
      BY <1>6, <1>9, <1>14, <2>3 DEF Pop, Fits
    <3>2. SentBytes' = SentBytes
      BY <1>8, <1>14, <3>1 DEF SentBytes, Count
    <3>3. MessageOK'
      BY <1>3, <1>8, <1>11, <1>12, <2>1, <3>1, <3>2 DEF MessageOK
    <3>4. QED
      BY <1>2, <1>3, <3>3, CoreRegisters
  <2>4. CASE ~txfifo[1].restart /\ rw = 0
    <3>1. core' = "TX_BYTE" /\ (Reads => Popped < 4)
      BY <1>6, <1>14, <2>2, <2>4 DEF Pop
    <3>2. Reads => Popped # 3
      BY <1>6, <1>9, <2>4 DEF Fits
    <3>3. SentBytes' = SentBytes
      <4>1. SentBytes' = Popped' - 2
        BY <3>1 DEF SentBytes
      <4>2. Popped < Count
        BY <1>6, <3>1, <3>2 DEF Count, Whole
      <4>3. QED
        BY <1>6, <1>14, <4>1, <4>2 DEF SentBytes
    <3>4. MessageOK'
      BY <1>3, <1>6, <1>8, <1>10, <1>11, <1>12, <2>1, <3>1, <3>2, <3>3 DEF MessageOK
    <3>5. QED
      BY <1>2, <1>3, <3>4, CoreRegisters
  <2>5. CASE ~txfifo[1].restart /\ rw # 0
    <3>1. core' = "RX_BYTE" /\ Reads /\ Popped >= 4 /\ Popped' >= 5
      BY <1>6, <1>14, <2>2, <2>5 DEF Pop
    <3>2. SentBytes' = SentBytes
      BY <1>6, <1>8, <1>14, <3>1 DEF SentBytes, Count
    <3>3. Came = Popped - 4 /\ Came' = Popped' - 4 - 1
      <4>1. Came = Popped - 4
        BY <1>6, <1>14, <3>1 DEF Came
      <4>2. Came' = Popped' - 4 - 1
        BY <1>3, <1>6, <3>1 DEF Came
      <4>3. QED
        BY <4>1, <4>2
    <3>4. rpos' = Came'
      BY <1>2, <1>4, <1>6, <1>14, <3>1, <3>3 DEF MessageOK
    <3>5. MessageOK'
      BY <1>3, <1>8, <1>11, <1>12, <2>1, <3>1, <3>2, <3>4 DEF MessageOK
    <3>6. QED
      BY <1>2, <1>3, <3>5, CoreRegisters
  <2>6. QED
    BY <2>3, <2>4, <2>5
<1>15. QED
  BY <1>1, <1>13, <1>14

\* A byte or an address is over: the commands still to come are the same.
LEMMA ByteCodec ==
  ASSUME RestInv, MessageOK, core # "IDLE", UNCHANGED <<driver, en, txfifo>>
  PROVE  /\ Popped' = Popped /\ Count' = Count /\ txbuffer' = txbuffer
         /\ Reads' = Reads /\ Whole' = Whole /\ call' = call /\ rbuf' = rbuf
         /\ \A i \in 1 .. Len(txfifo') : ByteOK(txfifo[i], Popped + i)'
<1>1. Written' = Written /\ UNCHANGED <<call, rbuf>>
  BY CoreContext DEF driver
<1>2. Popped' = Popped
  BY <1>1 DEF Popped
<1>3. Count' = Count /\ txbuffer' = txbuffer /\ Reads' = Reads /\ Whole' = Whole
  BY <1>1, SameCall
<1>4. QED
  BY <1>1, <1>2, <1>3 DEF MessageOK, ByteOK

LEMMA AddressedCodec ==
  ASSUME RestInv, CodecInv, Addressed
  PROVE  CodecInv'
<1>1. /\ core = "GEN_7BIT_ADDR" /\ core' = "BUS_HOLD" /\ rpos' = 0
      /\ UNCHANGED <<driver, en, tfr, txfifo, rxfifo, nack_det, arblost_det, got, regs, ghosts>>
  BY DEF Addressed, fifos
<1>2. Working /\ UnderWay /\ ~flush /\ Popped \in Nat
  BY <1>1, CoreOnBus
<1>3. MessageOK
  BY <1>2 DEF CodecInv
<1>4. /\ Popped' = Popped /\ Count' = Count /\ txbuffer' = txbuffer
      /\ Reads' = Reads /\ Whole' = Whole /\ call' = call /\ rbuf' = rbuf
      /\ \A i \in 1 .. Len(txfifo') : ByteOK(txfifo[i], Popped + i)'
  BY <1>1, <1>3, ByteCodec
<1>5. Popped = 1 \/ (Reads /\ Popped = 4)
  BY <1>1, <1>2 DEF UnderWay, Place
<1>6. SentBytes' = SentBytes
  BY <1>1, <1>4 DEF SentBytes
<1>7. Came' = 0
  BY <1>1, <1>4, <1>5 DEF Came
<1>8. ~Reads => Popped # Whole
  BY <1>5 DEF Whole
<1>9. MessageOK'
  BY <1>1, <1>3, <1>4, <1>6, <1>7, <1>8 DEF MessageOK
<1>10. QED
  BY <1>1, <1>2, <1>9, CoreRegisters

LEMMA ReceivedCodec ==
  ASSUME RestInv, CodecInv, Received
  PROVE  CodecInv'
<1>1. /\ core = "RX_BYTE" /\ core' = (IF tfr.stop THEN "GEN_STOP" ELSE "BUS_HOLD")
      /\ rpos' = rpos + 1 /\ rxfifo' = Append(rxfifo, regs[got[2]][rpos'])
      /\ UNCHANGED <<driver, en, tfr, txfifo, nack_det, arblost_det, got, regs, ghosts>>
  BY DEF Received
<1>2. Working /\ UnderWay /\ ~flush /\ Popped \in Nat /\ IsSeq(rxfifo)
  BY <1>1, CoreOnBus
<1>3. MessageOK
  BY <1>2 DEF CodecInv
<1>4. /\ Popped' = Popped /\ Count' = Count /\ txbuffer' = txbuffer
      /\ Reads' = Reads /\ Whole' = Whole /\ call' = call /\ rbuf' = rbuf
      /\ \A i \in 1 .. Len(txfifo') : ByteOK(txfifo[i], Popped + i)'
  BY <1>1, <1>3, ByteCodec
<1>5. Reads /\ Popped >= 5
  BY <1>1, <1>2 DEF UnderWay, Place
<1>6. core' # "RX_BYTE" /\ core' # "TX_BYTE" /\ core' # "PRE_START" /\ core' # "GEN_7BIT_ADDR"
  BY <1>1
<1>7. SentBytes = 2 /\ SentBytes' = 2
  BY <1>1, <1>2, <1>4, <1>5, <1>6 DEF SentBytes, Count
<1>8. got[2] = call.reg
  BY <1>1, <1>3, <1>7, TxBytes DEF MessageOK
<1>9. Came = Popped - 4 - 1 /\ Came' = Popped - 4 - 0
  BY <1>1, <1>2, <1>4, <1>5, <1>6 DEF Came
<1>10. rpos = Came /\ rpos' = Came'
  <2>1. rpos = Came
    BY <1>1, <1>2, <1>3, <1>5 DEF MessageOK
  <2>2. QED
    BY <1>1, <1>2, <1>9, <2>1
<1>11. Len(rbuf) + Len(rxfifo) = Came /\ Len(rbuf) \in Nat /\ Len(rxfifo) \in Nat
  BY <1>2, LenIs DEF UnderWay, RestInv, ChipOK
<1>12. /\ Len(rxfifo') = Len(rxfifo) + 1
       /\ \A i \in 1 .. Len(rxfifo) : rxfifo'[i] = rxfifo[i]
       /\ rxfifo'[Len(rxfifo) + 1] = regs[got[2]][rpos']
  BY <1>1, <1>2, AppendIs
<1>13. ASSUME NEW i \in 1 .. Len(rxfifo') PROVE rxfifo'[i] = regs[call.reg][Len(rbuf) + i]
  <2>1. CASE i \in 1 .. Len(rxfifo)
    BY <1>3, <1>5, <1>12, <2>1 DEF MessageOK
  <2>2. CASE i = Len(rxfifo) + 1
    <3>1. Len(rbuf) + i = rpos'
      BY <1>1, <1>10, <1>11, <2>2
    <3>2. QED
      BY <1>8, <1>12, <2>2, <3>1
  <2>3. QED
    BY <1>11, <1>12, <2>1, <2>2
<1>14. MessageOK'
  BY <1>1, <1>3, <1>4, <1>5, <1>6, <1>7, <1>10, <1>13 DEF MessageOK
<1>15. QED
  BY <1>1, <1>2, <1>14, CoreRegisters

LEMMA StoppedCodec ==
  ASSUME RestInv, RestInv', CodecInv, Stopped
  PROVE  CodecInv'
<1>1. /\ core = "GEN_STOP" /\ core' \in {"PRE_IDLE", "PRE_START"}
      /\ UNCHANGED <<driver, en, tfr, txfifo, rxfifo, nack_det, arblost_det, got, rpos,
                     regs, ghosts>>
  BY DEF Stopped, fifos, codec
<1>2. Working /\ Working' /\ flush' = flush
  BY <1>1, CoreContext DEF flush
<1>3. ASSUME ~flush PROVE MessageOK'
  <2>1. MessageOK /\ UnderWay /\ UnderWay'
    BY <1>2, <1>3 DEF CodecInv, RestInv
  <2>2. /\ Popped' = Popped /\ Count' = Count /\ txbuffer' = txbuffer
        /\ Reads' = Reads /\ Whole' = Whole /\ call' = call /\ rbuf' = rbuf
        /\ \A i \in 1 .. Len(txfifo') : ByteOK(txfifo[i], Popped + i)'
    BY <1>1, <2>1, ByteCodec
  <2>3. Popped = Whole /\ Whole \in {5, 6}
    BY <1>1, <2>1 DEF UnderWay, Place, Whole
  <2>4. core' = "PRE_START" => Popped' = 0
    BY <2>1 DEF UnderWay, Place
  <2>5. core' = "PRE_IDLE"
    BY <1>1, <2>2, <2>3, <2>4
  <2>6. SentBytes' = SentBytes /\ Came' = Came
    BY <1>1, <2>2, <2>5 DEF SentBytes, Came
  <2>7. QED
    BY <1>1, <2>1, <2>2, <2>5, <2>6 DEF MessageOK
<1>4. QED
  BY <1>1, <1>2, <1>3, CoreRegisters

(* The codec takes the value over with its second byte, and then has all of*)
(* the message.                                                            *)
LEMMA SentCodec ==
  ASSUME RestInv, CodecInv, Sent
  PROVE  CodecInv'
<1>1. /\ core = "TX_BYTE" /\ core' = (IF tfr.stop THEN "GEN_STOP" ELSE "BUS_HOLD")
      /\ got' = Append(got, tfr.byte)
      /\ regs' = IF Len(got') = 4 THEN [regs EXCEPT ![got'[2]] = <<got'[3], got'[4]>>] ELSE regs
      /\ UNCHANGED <<driver, en, tfr, txfifo, rxfifo, nack_det, arblost_det, rpos, ghosts>>
  BY DEF Sent, fifos
<1>2. /\ Working /\ UnderWay /\ ~flush /\ Popped \in Nat /\ Popped <= Whole /\ Whole \in {5, 6}
      /\ call.op \in {"read", "write"} /\ pc # "idle"
  BY <1>1, CoreOnBus DEF RestInv, DriverOK, Working
<1>3. MessageOK
  BY <1>2 DEF CodecInv
<1>4. /\ Popped' = Popped /\ Count' = Count /\ txbuffer' = txbuffer
      /\ Reads' = Reads /\ Whole' = Whole /\ call' = call /\ rbuf' = rbuf
      /\ \A i \in 1 .. Len(txfifo') : ByteOK(txfifo[i], Popped + i)'
  BY <1>1, <1>3, ByteCodec
<1>5. Popped >= 2 /\ (Reads => Popped <= 3)
  BY <1>1, <1>2 DEF UnderWay, Place
<1>6. core' # "TX_BYTE" /\ core' # "RX_BYTE" /\ core' # "PRE_START"
  BY <1>1
<1>7. Popped \in 2 .. Count /\ Count \in {3, 5}
  BY <1>2, <1>5 DEF Count, Whole
<1>8. SentBytes = Popped - 2 /\ SentBytes' = Popped - 1
  <2>1. SentBytes = Popped - 2
    BY <1>1 DEF SentBytes
  <2>2. SentBytes' = IF Popped < Count THEN Popped - 1 ELSE Count - 1
    BY <1>4, <1>6 DEF SentBytes
  <2>3. QED
    BY <1>7, <2>1, <2>2
<1>9. tfr.byte = txbuffer[Popped - 1]
  BY <1>1, <1>3, <1>7 DEF MessageOK, ByteOK
<1>10. IsSeq(got) /\ Len(got) = Popped - 2 /\ \A i \in 1 .. Popped - 2 : got[i] = txbuffer[i]
  BY <1>1, <1>3, <1>8 DEF MessageOK
<1>11. /\ IsSeq(got') /\ Len(got') = Popped - 1
       /\ \A i \in 1 .. Popped - 1 : got'[i] = txbuffer[i]
  <2>1. /\ IsSeq(got') /\ Len(got') = Len(got) + 1
        /\ \A i \in 1 .. Len(got) : got'[i] = got[i]
        /\ got'[Len(got) + 1] = tfr.byte
    BY <1>1, <1>10, AppendIs
  <2>2. Len(got) + 1 = Popped - 1
    BY <1>2, <1>10
  <2>3. ASSUME NEW i \in 1 .. Popped - 1 PROVE got'[i] = txbuffer[i]
    <3>1. CASE i \in 1 .. Popped - 2
      BY <1>10, <2>1, <3>1
    <3>2. CASE i = Popped - 1
      BY <1>9, <2>1, <2>2, <3>2
    <3>3. QED
      BY <1>2, <3>1, <3>2
  <2>4. QED
    BY <2>1, <2>2, <2>3
<1>12. CASE Popped = 5
  <2>1. ~Reads /\ call.op = "write"
    BY <1>2, <1>5, <1>12 DEF Reads
  <2>2. call.reg \in Registers /\ call.val \in Value
    BY <1>2, <2>1 DEF CodecInv, CallOK
  <2>3. Len(got') = 4 /\ got'[2] = call.reg /\ got'[3] = call.val[1] /\ got'[4] = call.val[2]
    BY <1>11, <1>12, <2>1, TxBytes
  <2>4. regs' = [regs EXCEPT ![call.reg] = call.val]
    <3>1. <<call.val[1], call.val[2]>> = call.val
      BY <2>2, PairIs
    <3>2. QED
      BY <1>1, <2>3, <3>1
  <2>5. regs' \in [Registers -> Value] /\ regs'[call.reg] = call.val
        /\ \A r \in Registers : r # call.reg => regs'[r] = regs[r]
    BY <2>2, <2>4 DEF CodecInv
  <2>6. UNCHANGED <<pc, call, status, rbuf, intended, failed, unseen, answer>>
    BY <1>1 DEF driver, ghosts
  <2>7. OthersKnown'
    BY <1>2, <2>1, <2>5, <2>6 DEF CodecInv, OthersKnown
  <2>8. CallOK' /\ AnswerKnown'
    BY <1>2, <2>6 DEF CodecInv, CallOK, AnswerKnown
  <2>9. BytesRead' /\ ReadOver'
    BY <1>2, <1>4, <2>1, <2>6 DEF CodecInv, BytesRead, ReadOver
  <2>10. MessageOK'
    BY <1>4, <1>6, <1>8, <1>11, <2>1, <2>5 DEF MessageOK
  <2>11. QED
    BY <2>5, <2>6, <2>7, <2>8, <2>9, <2>10 DEF CodecInv
<1>13. CASE Popped # 5
  <2>1. regs' = regs
    BY <1>1, <1>2, <1>11, <1>13
  <2>2. ~Reads => Popped # Whole
    BY <1>13 DEF Whole
  <2>3. Reads => ~(Popped >= 4)
    BY <1>2, <1>5
  <2>4. IsSeq(got') /\ Len(got') = SentBytes' /\ \A i \in 1 .. SentBytes' : got'[i] = txbuffer'[i]
    BY <1>4, <1>8, <1>11
  <2>5. Reads => \A i \in 1 .. Len(rxfifo') : rxfifo'[i] = regs'[call'.reg][Len(rbuf') + i]
    BY <1>1, <1>3, <1>4, <2>1 DEF MessageOK
  <2>6. MessageOK'
    BY <1>4, <1>6, <2>2, <2>3, <2>4, <2>5 DEF MessageOK
  <2>7. QED
    BY <1>1, <1>2, <2>1, <2>6, CoreRegisters
<1>14. QED
  BY <1>12, <1>13

LEMMA CoreCodec ==
  ASSUME RestInv, RestInv', CodecInv, Core
  PROVE  CodecInv'
<1>1. CASE Refused
  BY <1>1, AbortCodec DEF Refused
<1>2. CASE ArbLost
  BY <1>2, AbortCodec DEF ArbLost
<1>3. QED
  BY <1>1, <1>2, PopCodec, AddressedCodec, SentCodec, ReceivedCodec, StoppedCodec DEF Core

LEMMA StutterCodec ==
  ASSUME CodecInv, UNCHANGED vars
  PROVE  CodecInv'
<1>1. UNCHANGED <<pc, call, phase, n, status, rbuf, core, tfr, txfifo, rxfifo, nack_det,
                  arblost_det, got, rpos, regs, intended, failed, unseen, answer>>
  BY DEF vars, driver, chip, fifos, codec, ghosts
<1>2. UNCHANGED <<Working, flush, Reads, Written>>
  BY <1>1 DEF Working, flush, Reads, Written
<1>3. MessageOK => MessageOK'
  BY <1>1, <1>2, MessageStays DEF MessageOK
<1>4. CallOK' /\ OthersKnown' /\ AnswerKnown'
  BY <1>1 DEF CodecInv, CallOK, OthersKnown, AnswerKnown
<1>5. (BytesRead => BytesRead') /\ (ReadOver => ReadOver')
  BY <1>1, <1>2 DEF BytesRead, ReadOver
<1>6. QED
  BY <1>1, <1>2, <1>3, <1>4, <1>5 DEF CodecInv

(***************************************************************************)
(* However many attempts it took and whatever was refused or lost in them, *)
(* a register whose last write was not reported as an error holds the value*)
(* written, unless another master took the bus after the driver's last     *)
(* look, and a successful read returned what the register holds; for every *)
(* script, depth of the FIFO and number of attempts                        *)
(* (altera_avalon_i2c.c:511, 572).                                         *)
(***************************************************************************)
THEOREM RegistersKnown == Spec => []CodecKnown
<1>1. CodecInv => CodecKnown
  BY DEF CodecInv, OthersKnown, AnswerKnown, CodecKnown
<1>2. RestInv /\ CodecInv /\ [Next]_vars => RestInv' /\ CodecInv'
  <2>1. RestInv /\ [Next]_vars => RestInv'
    BY CallerKeeps, DriverKeeps, CoreKeeps, StutterKeeps DEF Next
  <2>2. RestInv /\ RestInv' /\ CodecInv /\ [Next]_vars => CodecInv'
    BY CallerCodec, DriverCodec, CoreCodec, StutterCodec DEF Next
  <2>3. QED
    BY <2>1, <2>2
<1>3. QED
  BY RestStart, CodecStart, <1>1, <1>2, PTL DEF Spec
=============================================================================
