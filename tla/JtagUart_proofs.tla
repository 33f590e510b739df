-------------------------- MODULE JtagUart_proofs --------------------------
(***************************************************************************)
(* Neither interrupt of the console driver stays off while it is needed,   *)
(* and no character is lost, repeated or overwritten, for rings, FIFOs and *)
(* requests of any size.                                                   *)
(***************************************************************************)
EXTENDS JtagUart, TLAPS

IndexOK ==
  /\ rx_in \in 0 .. BUF_LEN - 1 /\ rx_out \in 0 .. BUF_LEN - 1
  /\ tx_in \in 0 .. BUF_LEN - 1 /\ tx_out \in 0 .. BUF_LEN - 1
  /\ seen \in 0 .. BUF_LEN - 1 /\ count \in Int

\* The routine leaves its receive loop with characters waiting only when the
\* ring is full, and nothing takes from the ring before it returns.
OffWhenFull == isr = "rx_off" /\ ravail => RxFull

WakeupInv == IndexOK /\ OffWhenFull /\ NoLostWakeup

LEMMA PlusRange ==
  ASSUME NEW i \in Int, NEW n \in Int
  PROVE  Plus(i, n) \in 0 .. BUF_LEN - 1
BY UartAssumption DEF Plus

LEMMA PlusNone ==
  ASSUME NEW i \in 0 .. BUF_LEN - 1
  PROVE  Plus(i, 0) = i
BY UartAssumption DEF Plus

LEMMA IndexStart == Init => WakeupInv
<1> SUFFICES ASSUME Init PROVE WakeupInv
  OBVIOUS
<1>1. IndexOK
  BY UartAssumption DEF Init, IndexOK
<1>2. OffWhenFull /\ NoLostWakeup
  BY DEF Init, OffWhenFull, NoLostWakeup
<1>3. QED
  BY <1>1, <1>2 DEF WakeupInv

(* Every index stays within its ring.                                      *)
LEMMA IndexKept ==
  ASSUME IndexOK, [Next]_vars
  PROVE  IndexOK'
<1>0. /\ 0 \in 0 .. BUF_LEN - 1 /\ Amount \in Int
      /\ Fewer(Ready, count) \in Int
  BY UartAssumption DEF IndexOK, Amount, Room, Ready, Fewer
<1>1. CASE UNCHANGED vars
  BY <1>1 DEF IndexOK, vars, request, rx, tx
<1>2. CASE Write \/ Read
  BY <1>2, UartAssumption DEF Write, Read, IndexOK, rx, tx
<1>3. CASE WriteLook \/ WriteFill \/ ReadLook
  BY <1>3 DEF WriteLook, WriteFill, ReadLook, IndexOK, rx, tx
<1>4. CASE WriteAdvance
  <2>1. tx_in' = Plus(tx_in, Amount) /\ count' = count - Amount
        /\ UNCHANGED <<seen, tx_out, rx_in, rx_out>>
    BY <1>4 DEF WriteAdvance, rx
  <2>2. tx_in \in Int
    BY DEF IndexOK
  <2>3. tx_in' \in 0 .. BUF_LEN - 1
    BY <1>0, <2>1, <2>2, PlusRange
  <2>4. QED
    BY <1>0, <2>1, <2>3 DEF IndexOK
<1>5. CASE WriteEnable \/ WriteWait \/ WriteWoken \/ ReadWait \/ ReadWoken \/ ReadEnable
  BY <1>0, <1>5
     DEF WriteEnable, WriteWait, WriteWoken, ReadWait, ReadWoken, ReadEnable, Return, Goto,
         IndexOK, rx, tx
<1>6. CASE ReadCopy
  <2>1. /\ rx_out' = Plus(rx_out, Fewer(Ready, count))
        /\ seen' \in {seen, 0} /\ count' \in {count, 0, count - Fewer(Ready, count)}
        /\ UNCHANGED <<rx_in, tx_in, tx_out>>
    BY <1>6 DEF ReadCopy, Return, Goto, tx
  <2>2. rx_out \in Int
    BY DEF IndexOK
  <2>3. rx_out' \in 0 .. BUF_LEN - 1
    BY <1>0, <2>1, <2>2, PlusRange
  <2>4. QED
    BY <1>0, <2>1, <2>3 DEF IndexOK
<1>7. CASE IrqCheck \/ IrqRxFull \/ IrqRxOff \/ IrqTxOff \/ Alarm \/ Host
  BY <1>7 DEF IrqCheck, IrqRxFull, IrqRxOff, IrqTxOff, Alarm, Host, HostShow, HostType,
              HostPause, IndexOK, request, rx, tx
<1>8. CASE IrqRx
  <2>1. /\ rx_in' \in {rx_in, Plus(rx_in, 1)}
        /\ UNCHANGED <<rx_out, tx_in, tx_out, seen, count>>
    BY <1>8 DEF IrqRx, request, tx
  <2>2. Plus(rx_in, 1) \in 0 .. BUF_LEN - 1
    BY PlusRange DEF IndexOK
  <2>3. QED
    BY <2>1, <2>2 DEF IndexOK
<1>9. CASE IrqTx
  <2>1. tx_out' = Plus(tx_out, 1) /\ UNCHANGED <<rx_in, rx_out, tx_in, seen, count>>
    BY <1>9 DEF IrqTx, request, rx
  <2>2. Plus(tx_out, 1) \in 0 .. BUF_LEN - 1
    BY PlusRange DEF IndexOK
  <2>3. QED
    BY <2>1, <2>2 DEF IndexOK
<1>10. QED
  BY <1>1, <1>2, <1>3, <1>4, <1>5, <1>6, <1>7, <1>8, <1>9
     DEF Next, WriteSteps, ReadSteps, Irq

(* The foreground runs only outside of the routine, and takes from the     *)
(* receive ring only on the way to enabling its interrupt.                 *)
LEMMA ForegroundKeeps ==
  ASSUME WakeupInv, Write \/ WriteSteps \/ Read \/ ReadSteps
  PROVE  OffWhenFull' /\ NoLostWakeup'
<1>1. isr = "none" /\ isr' = isr
  BY DEF Write, WriteSteps, WriteLook, WriteFill, WriteAdvance, WriteEnable, WriteWait,
         WriteWoken, Read, ReadSteps, ReadLook, ReadCopy, ReadWait, ReadWoken, ReadEnable,
         Foreground, routine
<1>2. OffWhenFull'
  BY <1>1 DEF OffWhenFull
<1>3. CASE Write \/ WriteLook \/ WriteFill \/ WriteAdvance
  <2>1. /\ (RxFull' <=> RxFull) /\ UNCHANGED irq_enable
        /\ fg \notin {"r_look", "r_copy", "r_enable"}
        /\ fg' \in {"w_copy", "w_fill", "w_advance", "w_enable"}
    BY <1>3 DEF Write, WriteLook, WriteFill, WriteAdvance, RxFull, rx
  <2>2. QED
    BY <1>2, <2>1 DEF WakeupInv, NoLostWakeup
<1>4. CASE WriteEnable
  <2>1. /\ (RxFull' <=> RxFull) /\ irq_enable' = irq_enable \cup {"WE"}
        /\ fg = "w_enable"
    BY <1>4 DEF WriteEnable, RxFull, rx
  <2>2. QED
    BY <1>2, <2>1 DEF WakeupInv, NoLostWakeup
<1>5. CASE WriteWait \/ WriteWoken \/ ReadWait \/ ReadWoken
  <2>1. /\ (RxFull' <=> RxFull) /\ UNCHANGED <<tx_in, tx_out, irq_enable>>
        /\ fg \in {"w_wait", "w_woken", "r_wait", "r_woken"}
    BY <1>5 DEF WriteWait, WriteWoken, ReadWait, ReadWoken, RxFull, rx, tx
  <2>2. QED
    BY <1>2, <2>1 DEF WakeupInv, NoLostWakeup
<1>6. CASE Read
  <2>1. /\ (RxFull' <=> RxFull) /\ UNCHANGED <<tx_in, tx_out, irq_enable>>
        /\ fg = "idle"
    BY <1>6 DEF Read, RxFull, rx, tx
  <2>2. QED
    BY <1>2, <2>1 DEF WakeupInv, NoLostWakeup
<1>7. CASE ReadLook
  <2>1. /\ (RxFull' <=> RxFull) /\ UNCHANGED <<tx_in, tx_out, irq_enable, some>>
        /\ fg = "r_look" /\ fg' = "r_copy"
    BY <1>7 DEF ReadLook, RxFull, rx, tx
  <2>2. QED
    BY <1>2, <2>1 DEF WakeupInv, NoLostWakeup
<1>8. CASE ReadEnable
  <2>1. /\ irq_enable' = irq_enable \cup {"RE"} /\ UNCHANGED <<tx_in, tx_out>>
        /\ fg = "r_enable"
    BY <1>8 DEF ReadEnable, tx
  <2>2. QED
    BY <1>2, <2>1 DEF WakeupInv, NoLostWakeup
<1>9. CASE ReadCopy
  <2> DEFINE n == Fewer(Ready, count)
  <2>1. /\ fg = "r_copy" /\ UNCHANGED <<rx_in, tx_in, tx_out, irq_enable>>
        /\ rx_out' = Plus(rx_out, n)
    BY <1>9 DEF ReadCopy, tx
  <2>2. CASE n = 0 /\ ~some
    <3>1. rx_out' = rx_out
      BY <2>1, <2>2, PlusNone DEF WakeupInv, IndexOK
    <3>2. RxFull' <=> RxFull
      BY <2>1, <3>1 DEF RxFull
    <3>3. QED
      BY <1>2, <2>1, <2>2, <3>2 DEF WakeupInv, NoLostWakeup
  <2>3. CASE ~(n = 0 /\ ~some)
    <3>1. some' = TRUE /\ fg' \in {"r_look", "r_enable"}
      BY <1>9, <2>3 DEF ReadCopy
    <3>2. QED
      BY <1>2, <2>1, <3>1 DEF WakeupInv, NoLostWakeup
  <2>4. QED
    BY <2>2, <2>3
<1>10. QED
  BY <1>2, <1>3, <1>4, <1>5, <1>6, <1>7, <1>8, <1>9 DEF WriteSteps, ReadSteps

(* The routine disables the read interrupt with the ring full, and the     *)
(* write interrupt with the ring empty.                                    *)
LEMMA RoutineKeeps ==
  ASSUME WakeupInv, Irq
  PROVE  OffWhenFull' /\ NoLostWakeup'
<1>1. UNCHANGED <<fg, some>>
  BY DEF Irq, IrqCheck, IrqRx, IrqRxFull, IrqRxOff, IrqTx, IrqTxOff, request
<1>2. CASE IrqCheck
  BY <1>1, <1>2 DEF IrqCheck, WakeupInv, OffWhenFull, NoLostWakeup, RxFull, rx, tx
<1>3. CASE IrqRx
  <2>1. /\ ~RxFull /\ UNCHANGED <<tx_in, tx_out, irq_enable>>
        /\ isr' = "rx_off" => ~ravail'
    BY <1>3 DEF IrqRx, tx
  <2>2. OffWhenFull'
    BY <2>1 DEF OffWhenFull
  <2>3. NoLostWakeup'
    BY <1>1, <2>1 DEF WakeupInv, NoLostWakeup
  <2>4. QED
    BY <2>2, <2>3
<1>4. CASE IrqRxFull
  <2>1. RxFull /\ RxFull' /\ UNCHANGED <<tx_in, tx_out, irq_enable>>
    BY <1>4 DEF IrqRxFull, RxFull, rx, tx
  <2>2. QED
    BY <1>1, <2>1 DEF WakeupInv, OffWhenFull, NoLostWakeup
<1>5. CASE IrqRxOff
  <2>1. /\ isr' # "rx_off" /\ (RxFull' <=> RxFull) /\ UNCHANGED <<tx_in, tx_out>>
        /\ irq_enable' = IF ravail THEN irq_enable \ {"RE"} ELSE irq_enable
        /\ ravail => RxFull
    BY <1>5 DEF IrqRxOff, WakeupInv, OffWhenFull, RxFull, rx, tx
  <2>2. QED
    BY <1>1, <2>1 DEF WakeupInv, OffWhenFull, NoLostWakeup
<1>6. CASE IrqTx
  <2>1. /\ isr' = "tx" /\ tx_out # tx_in /\ (RxFull' <=> RxFull)
        /\ UNCHANGED irq_enable /\ isr = "tx"
    BY <1>6 DEF IrqTx, RxFull, rx
  <2>2. QED
    BY <1>1, <2>1 DEF WakeupInv, OffWhenFull, NoLostWakeup
<1>7. CASE IrqTxOff
  <2>1. /\ isr' = "check" /\ (RxFull' <=> RxFull) /\ UNCHANGED <<tx_in, tx_out>>
        /\ ~(space > 0 /\ tx_out # tx_in)
        /\ irq_enable' = IF space > 0 THEN irq_enable \ {"WE"} ELSE irq_enable
    BY <1>7 DEF IrqTxOff, TxEmptied, RxFull, rx, tx
  <2>2. QED
    BY <1>1, <2>1 DEF WakeupInv, OffWhenFull, NoLostWakeup
<1>8. QED
  BY <1>2, <1>3, <1>4, <1>5, <1>6, <1>7 DEF Irq

(* However foreground, interrupt routine, alarm and host preempt each      *)
(* other, characters never lie in the transmit ring with the write         *)
(* interrupt off, nor is there room in the receive ring with the read      *)
(* interrupt off, but on the way to the step that enables it (write.c:137, *)
(* read.c:188, init.c:156-194).                                            *)
THEOREM WakeupsKept == Spec => []NoLostWakeup
<1>1. WakeupInv /\ [Next]_vars => WakeupInv'
  <2> SUFFICES ASSUME WakeupInv, [Next]_vars PROVE WakeupInv'
    OBVIOUS
  <2>1. IndexOK'
    BY IndexKept DEF WakeupInv
  <2>2. CASE UNCHANGED vars \/ Alarm \/ Host
    <3>1. UNCHANGED <<fg, some, isr, ravail, irq_enable, rx_in, rx_out, tx_in, tx_out>>
      BY <2>2 DEF vars, request, routine, rx, tx, Alarm, Host, HostShow, HostType, HostPause
    <3>2. QED
      BY <2>1, <3>1 DEF WakeupInv, OffWhenFull, NoLostWakeup, RxFull
  <2>3. CASE Write \/ WriteSteps \/ Read \/ ReadSteps
    BY <2>1, <2>3, ForegroundKeeps DEF WakeupInv
  <2>4. CASE Irq
    BY <2>1, <2>4, RoutineKeeps DEF WakeupInv
  <2>5. QED
    BY <2>2, <2>3, <2>4 DEF Next
<1>2. WakeupInv => NoLostWakeup
  BY DEF WakeupInv
<1>3. QED
  BY IndexStart, <1>1, <1>2, PTL DEF Spec

-----------------------------------------------------------------------------
(* Indexes and numbers that go round                                       *)

LEMMA PlusIs ==
  ASSUME NEW i \in 0 .. BUF_LEN - 1, NEW n \in 0 .. BUF_LEN
  PROVE  /\ Plus(i, n) = IF i + n < BUF_LEN THEN i + n ELSE i + n - BUF_LEN
         /\ Plus(i, n) \in 0 .. BUF_LEN - 1
BY UartAssumption DEF Plus

LEMMA UsedIs ==
  ASSUME NEW in \in 0 .. BUF_LEN - 1, NEW out \in 0 .. BUF_LEN - 1
  PROVE  /\ Used(in, out) = IF in >= out THEN in - out ELSE in - out + BUF_LEN
         /\ Used(in, out) \in 0 .. BUF_LEN - 1
BY UartAssumption DEF Used

LEMMA NumberIs ==
  ASSUME NEW i \in 0 .. Numbers - 1, NEW n \in 0 .. Numbers - 1
  PROVE  /\ Number(i, n) = IF i + n < Numbers THEN i + n ELSE i + n - Numbers
         /\ Number(i, n) \in 0 .. Numbers - 1
BY UartAssumption DEF Number

LEMMA NumberRange ==
  ASSUME NEW i \in Int, NEW n \in Int
  PROVE  Number(i, n) \in 0 .. Numbers - 1
BY UartAssumption DEF Number

LEMMA NumberTwice ==
  ASSUME NEW i \in 0 .. Numbers - 1, NEW m \in Nat, NEW n \in Nat, m + n < Numbers
  PROVE  Number(Number(i, m), n) = Number(i, m + n)
<1> DEFINE p == Number(i, m)
<1>1. /\ Numbers \in Nat
      /\ m \in 0 .. Numbers - 1 /\ n \in 0 .. Numbers - 1 /\ m + n \in 0 .. Numbers - 1
  BY UartAssumption
<1>2. p = (IF i + m < Numbers THEN i + m ELSE i + m - Numbers) /\ p \in 0 .. Numbers - 1
  BY <1>1, NumberIs
<1>3. Number(i, m + n) = IF i + (m + n) < Numbers THEN i + (m + n) ELSE i + (m + n) - Numbers
  BY <1>1, NumberIs
<1> HIDE DEF p
<1>4. Number(p, n) = IF p + n < Numbers THEN p + n ELSE p + n - Numbers
  BY <1>1, <1>2, NumberIs
<1>5. Number(p, n) = Number(i, m + n)
  BY <1>1, <1>2, <1>3, <1>4
<1>6. QED
  BY <1>5 DEF p

LEMMA PlusTwice ==
  ASSUME NEW i \in 0 .. BUF_LEN - 1, NEW m \in Nat, NEW n \in Nat, m + n <= BUF_LEN
  PROVE  Plus(Plus(i, m), n) = Plus(i, m + n)
<1> DEFINE p == Plus(i, m)
<1>1. /\ BUF_LEN \in Nat
      /\ m \in 0 .. BUF_LEN /\ n \in 0 .. BUF_LEN /\ m + n \in 0 .. BUF_LEN
  BY UartAssumption
<1>2. p = (IF i + m < BUF_LEN THEN i + m ELSE i + m - BUF_LEN) /\ p \in 0 .. BUF_LEN - 1
  BY <1>1, PlusIs
<1>3. Plus(i, m + n) = IF i + (m + n) < BUF_LEN THEN i + (m + n) ELSE i + (m + n) - BUF_LEN
  BY <1>1, PlusIs
<1> HIDE DEF p
<1>4. Plus(p, n) = IF p + n < BUF_LEN THEN p + n ELSE p + n - BUF_LEN
  BY <1>1, <1>2, PlusIs
<1>5. Plus(p, n) = Plus(i, m + n)
  BY <1>1, <1>2, <1>3, <1>4
<1>6. QED
  BY <1>5 DEF p

(* The ring's fill level when its ends move.                               *)
LEMMA UsedMoves ==
  ASSUME NEW in \in 0 .. BUF_LEN - 1, NEW out \in 0 .. BUF_LEN - 1, NEW k \in Nat
  PROVE  /\ Plus(out, Used(in, out)) = in
         /\ k + Used(in, out) < BUF_LEN => Used(Plus(in, k), out) = Used(in, out) + k
         /\ k <= Used(in, out) => Used(in, Plus(out, k)) = Used(in, out) - k
<1> DEFINE u == Used(in, out)
<1>1. BUF_LEN \in Nat \ {0}
  BY UartAssumption
<1>2. u = (IF in >= out THEN in - out ELSE in - out + BUF_LEN) /\ u \in 0 .. BUF_LEN - 1
  BY UsedIs
<1> HIDE DEF u
<1>3. Plus(out, u) = in
  <2>1. u \in 0 .. BUF_LEN
    BY <1>1, <1>2
  <2>2. Plus(out, u) = IF out + u < BUF_LEN THEN out + u ELSE out + u - BUF_LEN
    BY <2>1, PlusIs
  <2>3. QED
    BY <1>1, <1>2, <2>2
<1>4. ASSUME k + u < BUF_LEN
      PROVE  Used(Plus(in, k), out) = u + k
  <2> DEFINE q == Plus(in, k)
  <2>1. k \in 0 .. BUF_LEN
    BY <1>1, <1>2, <1>4
  <2>2. q = (IF in + k < BUF_LEN THEN in + k ELSE in + k - BUF_LEN) /\ q \in 0 .. BUF_LEN - 1
    BY <2>1, PlusIs
  <2> HIDE DEF q
  <2>3. Used(q, out) = IF q >= out THEN q - out ELSE q - out + BUF_LEN
    BY <2>2, UsedIs
  <2>4. Used(q, out) = u + k
    BY <1>1, <1>2, <1>4, <2>2, <2>3
  <2>5. QED
    BY <2>4 DEF q
<1>5. ASSUME k <= u
      PROVE  Used(in, Plus(out, k)) = u - k
  <2> DEFINE q == Plus(out, k)
  <2>1. k \in 0 .. BUF_LEN
    BY <1>1, <1>2, <1>5
  <2>2. q = (IF out + k < BUF_LEN THEN out + k ELSE out + k - BUF_LEN) /\ q \in 0 .. BUF_LEN - 1
    BY <2>1, PlusIs
  <2> HIDE DEF q
  <2>3. Used(in, q) = IF in >= q THEN in - q ELSE in - q + BUF_LEN
    BY <2>2, UsedIs
  <2>4. Used(in, q) = u - k
    BY <1>1, <1>2, <1>5, <2>2, <2>3
  <2>5. QED
    BY <2>4 DEF q
<1>6. QED
  BY <1>3, <1>4, <1>5 DEF u

-----------------------------------------------------------------------------
(* A FIFO, and a ring, that hold the numbers from n on                     *)

SeqHolds(s, n) == \A i \in 1 .. Len(s) : s[i] = Number(n, i - 1)

RingHolds(buf, in, out, n) ==
  \A j \in 0 .. Used(in, out) - 1 : buf[Plus(out, j)] = Number(n, j)

LEMMA SeqPut ==
  ASSUME NEW s \in Seq(Nat), NEW n, NEW v \in Nat,
         SeqHolds(s, n), v = Number(n, Len(s))
  PROVE  SeqHolds(Append(s, v), n)
BY DEF SeqHolds

LEMMA SeqTake ==
  ASSUME NEW s \in Seq(Nat), NEW n \in 0 .. Numbers - 1,
         s # <<>>, Len(s) < Numbers, SeqHolds(s, n)
  PROVE  SeqHolds(Tail(s), Number(n, 1))
<1> SUFFICES ASSUME NEW i \in 1 .. Len(Tail(s))
             PROVE  Tail(s)[i] = Number(Number(n, 1), i - 1)
  BY DEF SeqHolds
<1>1. i + 1 \in 1 .. Len(s) /\ Tail(s)[i] = s[i + 1] /\ i - 1 \in Nat /\ 1 + (i - 1) < Numbers
  BY UartAssumption
<1>2. Number(Number(n, 1), i - 1) = Number(n, 1 + (i - 1))
  BY <1>1, NumberTwice
<1>3. s[i + 1] = Number(n, (i + 1) - 1)
  BY <1>1 DEF SeqHolds
<1>4. 1 + (i - 1) = (i + 1) - 1
  OBVIOUS
<1>5. QED
  BY <1>1, <1>2, <1>3, <1>4

(* The reader takes k from the ring.                                       *)
LEMMA RingTake ==
  ASSUME NEW buf, NEW in \in 0 .. BUF_LEN - 1, NEW out \in 0 .. BUF_LEN - 1,
         NEW n \in 0 .. Numbers - 1, NEW k \in 0 .. Used(in, out),
         RingHolds(buf, in, out, n)
  PROVE  /\ RingHolds(buf, in, Plus(out, k), Number(n, k))
         /\ Number(Number(n, k), Used(in, Plus(out, k))) = Number(n, Used(in, out))
<1> DEFINE u == Used(in, out)
<1>1. u \in 0 .. BUF_LEN - 1 /\ k \in Nat /\ BUF_LEN \in Nat /\ Numbers \in Nat
      /\ BUF_LEN < Numbers
  BY UsedIs, UartAssumption
<1>2. Used(in, Plus(out, k)) = u - k
  BY <1>1, UsedMoves
<1> HIDE DEF u
<1>3. ASSUME NEW j \in 0 .. u - k - 1
      PROVE  buf[Plus(Plus(out, k), j)] = Number(Number(n, k), j)
  <2>1. j \in Nat /\ k + j <= BUF_LEN /\ k + j < Numbers /\ k + j \in 0 .. u - 1
    BY <1>1, <1>3
  <2>2. Plus(Plus(out, k), j) = Plus(out, k + j)
    BY <1>1, <2>1, PlusTwice
  <2>3. Number(Number(n, k), j) = Number(n, k + j)
    BY <1>1, <2>1, NumberTwice
  <2>4. buf[Plus(out, k + j)] = Number(n, k + j)
    BY <2>1 DEF RingHolds, u
  <2>5. QED
    BY <2>2, <2>3, <2>4
<1>4. Number(Number(n, k), u - k) = Number(n, u)
  <2>1. u - k \in Nat /\ k + (u - k) = u /\ k + (u - k) < Numbers
    BY <1>1 DEF u
  <2>2. Number(Number(n, k), u - k) = Number(n, k + (u - k))
    BY <1>1, <2>1, NumberTwice
  <2>3. QED
    BY <2>1, <2>2
<1>5. QED
  BY <1>2, <1>3, <1>4 DEF RingHolds, u

\* The k bytes from the ring's end on hold the numbers from n on.
Ahead(buf, in, k, n) == \A j \in 0 .. k - 1 : buf[Plus(in, j)] = Number(n, j)

(* The writer adds the k bytes ahead of it to the ring.                    *)
LEMMA RingPut ==
  ASSUME NEW b, NEW in \in 0 .. BUF_LEN - 1, NEW out \in 0 .. BUF_LEN - 1,
         NEW n \in 0 .. Numbers - 1, NEW k \in Nat, k + Used(in, out) < BUF_LEN,
         RingHolds(b, in, out, n), Ahead(b, in, k, Number(n, Used(in, out)))
  PROVE  /\ RingHolds(b, Plus(in, k), out, n)
         /\ Number(n, Used(Plus(in, k), out)) = Number(Number(n, Used(in, out)), k)
<1> DEFINE u == Used(in, out)
<1>1. u \in 0 .. BUF_LEN - 1 /\ BUF_LEN \in Nat /\ Numbers \in Nat /\ BUF_LEN < Numbers
  BY UsedIs, UartAssumption
<1>2. Used(Plus(in, k), out) = u + k /\ Plus(out, u) = in
  BY <1>1, UsedMoves
<1>0. k + u < BUF_LEN
  OBVIOUS
<1> HIDE DEF u
<1>3. ASSUME NEW j \in 0 .. (u + k) - 1
      PROVE  b[Plus(out, j)] = Number(n, j)
  <2>1. CASE j < u
    <3>1. j \in 0 .. u - 1
      BY <1>1, <2>1
    <3>2. QED
      BY <3>1 DEF RingHolds, u
  <2>2. CASE j >= u
    <3> DEFINE i == j - u
    <3>1. i \in 0 .. k - 1 /\ i \in Nat /\ u \in Nat /\ u + i = j
          /\ u + i <= BUF_LEN /\ u + i < Numbers
      BY <1>0, <1>1, <2>2
    <3> HIDE DEF i
    <3>2. Plus(Plus(out, u), i) = Plus(out, u + i)
      BY <3>1, PlusTwice
    <3>3. Number(Number(n, u), i) = Number(n, u + i)
      BY <3>1, NumberTwice
    <3>4. b[Plus(in, i)] = Number(Number(n, u), i)
      BY <3>1 DEF Ahead, u
    <3>5. QED
      BY <1>2, <3>1, <3>2, <3>3, <3>4
  <2>3. QED
    BY <1>1, <2>1, <2>2
<1>4. Number(Number(n, u), k) = Number(n, u + k)
  <2>1. u \in Nat /\ u + k < Numbers
    BY <1>0, <1>1
  <2>2. QED
    BY <2>1, NumberTwice
<1>5. QED
  BY <1>2, <1>3, <1>4 DEF RingHolds, u

-----------------------------------------------------------------------------
(* The invariant                                                           *)

StreamTypes ==
  /\ txFifo \in Seq(Nat) /\ rxFifo \in Seq(Nat)
  /\ tx_buf \in [0 .. BUF_LEN - 1 -> Nat] /\ rx_buf \in [0 .. BUF_LEN - 1 -> Nat]
  /\ shown \in 0 .. Numbers - 1 /\ got \in 0 .. Numbers - 1
  /\ count \in Nat /\ space \in Nat
  /\ Len(txFifo) + space <= TxDepth /\ Len(rxFifo) <= RxDepth

\* Chip first, then ring, then what is not printed yet.
TxInOrder ==
  /\ SeqHolds(txFifo, shown)
  /\ RingHolds(tx_buf, tx_in, tx_out, Number(shown, Len(txFifo)))
  /\ printed = Number(Number(shown, Len(txFifo)), Used(tx_in, tx_out))

\* Ring first, then chip, then what is not typed yet.
RxInOrder ==
  /\ RingHolds(rx_buf, rx_in, rx_out, got)
  /\ SeqHolds(rxFifo, Number(got, Used(rx_in, rx_out)))
  /\ typed = Number(Number(got, Used(rx_in, rx_out)), Len(rxFifo))

\* An index the foreground took earlier errs on the safe side: the routine has
\* only sent more, or received more, since.
StaleIsSafe ==
  /\ fg \in {"w_fill", "w_advance"} => Used(tx_in, tx_out) <= Used(tx_in, seen)
  /\ fg = "r_copy" => Used(seen, rx_out) <= Used(rx_in, rx_out)

\* Copied but not yet published.
Copied ==
  fg = "w_advance" => \A j \in 0 .. Amount - 1 : tx_buf[tx_in + j] = Number(printed, j)

StreamInv ==
  IndexOK /\ StreamTypes /\ TxInOrder /\ RxInOrder /\ StaleIsSafe /\ Copied

(* A run of free bytes neither wraps nor meets the characters in the ring. *)
LEMMA RoomIs ==
  ASSUME IndexOK
  PROVE  /\ Room \in Nat /\ tx_in + Room <= BUF_LEN
         /\ Room + Used(tx_in, seen) < BUF_LEN
<1>1. /\ tx_in \in 0 .. BUF_LEN - 1 /\ seen \in 0 .. BUF_LEN - 1
      /\ BUF_LEN \in Nat
  BY UartAssumption DEF IndexOK
<1>2. Used(tx_in, seen) = IF tx_in >= seen THEN tx_in - seen ELSE tx_in - seen + BUF_LEN
  BY <1>1, UsedIs
<1>3. QED
  BY <1>1, <1>2 DEF Room

LEMMA ReadyIs ==
  ASSUME IndexOK
  PROVE  Ready \in Nat /\ Ready <= Used(seen, rx_out)
<1>1. /\ rx_out \in 0 .. BUF_LEN - 1 /\ seen \in 0 .. BUF_LEN - 1
      /\ BUF_LEN \in Nat
  BY UartAssumption DEF IndexOK
<1>2. Used(seen, rx_out) = IF seen >= rx_out THEN seen - rx_out ELSE seen - rx_out + BUF_LEN
  BY <1>1, UsedIs
<1>3. QED
  BY <1>1, <1>2 DEF Ready

LEMMA RingApart ==
  ASSUME NEW in \in 0 .. BUF_LEN - 1, NEW out \in 0 .. BUF_LEN - 1, NEW k \in Nat,
         k + Used(in, out) < BUF_LEN, in + k <= BUF_LEN,
         NEW j \in 0 .. Used(in, out) - 1
  PROVE  Plus(out, j) \notin in .. in + k - 1
<1>1. BUF_LEN \in Nat /\ Used(in, out) \in 0 .. BUF_LEN - 1
      /\ Used(in, out) = IF in >= out THEN in - out ELSE in - out + BUF_LEN
  BY UartAssumption, UsedIs
<1>2. j \in 0 .. BUF_LEN
  BY <1>1
<1>3. Plus(out, j) = IF out + j < BUF_LEN THEN out + j ELSE out + j - BUF_LEN
  BY <1>2, PlusIs
<1>4. QED
  BY <1>1, <1>2, <1>3

LEMMA NotFull ==
  ASSUME IndexOK, ~RxFull
  PROVE  1 + Used(rx_in, rx_out) < BUF_LEN
<1>1. /\ rx_in \in 0 .. BUF_LEN - 1 /\ rx_out \in 0 .. BUF_LEN - 1
      /\ BUF_LEN \in Nat /\ 1 \in 0 .. BUF_LEN /\ Plus(rx_in, 1) # rx_out
  BY UartAssumption DEF IndexOK, RxFull
<1>2. Used(rx_in, rx_out) = IF rx_in >= rx_out THEN rx_in - rx_out ELSE rx_in - rx_out + BUF_LEN
  BY <1>1, UsedIs
<1>3. Plus(rx_in, 1) = IF rx_in + 1 < BUF_LEN THEN rx_in + 1 ELSE rx_in + 1 - BUF_LEN
  BY <1>1, PlusIs
<1>4. QED
  BY <1>1, <1>2, <1>3

(* What every step lemma needs of the numbers.                             *)
LEMMA Sizes ==
  ASSUME IndexOK, StreamTypes
  PROVE  /\ BUF_LEN \in Nat /\ Numbers \in Nat /\ RxDepth \in Nat /\ TxDepth \in Nat
         /\ Used(tx_in, tx_out) \in 0 .. BUF_LEN - 1
         /\ Used(rx_in, rx_out) \in 0 .. BUF_LEN - 1
         /\ Len(txFifo) \in 0 .. TxDepth /\ Len(rxFifo) \in 0 .. RxDepth
         /\ BUF_LEN + RxDepth < Numbers /\ BUF_LEN + TxDepth < Numbers
         /\ Number(shown, Len(txFifo)) \in 0 .. Numbers - 1
         /\ Number(got, Used(rx_in, rx_out)) \in 0 .. Numbers - 1
<1>1. /\ BUF_LEN \in Nat /\ Numbers \in Nat /\ RxDepth \in Nat /\ TxDepth \in Nat
      /\ BUF_LEN + RxDepth < Numbers /\ BUF_LEN + TxDepth < Numbers
      /\ Len(txFifo) \in 0 .. TxDepth /\ Len(rxFifo) \in 0 .. RxDepth
  BY UartAssumption DEF StreamTypes
<1>2. Used(tx_in, tx_out) \in 0 .. BUF_LEN - 1 /\ Used(rx_in, rx_out) \in 0 .. BUF_LEN - 1
  BY UsedIs DEF IndexOK
<1>3. Len(txFifo) \in 0 .. Numbers - 1 /\ Used(rx_in, rx_out) \in 0 .. Numbers - 1
  BY <1>1, <1>2
<1>4. QED
  BY <1>1, <1>2, <1>3, NumberIs DEF StreamTypes

-----------------------------------------------------------------------------
(* The steps                                                               *)

(* The steps that move no character.                                       *)
LEMMA QuietKeeps ==
  ASSUME StreamInv, UNCHANGED <<rx, tx, fifos>>, IndexOK',
         \/ UNCHANGED vars \/ Write \/ WriteLook \/ WriteEnable \/ WriteWait \/ WriteWoken
         \/ Read \/ ReadLook \/ ReadWait \/ ReadWoken \/ ReadEnable
         \/ IrqCheck \/ IrqRxFull \/ IrqRxOff \/ IrqTxOff \/ Alarm \/ HostPause
  PROVE  StreamInv'
<1>1. TxInOrder' /\ RxInOrder'
  BY DEF StreamInv, TxInOrder, RxInOrder, rx, tx, fifos, SeqHolds, RingHolds
<1>2. \/ count' = count
      \/ count' = 0
      \/ count' \in 1 .. MaxCount
  BY DEF vars, request, Write, WriteLook, WriteEnable, WriteWait, WriteWoken,
         Read, ReadLook, ReadWait, ReadWoken, ReadEnable,
         IrqCheck, IrqRxFull, IrqRxOff, IrqTxOff, Alarm, HostPause, Return, Goto
<1>3. space' \in {space, 0, TxDepth - Len(txFifo)}
  BY DEF vars, routine, Write, WriteLook, WriteEnable, WriteWait, WriteWoken,
         Read, ReadLook, ReadWait, ReadWoken, ReadEnable,
         IrqCheck, IrqRxFull, IrqRxOff, IrqTxOff, Alarm, HostPause
<1>4. StreamTypes'
  BY <1>2, <1>3, UartAssumption DEF StreamInv, StreamTypes, rx, tx, fifos
<1>5. StaleIsSafe' /\ Copied'
  <2>1. UNCHANGED <<rx_in, rx_out, tx_in, tx_out, tx_buf, printed>>
    BY DEF rx, tx
  <2>2. CASE UNCHANGED <<fg, seen, count>>
    BY <2>1, <2>2 DEF StreamInv, StaleIsSafe, Copied, Amount, Room, Fewer
  <2>0. /\ Used(tx_in, tx_out) <= Used(tx_in, tx_out)
        /\ Used(rx_in, rx_out) <= Used(rx_in, rx_out)
    BY Sizes DEF StreamInv
  <2>3. CASE WriteLook
    <3>1. seen' = tx_out /\ fg' \in {"w_fill", "w_enable"}
      BY <2>3 DEF WriteLook
    <3>2. QED
      BY <2>0, <2>1, <3>1 DEF StaleIsSafe, Copied
  <2>4. CASE ReadLook
    <3>1. seen' = rx_in /\ fg' = "r_copy"
      BY <2>4 DEF ReadLook
    <3>2. QED
      BY <2>0, <2>1, <3>1 DEF StaleIsSafe, Copied
  <2>5. CASE fg' \notin {"w_fill", "w_advance", "r_copy"}
    BY <2>5 DEF StaleIsSafe, Copied
  <2>6. QED
    BY <2>2, <2>3, <2>4, <2>5
       DEF vars, request, Write, WriteEnable, WriteWait, WriteWoken,
           Read, ReadWait, ReadWoken, ReadEnable,
           IrqCheck, IrqRxFull, IrqRxOff, IrqTxOff, Alarm, HostPause, Return, Goto
<1>6. QED
  BY <1>1, <1>4, <1>5 DEF StreamInv

(* The copy goes into free bytes.                                          *)
LEMMA FillKeeps ==
  ASSUME StreamInv, WriteFill, IndexOK'
  PROVE  StreamInv'
<1> DEFINE u == Used(tx_in, tx_out)
<1>1. /\ fg = "w_fill" /\ UNCHANGED <<rx, fifos, count, space, seen, tx_in, tx_out, shown, printed>>
  BY DEF WriteFill, routine
<1>2. /\ Amount \in Nat /\ tx_in + Amount <= BUF_LEN /\ Amount + u < BUF_LEN
      /\ tx_in \in 0 .. BUF_LEN - 1 /\ tx_out \in 0 .. BUF_LEN - 1 /\ BUF_LEN \in Nat
  <2>1. /\ Room \in Nat /\ tx_in + Room <= BUF_LEN /\ Room + Used(tx_in, seen) < BUF_LEN
        /\ u <= Used(tx_in, seen) /\ Used(tx_in, seen) \in 0 .. BUF_LEN - 1
        /\ u \in 0 .. BUF_LEN - 1
    BY <1>1, RoomIs, UsedIs DEF StreamInv, StaleIsSafe, IndexOK
  <2>2. count \in Nat /\ tx_in \in 0 .. BUF_LEN - 1 /\ tx_out \in 0 .. BUF_LEN - 1
        /\ BUF_LEN \in Nat
    BY UartAssumption DEF StreamInv, StreamTypes, IndexOK
  <2>3. Amount \in Nat /\ Amount <= Room
    BY <2>1, <2>2 DEF Amount, Fewer
  <2> HIDE DEF u
  <2>4. QED
    BY <2>1, <2>2, <2>3
<1>3. tx_buf' = [i \in 0 .. BUF_LEN - 1 |->
                   IF i \in tx_in .. tx_in + Amount - 1
                   THEN Number(printed, i - tx_in) ELSE tx_buf[i]]
  BY DEF WriteFill, StreamInv, StreamTypes
<1>4. ASSUME NEW j \in 0 .. u - 1
      PROVE  tx_buf'[Plus(tx_out, j)] = tx_buf[Plus(tx_out, j)]
  <2>1. Plus(tx_out, j) \notin tx_in .. tx_in + Amount - 1
    BY <1>2, RingApart
  <2>2. Plus(tx_out, j) \in 0 .. BUF_LEN - 1
    BY <1>2, PlusRange
  <2>3. QED
    BY <1>3, <2>1, <2>2
<1>5. TxInOrder'
  <2>1. RingHolds(tx_buf', tx_in, tx_out, Number(shown, Len(txFifo)))
    BY <1>4 DEF StreamInv, TxInOrder, RingHolds
  <2>2. QED
    BY <1>1, <2>1 DEF StreamInv, TxInOrder, SeqHolds, RingHolds, fifos
<1>6. RxInOrder'
  BY <1>1 DEF StreamInv, RxInOrder, rx, fifos, SeqHolds, RingHolds
<1>7. StreamTypes'
  <2>1. \A i \in 0 .. BUF_LEN - 1 : i \in tx_in .. tx_in + Amount - 1 =>
          Number(printed, i - tx_in) \in Nat
    <3>1. printed \in Int
      <4>1. printed = Number(Number(shown, Len(txFifo)), u)
        BY DEF StreamInv, TxInOrder
      <4>2. Number(shown, Len(txFifo)) \in Int /\ u \in Int
        BY Sizes DEF StreamInv
      <4>3. QED
        BY <4>1, <4>2, NumberRange
    <3>2. QED
      BY <1>2, <3>1, UartAssumption DEF Number
  <2>2. tx_buf' \in [0 .. BUF_LEN - 1 -> Nat]
    BY <1>3, <2>1 DEF StreamInv, StreamTypes
  <2>3. QED
    BY <1>1, <2>2 DEF StreamInv, StreamTypes, rx, fifos
<1>8. Copied'
  <2>1. ASSUME NEW j \in 0 .. Amount - 1
        PROVE  tx_buf'[tx_in + j] = Number(printed, j)
    <3>1. tx_in + j \in 0 .. BUF_LEN - 1 /\ tx_in + j \in tx_in .. tx_in + Amount - 1
          /\ (tx_in + j) - tx_in = j
      BY <1>2
    <3>2. QED
      BY <1>3, <3>1
  <2>2. Amount' = Amount
    BY <1>1 DEF Amount, Room, Fewer
  <2>3. QED
    BY <1>1, <2>1, <2>2 DEF Copied
<1>9. StaleIsSafe'
  BY <1>1, Zenon DEF StreamInv, StaleIsSafe, WriteFill, rx
<1>10. QED
  BY <1>5, <1>6, <1>7, <1>8, <1>9 DEF StreamInv

(* The index moves over what was copied.                                   *)
LEMMA AdvanceKeeps ==
  ASSUME StreamInv, WriteAdvance, IndexOK'
  PROVE  StreamInv'
<1> DEFINE n == Number(shown, Len(txFifo))
<1> DEFINE k == Amount
<1>1. /\ fg = "w_advance" /\ fg' = "w_copy"
      /\ tx_in' = Plus(tx_in, k) /\ printed' = Number(printed, k) /\ count' = count - k
      /\ UNCHANGED <<rx, fifos, space, tx_out, tx_buf, shown>>
  BY DEF WriteAdvance, routine
<1>2. /\ k \in Nat /\ k + Used(tx_in, tx_out) < BUF_LEN /\ k <= count
      /\ tx_in + k <= BUF_LEN /\ count \in Nat
      /\ tx_in \in 0 .. BUF_LEN - 1 /\ tx_out \in 0 .. BUF_LEN - 1 /\ BUF_LEN \in Nat
  <2>1. /\ Room \in Nat /\ tx_in + Room <= BUF_LEN /\ Room + Used(tx_in, seen) < BUF_LEN
        /\ Used(tx_in, tx_out) <= Used(tx_in, seen)
        /\ Used(tx_in, seen) \in 0 .. BUF_LEN - 1 /\ Used(tx_in, tx_out) \in 0 .. BUF_LEN - 1
    BY <1>1, RoomIs, UsedIs DEF StreamInv, StaleIsSafe, IndexOK
  <2>2. count \in Nat /\ tx_in \in 0 .. BUF_LEN - 1 /\ tx_out \in 0 .. BUF_LEN - 1
        /\ BUF_LEN \in Nat
    BY UartAssumption DEF StreamInv, StreamTypes, IndexOK
  <2>3. k \in Nat /\ k <= Room /\ k <= count
    BY <2>1, <2>2 DEF Amount, Fewer
  <2> HIDE DEF k
  <2>4. QED
    BY <2>1, <2>2, <2>3
<1>3. /\ n \in 0 .. Numbers - 1 /\ RingHolds(tx_buf, tx_in, tx_out, n)
      /\ printed = Number(n, Used(tx_in, tx_out))
  BY Sizes DEF StreamInv, TxInOrder
<1>4. \A j \in 0 .. k - 1 : tx_buf[tx_in + j] = Number(printed, j)
  BY <1>1 DEF StreamInv, Copied
<1>5. ASSUME NEW j \in 0 .. k - 1
      PROVE  tx_buf[Plus(tx_in, j)] = Number(Number(n, Used(tx_in, tx_out)), j)
  <2>1. j \in 0 .. BUF_LEN /\ tx_in + j < BUF_LEN
    BY <1>2
  <2>2. Plus(tx_in, j) = tx_in + j
    BY <1>2, <2>1, PlusIs
  <2>3. QED
    BY <1>3, <1>4, <2>2
<1> HIDE DEF n, k
<1>6. /\ RingHolds(tx_buf, Plus(tx_in, k), tx_out, n)
      /\ Number(n, Used(Plus(tx_in, k), tx_out)) = Number(Number(n, Used(tx_in, tx_out)), k)
  <2>1. Ahead(tx_buf, tx_in, k, Number(n, Used(tx_in, tx_out)))
    BY <1>5 DEF Ahead
  <2>2. QED
    BY <1>2, <1>3, <2>1, RingPut
<1>7. TxInOrder'
  <2>1. SeqHolds(txFifo, shown)
    BY DEF StreamInv, TxInOrder
  <2>2. QED
    BY <1>1, <1>3, <1>6, <2>1 DEF TxInOrder, SeqHolds, RingHolds, fifos, n
<1>8. RxInOrder'
  BY <1>1 DEF StreamInv, RxInOrder, rx, fifos, SeqHolds, RingHolds
<1>9. StreamTypes'
  BY <1>1, <1>2 DEF StreamInv, StreamTypes, rx, fifos
<1>10. StaleIsSafe' /\ Copied'
  BY <1>1 DEF StaleIsSafe, Copied
<1>11. QED
  BY <1>7, <1>8, <1>9, <1>10 DEF StreamInv

LEMMA ReadCopyKeeps ==
  ASSUME StreamInv, ReadCopy, IndexOK'
  PROVE  StreamInv'
<1> DEFINE k == Fewer(Ready, count)
<1> DEFINE u == Used(rx_in, rx_out)
<1>1. /\ fg = "r_copy" /\ fg' \in {"idle", "r_wait", "r_look", "r_enable"}
      /\ rx_out' = Plus(rx_out, k) /\ got' = Number(got, k)
      /\ count' \in {0, count, count - k}
      /\ UNCHANGED <<rx_in, rx_buf, typed, space, tx, fifos>>
  BY DEF ReadCopy, Return, Goto, routine
<1>2. /\ k \in 0 .. u /\ k <= count /\ count \in Nat
  <2>1. /\ Ready \in Nat /\ Ready <= Used(seen, rx_out) /\ Used(seen, rx_out) <= u
        /\ Used(seen, rx_out) \in 0 .. BUF_LEN - 1 /\ u \in 0 .. BUF_LEN - 1
        /\ count \in Nat /\ BUF_LEN \in Nat
    BY <1>1, ReadyIs, UsedIs, UartAssumption DEF StreamInv, StreamTypes, StaleIsSafe, IndexOK
  <2> HIDE DEF u
  <2>2. QED
    BY <2>1 DEF Fewer
<1>3. /\ rx_in \in 0 .. BUF_LEN - 1 /\ rx_out \in 0 .. BUF_LEN - 1 /\ got \in 0 .. Numbers - 1
      /\ RingHolds(rx_buf, rx_in, rx_out, got) /\ u \in 0 .. BUF_LEN - 1
      /\ BUF_LEN \in Nat /\ Numbers \in Nat /\ BUF_LEN < Numbers
  <2>1. rx_in \in 0 .. BUF_LEN - 1 /\ rx_out \in 0 .. BUF_LEN - 1 /\ got \in 0 .. Numbers - 1
    BY DEF StreamInv, StreamTypes, IndexOK
  <2>2. RingHolds(rx_buf, rx_in, rx_out, got)
    BY DEF StreamInv, RxInOrder
  <2>3. u \in 0 .. BUF_LEN - 1 /\ BUF_LEN \in Nat /\ Numbers \in Nat /\ BUF_LEN < Numbers
    BY <2>1, UsedIs, UartAssumption
  <2>4. QED
    BY <2>1, <2>2, <2>3
<1> HIDE DEF k
<1>4. /\ RingHolds(rx_buf, rx_in, Plus(rx_out, k), Number(got, k))
      /\ Number(Number(got, k), Used(rx_in, Plus(rx_out, k))) = Number(got, u)
  BY <1>2, <1>3, RingTake
<1>5. RxInOrder'
  <2>1. SeqHolds(rxFifo, Number(got, u)) /\ typed = Number(Number(got, u), Len(rxFifo))
    BY DEF StreamInv, RxInOrder
  <2>2. QED
    BY <1>1, <1>4, <2>1 DEF RxInOrder, SeqHolds, RingHolds, fifos
<1>6. TxInOrder'
  BY <1>1 DEF StreamInv, TxInOrder, tx, fifos, SeqHolds, RingHolds
<1>7. StreamTypes'
  <2>1. k \in 0 .. Numbers - 1
    BY <1>2, <1>3
  <2>2. got' \in 0 .. Numbers - 1
    BY <1>1, <1>3, <2>1, NumberIs
  <2>3. count' \in Nat
    BY <1>1, <1>2, <1>3
  <2>4. QED
    BY <1>1, <2>2, <2>3 DEF StreamInv, StreamTypes, tx, fifos
<1>8. StaleIsSafe' /\ Copied'
  BY <1>1 DEF StaleIsSafe, Copied
<1>9. QED
  BY <1>5, <1>6, <1>7, <1>8 DEF StreamInv

LEMMA IrqRxKeeps ==
  ASSUME StreamInv, IrqRx, IndexOK'
  PROVE  StreamInv'
<1>0. /\ ~RxFull /\ UNCHANGED <<fg, count, seen, space, rx_out, typed, got, tx, txFifo>>
  BY DEF IrqRx, request
<1>1. TxInOrder'
  BY <1>0 DEF StreamInv, TxInOrder, tx, SeqHolds, RingHolds
<1>2. Copied'
  BY <1>0 DEF StreamInv, Copied, Amount, Room, Fewer, tx
<1>3. CASE rxFifo = <<>>
  <2>1. UNCHANGED <<rx_in, rx_buf, rxFifo>>
    BY <1>3 DEF IrqRx
  <2>2. QED
    BY <1>0, <1>1, <1>2, <2>1
       DEF StreamInv, StreamTypes, RxInOrder, StaleIsSafe, tx, SeqHolds, RingHolds
<1>4. CASE rxFifo # <<>>
  <2> DEFINE u == Used(rx_in, rx_out)
  <2>1. /\ rx_in' = Plus(rx_in, 1) /\ rxFifo' = Tail(rxFifo)
        /\ rx_buf' = [rx_buf EXCEPT ![rx_in] = rxFifo[1]]
    BY <1>4 DEF IrqRx, StreamInv, StreamTypes
  <2>2. /\ rx_in \in 0 .. BUF_LEN - 1 /\ rx_out \in 0 .. BUF_LEN - 1 /\ got \in 0 .. Numbers - 1
        /\ rx_buf \in [0 .. BUF_LEN - 1 -> Nat] /\ rxFifo \in Seq(Nat)
        /\ rxFifo[1] \in Nat /\ Len(rxFifo) \in 1 .. RxDepth
    <3>1. /\ rx_in \in 0 .. BUF_LEN - 1 /\ rx_out \in 0 .. BUF_LEN - 1
          /\ got \in 0 .. Numbers - 1 /\ rx_buf \in [0 .. BUF_LEN - 1 -> Nat]
          /\ rxFifo \in Seq(Nat) /\ Len(rxFifo) <= RxDepth
      BY DEF StreamInv, StreamTypes, IndexOK
    <3>2. Len(rxFifo) \in Nat /\ Len(rxFifo) >= 1 /\ RxDepth \in Nat
      BY <1>4, <3>1, UartAssumption
    <3>3. QED
      BY <3>1, <3>2
  <2>3. /\ 1 + u < BUF_LEN /\ 1 \in Nat /\ u \in 0 .. BUF_LEN - 1 /\ BUF_LEN \in Nat
        /\ Numbers \in Nat /\ BUF_LEN + RxDepth < Numbers /\ RxDepth \in Nat
        /\ Number(got, u) \in 0 .. Numbers - 1
    BY <1>0, NotFull, Sizes DEF StreamInv
  <2>4. Plus(rx_in, 0) = rx_in
    BY <2>2, PlusNone
  <2>5. RingHolds(rx_buf', rx_in, rx_out, got)
    <3>1. ASSUME NEW j \in 0 .. u - 1
          PROVE  rx_buf'[Plus(rx_out, j)] = rx_buf[Plus(rx_out, j)]
      <4>1. rx_in + 1 <= BUF_LEN
        BY <2>2, <2>3
      <4>2. Plus(rx_out, j) \notin rx_in .. rx_in + 1 - 1
        BY <2>2, <2>3, <3>1, <4>1, RingApart
      <4>3. Plus(rx_out, j) # rx_in /\ Plus(rx_out, j) \in 0 .. BUF_LEN - 1
        BY <2>2, <4>2, PlusRange
      <4>4. QED
        BY <2>1, <2>2, <4>3
    <3>2. QED
      BY <3>1 DEF StreamInv, RxInOrder, RingHolds
  <2>6. Ahead(rx_buf', rx_in, 1, Number(got, u))
    <3>1. SeqHolds(rxFifo, Number(got, u))
      BY DEF StreamInv, RxInOrder
    <3>2. rxFifo[1] = Number(Number(got, u), 0)
      BY <2>2, <3>1 DEF SeqHolds
    <3>3. rx_buf'[rx_in] = Number(Number(got, u), 0)
      BY <2>1, <2>2, <3>2
    <3>4. \A j \in 0 .. 1 - 1 : j = 0
      OBVIOUS
    <3>5. QED
      BY <2>4, <3>3, <3>4 DEF Ahead
  <2> HIDE DEF u
  <2>7. /\ RingHolds(rx_buf', Plus(rx_in, 1), rx_out, got)
        /\ Number(got, Used(Plus(rx_in, 1), rx_out)) = Number(Number(got, u), 1)
    BY <2>2, <2>3, <2>5, <2>6, RingPut DEF u
  <2>8. /\ SeqHolds(Tail(rxFifo), Number(Number(got, u), 1))
        /\ typed = Number(Number(Number(got, u), 1), Len(Tail(rxFifo)))
    <3> DEFINE m == Number(got, u)
    <3>1. SeqHolds(rxFifo, m) /\ typed = Number(m, Len(rxFifo))
      BY DEF StreamInv, RxInOrder, u
    <3>2. /\ m \in 0 .. Numbers - 1 /\ Len(rxFifo) < Numbers /\ Len(Tail(rxFifo)) \in Nat
          /\ 1 + Len(Tail(rxFifo)) = Len(rxFifo)
      BY <1>4, <2>2, <2>3
    <3> HIDE DEF m
    <3>3. SeqHolds(Tail(rxFifo), Number(m, 1))
      BY <1>4, <2>2, <3>1, <3>2, SeqTake
    <3>4. Number(Number(m, 1), Len(Tail(rxFifo))) = Number(m, 1 + Len(Tail(rxFifo)))
      BY <2>3, <3>2, NumberTwice
    <3>5. QED
      BY <3>1, <3>2, <3>3, <3>4 DEF m
  <2>9. RxInOrder'
    BY <1>0, <2>1, <2>7, <2>8 DEF RxInOrder, SeqHolds, RingHolds
  <2>10. StreamTypes'
    <3>1. rx_buf' \in [0 .. BUF_LEN - 1 -> Nat]
      BY <2>1, <2>2
    <3>2. rxFifo' \in Seq(Nat) /\ Len(rxFifo') <= RxDepth
      BY <1>4, <2>1, <2>2, <2>3
    <3>3. QED
      BY <1>0, <3>1, <3>2 DEF StreamInv, StreamTypes, tx
  <2>11. StaleIsSafe'
    <3>1. Used(Plus(rx_in, 1), rx_out) = u + 1
      BY <2>2, <2>3, UsedMoves DEF u
    <3>2. fg = "r_copy" => Used(seen, rx_out) <= u /\ Used(seen, rx_out) \in 0 .. BUF_LEN - 1
      BY <2>2, UsedIs DEF StreamInv, StaleIsSafe, IndexOK, u
    <3>3. fg = "r_copy" => Used(seen, rx_out) <= u + 1
      BY <2>3, <3>2
    <3>4. QED
      BY <1>0, <2>1, <3>1, <3>3 DEF StreamInv, StaleIsSafe, tx
  <2>12. QED
    BY <1>1, <1>2, <2>9, <2>10, <2>11 DEF StreamInv
<1>5. QED
  BY <1>3, <1>4

LEMMA IrqTxKeeps ==
  ASSUME StreamInv, IrqTx, IndexOK'
  PROVE  StreamInv'
<1> DEFINE u == Used(tx_in, tx_out)
<1> DEFINE n == Number(shown, Len(txFifo))
<1>0. /\ space > 0 /\ tx_out # tx_in
      /\ txFifo' = Append(txFifo, tx_buf[tx_out])
      /\ tx_out' = Plus(tx_out, 1) /\ space' = space - 1
      /\ UNCHANGED <<fg, count, seen, rx, tx_in, tx_buf, printed, shown, rxFifo>>
  BY DEF IrqTx, request
<1>1. /\ tx_in \in 0 .. BUF_LEN - 1 /\ tx_out \in 0 .. BUF_LEN - 1 /\ shown \in 0 .. Numbers - 1
      /\ tx_buf \in [0 .. BUF_LEN - 1 -> Nat] /\ txFifo \in Seq(Nat)
      /\ space \in Nat /\ Len(txFifo) + space <= TxDepth
  BY DEF StreamInv, StreamTypes, IndexOK
<1>2. /\ u \in 0 .. BUF_LEN - 1 /\ BUF_LEN \in Nat /\ Numbers \in Nat /\ TxDepth \in Nat
      /\ BUF_LEN + TxDepth < Numbers /\ n \in 0 .. Numbers - 1 /\ Len(txFifo) \in Nat
  BY Sizes DEF StreamInv
<1>3. u >= 1
  <2>1. u = IF tx_in >= tx_out THEN tx_in - tx_out ELSE tx_in - tx_out + BUF_LEN
    BY <1>1, UsedIs
  <2> HIDE DEF u
  <2>2. QED
    BY <1>0, <1>1, <1>2, <2>1
<1>4. /\ SeqHolds(txFifo, shown) /\ RingHolds(tx_buf, tx_in, tx_out, n)
      /\ printed = Number(n, u)
  BY DEF StreamInv, TxInOrder
<1> HIDE DEF u, n
<1>5. tx_buf[tx_out] = n /\ tx_buf[tx_out] \in Nat
  <2>1. Plus(tx_out, 0) = tx_out /\ 0 \in 0 .. u - 1
    BY <1>1, <1>2, <1>3, PlusNone
  <2>2. tx_buf[Plus(tx_out, 0)] = Number(n, 0)
    BY <1>4, <2>1 DEF RingHolds, u
  <2>3. Number(n, 0) = n
    BY <1>2, NumberIs
  <2>4. QED
    BY <1>1, <2>1, <2>2, <2>3
<1>6. /\ RingHolds(tx_buf, tx_in, Plus(tx_out, 1), Number(n, 1))
      /\ Number(Number(n, 1), Used(tx_in, Plus(tx_out, 1))) = Number(n, u)
  <2>1. 1 \in 0 .. Used(tx_in, tx_out)
    BY <1>2, <1>3 DEF u
  <2>2. QED
    BY <1>1, <1>2, <1>4, <2>1, RingTake DEF u
<1>7. SeqHolds(txFifo', shown)
  <2>1. tx_buf[tx_out] = Number(shown, Len(txFifo))
    BY <1>5 DEF n
  <2>2. QED
    BY <1>0, <1>1, <1>4, <1>5, <2>1, SeqPut
<1>8. Number(shown, Len(txFifo')) = Number(n, 1)
  <2>1. Len(txFifo') = Len(txFifo) + 1 /\ Len(txFifo) + 1 < Numbers
    BY <1>0, <1>1, <1>2, <1>5
  <2>2. Number(Number(shown, Len(txFifo)), 1) = Number(shown, Len(txFifo) + 1)
    BY <1>1, <1>2, <2>1, NumberTwice
  <2>3. QED
    BY <2>1, <2>2 DEF n
<1>9. TxInOrder'
  BY <1>0, <1>4, <1>6, <1>7, <1>8 DEF TxInOrder, SeqHolds, RingHolds
<1>10. RxInOrder'
  BY <1>0 DEF StreamInv, RxInOrder, rx, SeqHolds, RingHolds
<1>11. StreamTypes'
  <2>1. txFifo' \in Seq(Nat) /\ Len(txFifo') = Len(txFifo) + 1
    BY <1>0, <1>1, <1>5
  <2>2. space' \in Nat /\ Len(txFifo') + space' <= TxDepth
    BY <1>0, <1>1, <1>2, <2>1
  <2>3. QED
    BY <1>0, <2>1, <2>2 DEF StreamInv, StreamTypes, rx
<1>12. Copied'
  BY <1>0 DEF StreamInv, Copied, Amount, Room, Fewer
<1>13. StaleIsSafe'
  <2>1. Used(tx_in, Plus(tx_out, 1)) = u - 1
    BY <1>1, <1>2, <1>3, UsedMoves DEF u
  <2>2. ASSUME fg \in {"w_fill", "w_advance"}
        PROVE  u - 1 <= Used(tx_in, seen)
    <3>1. u <= Used(tx_in, seen) /\ Used(tx_in, seen) \in 0 .. BUF_LEN - 1
      BY <2>2, UsedIs DEF StreamInv, StaleIsSafe, IndexOK, u
    <3>2. QED
      BY <1>2, <3>1
  <2>3. QED
    BY <1>0, <2>1, <2>2 DEF StreamInv, StaleIsSafe, rx
<1>14. QED
  BY <1>9, <1>10, <1>11, <1>12, <1>13 DEF StreamInv

LEMMA ShowKeeps ==
  ASSUME StreamInv, HostShow, IndexOK'
  PROVE  StreamInv'
<1>0. /\ txFifo # <<>> /\ txFifo' = Tail(txFifo) /\ shown' = Number(shown, 1)
      /\ UNCHANGED <<fg, count, seen, space, rx, rxFifo, tx_in, tx_out, tx_buf, printed>>
  BY DEF HostShow, request, routine
<1>1. txFifo \in Seq(Nat) /\ shown \in 0 .. Numbers - 1 /\ space \in Nat
      /\ Len(txFifo) + space <= TxDepth
  BY DEF StreamInv, StreamTypes
<1>2. /\ Numbers \in Nat /\ TxDepth \in Nat /\ BUF_LEN \in Nat /\ BUF_LEN + TxDepth < Numbers
      /\ BUF_LEN > 0
  BY UartAssumption
<1>3. /\ Tail(txFifo) \in Seq(Nat) /\ Len(Tail(txFifo)) \in Nat
      /\ 1 + Len(Tail(txFifo)) = Len(txFifo) /\ Len(txFifo) < Numbers
  BY <1>0, <1>1, <1>2
<1>4. SeqHolds(Tail(txFifo), Number(shown, 1))
  BY <1>0, <1>1, <1>3, SeqTake DEF StreamInv, TxInOrder
<1>5. Number(Number(shown, 1), Len(Tail(txFifo))) = Number(shown, Len(txFifo))
  <2>1. Number(Number(shown, 1), Len(Tail(txFifo))) = Number(shown, 1 + Len(Tail(txFifo)))
    BY <1>1, <1>2, <1>3, NumberTwice
  <2>2. QED
    BY <1>3, <2>1
<1>6. TxInOrder'
  BY <1>0, <1>4, <1>5 DEF StreamInv, TxInOrder, SeqHolds, RingHolds
<1>7. RxInOrder'
  BY <1>0 DEF StreamInv, RxInOrder, rx, SeqHolds, RingHolds
<1>8. StreamTypes'
  <2>1. shown' \in 0 .. Numbers - 1
    BY <1>0, <1>1, NumberRange
  <2>2. txFifo' \in Seq(Nat) /\ Len(txFifo') + space <= TxDepth
    BY <1>0, <1>1, <1>2, <1>3
  <2>3. QED
    BY <1>0, <2>1, <2>2 DEF StreamInv, StreamTypes, rx
<1>9. StaleIsSafe' /\ Copied'
  BY <1>0 DEF StreamInv, StaleIsSafe, Copied, Amount, Room, Fewer, rx
<1>10. QED
  BY <1>6, <1>7, <1>8, <1>9 DEF StreamInv

LEMMA TypeKeeps ==
  ASSUME StreamInv, HostType, IndexOK'
  PROVE  StreamInv'
<1> DEFINE m == Number(got, Used(rx_in, rx_out))
<1>0. /\ Len(rxFifo) < RxDepth /\ rxFifo' = Append(rxFifo, typed) /\ typed' = Number(typed, 1)
      /\ UNCHANGED <<fg, count, seen, space, tx, txFifo, rx_in, rx_out, rx_buf, got>>
  BY DEF HostType, request, routine
<1>1. /\ rxFifo \in Seq(Nat) /\ Len(rxFifo) \in Nat
      /\ SeqHolds(rxFifo, m) /\ typed = Number(m, Len(rxFifo))
  BY DEF StreamInv, StreamTypes, RxInOrder
<1>2. /\ Numbers \in Nat /\ RxDepth \in Nat /\ BUF_LEN \in Nat /\ BUF_LEN + RxDepth < Numbers
      /\ BUF_LEN > 0 /\ m \in 0 .. Numbers - 1
  BY Sizes, UartAssumption DEF StreamInv
<1> HIDE DEF m
<1>3. typed \in Nat
  BY <1>1, <1>2, NumberRange
<1>4. SeqHolds(rxFifo', m)
  BY <1>0, <1>1, <1>3, SeqPut
<1>5. Len(rxFifo') = Len(rxFifo) + 1 /\ rxFifo' \in Seq(Nat) /\ Len(rxFifo') <= RxDepth
  BY <1>0, <1>1, <1>2, <1>3
<1>6. typed' = Number(m, Len(rxFifo'))
  <2>1. Len(rxFifo) + 1 < Numbers
    BY <1>0, <1>1, <1>2
  <2>2. Number(Number(m, Len(rxFifo)), 1) = Number(m, Len(rxFifo) + 1)
    BY <1>1, <1>2, <2>1, NumberTwice
  <2>3. QED
    BY <1>0, <1>1, <1>5, <2>2
<1>7. RxInOrder'
  BY <1>0, <1>4, <1>6 DEF StreamInv, RxInOrder, SeqHolds, RingHolds, m
<1>8. TxInOrder'
  BY <1>0 DEF StreamInv, TxInOrder, tx, SeqHolds, RingHolds
<1>9. StreamTypes'
  BY <1>0, <1>5 DEF StreamInv, StreamTypes, tx
<1>10. StaleIsSafe' /\ Copied'
  BY <1>0 DEF StreamInv, StaleIsSafe, Copied, Amount, Room, Fewer, tx
<1>11. QED
  BY <1>7, <1>8, <1>9, <1>10 DEF StreamInv

LEMMA StreamStart == Init => StreamInv
<1> SUFFICES ASSUME Init PROVE StreamInv
  OBVIOUS
<1>1. IndexOK
  BY IndexStart DEF WakeupInv
<1>2. /\ BUF_LEN \in Nat \ {0} /\ Numbers \in Nat \ {0} /\ RxDepth \in Nat /\ TxDepth \in Nat
      /\ 0 \in 0 .. BUF_LEN - 1 /\ 0 \in 0 .. Numbers - 1
  BY UartAssumption
<1>3. StreamTypes
  BY <1>2 DEF Init, StreamTypes
<1>4. Used(0, 0) = 0 /\ Number(0, 0) = 0
  BY <1>2, UsedIs, NumberIs
<1>5. TxInOrder /\ RxInOrder
  <2>1. Len(txFifo) = 0 /\ Len(rxFifo) = 0 /\ \A j \in 0 .. 0 - 1 : FALSE
    BY DEF Init
  <2>2. \A j \in 1 .. 0 : FALSE
    OBVIOUS
  <2>3. QED
    BY <1>4, <2>1, <2>2 DEF Init, TxInOrder, RxInOrder, SeqHolds, RingHolds
<1>6. StaleIsSafe /\ Copied
  BY DEF Init, StaleIsSafe, Copied
<1>7. QED
  BY <1>1, <1>3, <1>5, <1>6 DEF StreamInv

-----------------------------------------------------------------------------
(* From the invariant to the property                                      *)

LEMMA RingIs ==
  ASSUME NEW buf \in [0 .. BUF_LEN - 1 -> Nat],
         NEW in \in 0 .. BUF_LEN - 1, NEW out \in 0 .. BUF_LEN - 1, NEW n,
         RingHolds(buf, in, out, n)
  PROVE  /\ Ring(buf, in, out) \in Seq(Nat) /\ Len(Ring(buf, in, out)) = Used(in, out)
         /\ SeqHolds(Ring(buf, in, out), n)
<1> DEFINE u == Used(in, out)
<1>1. u \in Nat /\ BUF_LEN \in Nat
  BY UsedIs, UartAssumption
<1>2. ASSUME NEW i \in 1 .. u
      PROVE  /\ buf[Plus(out, i - 1)] \in Nat
             /\ buf[Plus(out, i - 1)] = Number(n, i - 1)
  <2>1. Plus(out, i - 1) \in 0 .. BUF_LEN - 1
    <3>1. i - 1 \in Int /\ out \in Int
      BY <1>1
    <3>2. QED
      BY <3>1, PlusRange
  <2>2. i - 1 \in 0 .. u - 1
    BY <1>1
  <2>3. QED
    BY <2>1, <2>2 DEF RingHolds
<1>3. Ring(buf, in, out) = [i \in 1 .. u |-> buf[Plus(out, i - 1)]]
  BY DEF Ring
<1> HIDE DEF u
<1>4. Ring(buf, in, out) \in Seq(Nat) /\ Len(Ring(buf, in, out)) = u
  BY <1>1, <1>2, <1>3
<1>5. SeqHolds(Ring(buf, in, out), n)
  BY <1>2, <1>3, <1>4 DEF SeqHolds
<1>6. QED
  BY <1>4, <1>5 DEF u

LEMMA Joined ==
  ASSUME NEW s \in Seq(Nat), NEW t \in Seq(Nat), NEW n \in 0 .. Numbers - 1,
         Len(s) + Len(t) < Numbers,
         SeqHolds(s, n), SeqHolds(t, Number(n, Len(s)))
  PROVE  Consecutive(s \o t, n, Number(Number(n, Len(s)), Len(t)))
<1>1. /\ Len(s \o t) = Len(s) + Len(t) /\ Len(s) \in Nat /\ Len(t) \in Nat
      /\ Numbers \in Nat
  BY UartAssumption
<1>2. ASSUME NEW i \in 1 .. Len(s) + Len(t)
      PROVE  (s \o t)[i] = Number(n, i - 1)
  <2>1. CASE i <= Len(s)
    BY <1>1, <2>1 DEF SeqHolds
  <2>2. CASE i > Len(s)
    <3> DEFINE k == i - Len(s)
    <3>1. k \in 1 .. Len(t) /\ k - 1 \in Nat /\ Len(s) + (k - 1) = i - 1
          /\ Len(s) + (k - 1) < Numbers /\ (s \o t)[i] = t[k]
      BY <1>1, <2>2
    <3> HIDE DEF k
    <3>2. t[k] = Number(Number(n, Len(s)), k - 1)
      BY <3>1 DEF SeqHolds
    <3>3. Number(Number(n, Len(s)), k - 1) = Number(n, Len(s) + (k - 1))
      BY <1>1, <3>1, NumberTwice
    <3>4. QED
      BY <3>1, <3>2, <3>3
  <2>3. QED
    BY <1>1, <2>1, <2>2
<1>3. Number(n, Len(s) + Len(t)) = Number(Number(n, Len(s)), Len(t))
  BY <1>1, NumberTwice
<1>4. QED
  BY <1>1, <1>2, <1>3 DEF Consecutive

LEMMA StreamsFollow == StreamInv => StreamsWhole
<1> SUFFICES ASSUME StreamInv PROVE StreamsWhole
  OBVIOUS
<1>1. /\ BUF_LEN \in Nat /\ Numbers \in Nat /\ RxDepth \in Nat /\ TxDepth \in Nat
      /\ BUF_LEN + RxDepth < Numbers /\ BUF_LEN + TxDepth < Numbers
      /\ Used(tx_in, tx_out) \in 0 .. BUF_LEN - 1 /\ Used(rx_in, rx_out) \in 0 .. BUF_LEN - 1
      /\ Len(txFifo) \in 0 .. TxDepth /\ Len(rxFifo) \in 0 .. RxDepth
  BY Sizes DEF StreamInv
<1>2. /\ tx_in \in 0 .. BUF_LEN - 1 /\ tx_out \in 0 .. BUF_LEN - 1
      /\ rx_in \in 0 .. BUF_LEN - 1 /\ rx_out \in 0 .. BUF_LEN - 1
      /\ tx_buf \in [0 .. BUF_LEN - 1 -> Nat] /\ rx_buf \in [0 .. BUF_LEN - 1 -> Nat]
      /\ txFifo \in Seq(Nat) /\ rxFifo \in Seq(Nat)
      /\ shown \in 0 .. Numbers - 1 /\ got \in 0 .. Numbers - 1
  BY DEF StreamInv, StreamTypes, IndexOK
<1>3. Consecutive(txFifo \o Ring(tx_buf, tx_in, tx_out), shown, printed)
  <2> DEFINE r == Ring(tx_buf, tx_in, tx_out)
  <2>1. /\ SeqHolds(txFifo, shown)
        /\ RingHolds(tx_buf, tx_in, tx_out, Number(shown, Len(txFifo)))
        /\ printed = Number(Number(shown, Len(txFifo)), Used(tx_in, tx_out))
    BY DEF StreamInv, TxInOrder
  <2>2. /\ r \in Seq(Nat) /\ Len(r) = Used(tx_in, tx_out)
        /\ SeqHolds(r, Number(shown, Len(txFifo)))
    BY <1>2, <2>1, RingIs
  <2> HIDE DEF r
  <2>3. Len(txFifo) + Len(r) < Numbers
    BY <1>1, <2>2
  <2>4. Consecutive(txFifo \o r, shown, printed)
    BY <1>2, <2>1, <2>2, <2>3, Joined
  <2>5. QED
    BY <2>4 DEF r
<1>4. Consecutive(Ring(rx_buf, rx_in, rx_out) \o rxFifo, got, typed)
  <2> DEFINE r == Ring(rx_buf, rx_in, rx_out)
  <2>1. /\ RingHolds(rx_buf, rx_in, rx_out, got)
        /\ SeqHolds(rxFifo, Number(got, Used(rx_in, rx_out)))
        /\ typed = Number(Number(got, Used(rx_in, rx_out)), Len(rxFifo))
    BY DEF StreamInv, RxInOrder
  <2>2. r \in Seq(Nat) /\ Len(r) = Used(rx_in, rx_out) /\ SeqHolds(r, got)
    BY <1>2, <2>1, RingIs
  <2> HIDE DEF r
  <2>3. Len(r) + Len(rxFifo) < Numbers
    BY <1>1, <2>2
  <2>4. Consecutive(r \o rxFifo, got, typed)
    BY <1>2, <2>1, <2>2, <2>3, Joined
  <2>5. QED
    BY <2>4 DEF r
<1>5. QED
  BY <1>3, <1>4 DEF StreamsWhole

(* However foreground, interrupt routine, alarm and host preempt each      *)
(* other, every character printed is shown once and in order, and every    *)
(* character typed is read once and in order (write.c:84-149,              *)
(* read.c:101-203, init.c:106-197).                                        *)
THEOREM CharactersKept == Spec => []StreamsWhole
<1>1. StreamInv /\ [Next]_vars => StreamInv'
  <2> SUFFICES ASSUME StreamInv, [Next]_vars PROVE StreamInv'
    OBVIOUS
  <2>1. IndexOK'
    BY IndexKept DEF StreamInv
  <2>2. CASE WriteFill
    BY <2>1, <2>2, FillKeeps
  <2>3. CASE WriteAdvance
    BY <2>1, <2>3, AdvanceKeeps
  <2>4. CASE ReadCopy
    BY <2>1, <2>4, ReadCopyKeeps
  <2>5. CASE IrqRx
    BY <2>1, <2>5, IrqRxKeeps
  <2>6. CASE IrqTx
    BY <2>1, <2>6, IrqTxKeeps
  <2>7. CASE HostShow
    BY <2>1, <2>7, ShowKeeps
  <2>8. CASE HostType
    BY <2>1, <2>8, TypeKeeps
  <2>9. CASE \/ UNCHANGED vars \/ Write \/ WriteLook \/ WriteEnable \/ WriteWait \/ WriteWoken
             \/ Read \/ ReadLook \/ ReadWait \/ ReadWoken \/ ReadEnable
             \/ IrqCheck \/ IrqRxFull \/ IrqRxOff \/ IrqTxOff \/ Alarm \/ HostPause
    <3>1. UNCHANGED <<rx, tx, fifos>>
      BY <2>9 DEF vars, Write, WriteLook, WriteEnable, WriteWait, WriteWoken,
                  Read, ReadLook, ReadWait, ReadWoken, ReadEnable,
                  IrqCheck, IrqRxFull, IrqRxOff, IrqTxOff, Alarm, HostPause
    <3>2. QED
      BY <2>1, <2>9, <3>1, QuietKeeps
  <2>10. QED
    BY <2>2, <2>3, <2>4, <2>5, <2>6, <2>7, <2>8, <2>9 DEF Next, WriteSteps, ReadSteps, Irq, Host
<1>2. QED
  BY StreamStart, <1>1, StreamsFollow, PTL DEF Spec

=============================================================================
