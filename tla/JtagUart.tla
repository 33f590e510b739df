------------------------------ MODULE JtagUart ------------------------------
(***************************************************************************)
(* The console: the interrupt-driven JTAG UART driver of the board support *)
(* package that every printf of the firmware goes through.  There is no    *)
(* operating system: write() and read() run in the foreground and spin,    *)
(* the interrupt routine and the alarm preempt them between any two of     *)
(* their accesses, and the host at the other end of the cable works on the *)
(* chip's FIFOs at any time, or stops to.                                  *)
(*                                                                         *)
(* Characters are numbered round Numbers, so that a lost, repeated or      *)
(* overwritten one shows.                                                  *)
(***************************************************************************)
EXTENDS Integers, SequencesExt

CONSTANTS
  BUF_LEN,            \* ALTERA_AVALON_JTAG_UART_BUF_LEN
  RxDepth, TxDepth,   \* of the chip's FIFOs: 64 and 64
  RxNear, TxNear,     \* to full and to empty, for its interrupts: 8 and 8
  Numbers,            \* to number characters with
  MaxCount,           \* the longest request
  MaxTyped,           \* characters the host types
  Timeout             \* sp->timeout, in alarms

ASSUME UartAssumption ==
  /\ BUF_LEN \in Nat /\ BUF_LEN > 1 /\ RxDepth \in Nat \ {0} /\ TxDepth \in Nat \ {0}
  /\ RxNear \in 0 .. RxDepth - 1 /\ TxNear \in 0 .. TxDepth - 1
  /\ Numbers \in Nat /\ Numbers > BUF_LEN + RxDepth /\ Numbers > BUF_LEN + TxDepth
  /\ MaxCount \in Nat \ {0} /\ MaxTyped \in 0 .. Numbers - 1
  /\ Timeout \in Nat \ {0}

VARIABLES
  fg,                 \* where the foreground is in write() or read()
  nonblock,           \* O_NONBLOCK
  count, some,        \* what is left of the request; some of it was done
  seen,               \* the index the foreground took from the interrupt side
  isr,                \* where the interrupt routine is, "none" outside of it
  ravail, wi, space,  \* what it read from the chip
  irq_enable,         \* sp->irq_enable and the register it is written to
  rx_in, rx_out, rx_buf, tx_in, tx_out, tx_buf,
  host_inactive, ac,  \* alarms without activity; the chip's activity bit
  pause_irq,          \* the host paused since the last read of its characters
  rxFifo, txFifo,
  typed, got,         \* numbers: next the host types, next the program expects
  printed, shown      \* numbers: next the program prints, next the host expects

request == <<fg, nonblock, count, some, seen>>
routine == <<isr, ravail, wi, space>>
rx == <<rx_in, rx_out, rx_buf, typed, got>>
tx == <<tx_in, tx_out, tx_buf, printed, shown>>
host == <<host_inactive, ac, pause_irq>>
fifos == <<rxFifo, txFifo>>
vars == <<request, routine, irq_enable, rx, tx, host, fifos>>

Plus(i, n) == (i + n) % BUF_LEN
Number(i, n) == (i + n) % Numbers
Fewer(a, b) == IF a < b THEN a ELSE b

Used(in, out) == (in - out) % BUF_LEN
Ring(buf, in, out) == [i \in 1 .. Used(in, out) |-> buf[Plus(out, i - 1)]]

Foreground == isr = "none"
HostGone == host_inactive >= Timeout

\* The call returns, and its locals are gone.
Return ==
  fg' = "idle" /\ nonblock' = FALSE /\ count' = 0 /\ some' = FALSE /\ seen' = 0

Goto(l) == fg' = l /\ UNCHANGED <<nonblock, count, some, seen>>

-----------------------------------------------------------------------------
(* altera_avalon_jtag_uart_write()                                         *)

Write ==
  /\ fg = "idle" /\ Foreground
  /\ fg' = "w_copy" /\ some' = FALSE
  /\ nonblock' \in BOOLEAN /\ count' \in 1 .. MaxCount
  /\ UNCHANGED <<seen, routine, irq_enable, rx, tx, host, fifos>>

\* out = sp->tx_out, on which the free space is worked out.
WriteLook ==
  /\ fg = "w_copy" /\ Foreground
  /\ seen' = tx_out
  /\ fg' = IF count > 0 THEN "w_fill" ELSE "w_enable"
  /\ UNCHANGED <<nonblock, count, some, routine, irq_enable, rx, tx, host, fifos>>

\* Mutant: the whole ring is used, so that full looks like empty.
RoomOfAll ==
  IF tx_in < seen THEN seen - tx_in ELSE BUF_LEN - tx_in

\* The run of free bytes from tx_in on; one byte of the ring stays free.
Room ==
  IF tx_in < seen THEN seen - 1 - tx_in
  ELSE IF seen > 0 THEN BUF_LEN - tx_in
  ELSE BUF_LEN - 1 - tx_in

Amount == Fewer(Room, count)

\* The copy; nothing shows of it until the index moves.
WriteFill ==
  /\ fg = "w_fill" /\ Foreground
  /\ fg' = IF Amount = 0 THEN "w_enable" ELSE "w_advance"
  /\ tx_buf' = [i \in DOMAIN tx_buf |->
                  IF i \in tx_in .. tx_in + Amount - 1
                  THEN Number(printed, i - tx_in) ELSE tx_buf[i]]
  /\ UNCHANGED <<nonblock, count, some, seen, tx_in, tx_out, printed, shown,
                 routine, irq_enable, rx, host, fifos>>

WriteAdvance ==
  /\ fg = "w_advance" /\ Foreground
  /\ fg' = "w_copy"
  /\ tx_in' = Plus(tx_in, Amount) /\ printed' = Number(printed, Amount)
  /\ count' = count - Amount
  /\ UNCHANGED <<nonblock, some, seen, tx_out, tx_buf, shown, routine, irq_enable,
                 rx, host, fifos>>

\* With interrupts disabled: kick the interrupt routine.
WriteEnable ==
  /\ fg = "w_enable" /\ Foreground
  /\ irq_enable' = irq_enable \cup {"WE"}
  /\ IF count > 0 /\ ~nonblock THEN Goto("w_wait") ELSE Return
  /\ UNCHANGED <<routine, rx, tx, host, fifos>>

\* Mutant: the wait for space does not look at the host.
LeavesWaitOnSpace == seen # tx_out

\* Spin until something was sent or the host is gone.
LeavesWait == seen # tx_out \/ HostGone

WriteWait ==
  /\ fg = "w_wait" /\ Foreground
  /\ LeavesWait
  /\ Goto("w_woken")
  /\ UNCHANGED <<routine, irq_enable, rx, tx, host, fifos>>

\* After it any inactivity at all ends the request.
WriteWoken ==
  /\ fg = "w_woken" /\ Foreground
  /\ IF host_inactive > 0 THEN Return ELSE Goto("w_copy")
  /\ UNCHANGED <<routine, irq_enable, rx, tx, host, fifos>>

-----------------------------------------------------------------------------
(* altera_avalon_jtag_uart_read()                                          *)

Read ==
  /\ fg = "idle" /\ Foreground
  /\ fg' = "r_look" /\ some' = FALSE
  /\ nonblock' \in BOOLEAN /\ count' \in 1 .. MaxCount
  /\ UNCHANGED <<seen, routine, irq_enable, rx, tx, host, fifos>>

ReadLook ==
  /\ fg = "r_look" /\ Foreground
  /\ seen' = rx_in /\ fg' = "r_copy"
  /\ UNCHANGED <<nonblock, count, some, routine, irq_enable, rx, tx, host, fifos>>

\* The run of characters from rx_out on.
Ready == IF seen >= rx_out THEN seen - rx_out ELSE BUF_LEN - rx_out

ReadCopy ==
  /\ fg = "r_copy" /\ Foreground
  /\ \E n \in {Fewer(Ready, count)} :
       /\ rx_out' = Plus(rx_out, n) /\ got' = Number(got, n)
       /\ IF n = 0 /\ ~some
          THEN IF nonblock THEN Return ELSE Goto("r_wait")
          ELSE /\ count' = count - n /\ some' = TRUE
               /\ fg' = IF n > 0 /\ count > n THEN "r_look" ELSE "r_enable"
               /\ UNCHANGED <<nonblock, seen>>
  /\ UNCHANGED <<rx_in, rx_buf, typed, routine, irq_enable, tx, host, fifos>>

ReadWait ==
  /\ fg = "r_wait" /\ Foreground
  /\ seen # rx_in \/ HostGone
  /\ Goto("r_woken")
  /\ UNCHANGED <<routine, irq_enable, rx, tx, host, fifos>>

ReadWoken ==
  /\ fg = "r_woken" /\ Foreground
  /\ IF seen = rx_in THEN Return ELSE Goto("r_look")
  /\ UNCHANGED <<routine, irq_enable, rx, tx, host, fifos>>

ReadEnable ==
  /\ fg = "r_enable" /\ Foreground
  /\ irq_enable' = irq_enable \cup {"RE"}
  /\ Return
  /\ UNCHANGED <<routine, rx, tx, host, fifos>>

-----------------------------------------------------------------------------
(* altera_avalon_jtag_uart_irq()                                           *)

\* The chip's two interrupts, with the levels at which it raises them: when
\* the host paused or left little room, and when little is left to show.
ReadIrq == "RE" \in irq_enable /\ (pause_irq \/ RxDepth - Len(rxFifo) <= RxNear)
WriteIrq == "WE" \in irq_enable /\ Len(txFifo) <= TxNear

\* Entry, and the read of the control register each round begins with.
IrqCheck ==
  /\ isr = "check" \/ (isr = "none" /\ (ReadIrq \/ WriteIrq))
  /\ isr' = IF ReadIrq THEN "rx" ELSE IF WriteIrq THEN "tx" ELSE "none"
  /\ ravail' = ReadIrq /\ wi' = WriteIrq
  /\ space' = IF WriteIrq THEN TxDepth - Len(txFifo) ELSE 0
  /\ UNCHANGED <<request, irq_enable, rx, tx, host, fifos>>

RxFull == Plus(rx_in, 1) = rx_out

\* One read of the data register: a character and whether there are more.
\* It takes the pause back.
IrqRx ==
  /\ isr = "rx" /\ ~RxFull
  /\ pause_irq' = FALSE
  /\ IF rxFifo = <<>>
     THEN /\ ravail' = FALSE /\ isr' = "rx_off"
          /\ UNCHANGED <<rx_in, rx_buf, rxFifo>>
     ELSE /\ rx_buf' = [rx_buf EXCEPT ![rx_in] = Head(rxFifo)]
          /\ rx_in' = Plus(rx_in, 1)
          /\ rxFifo' = Tail(rxFifo)
          /\ ravail' = (rxFifo' # <<>>) /\ isr' = "rx"
  /\ UNCHANGED <<request, wi, space, irq_enable, rx_out, typed, got, tx,
                 host_inactive, ac, txFifo>>

IrqRxFull ==
  /\ isr = "rx" /\ RxFull
  /\ isr' = "rx_off"
  /\ UNCHANGED <<request, ravail, wi, space, irq_enable, rx, tx, host, fifos>>

\* Data are left only when the ring is full: no interrupts until it is read.
IrqRxOff ==
  /\ isr = "rx_off"
  /\ irq_enable' = IF ravail THEN irq_enable \ {"RE"} ELSE irq_enable
  /\ isr' = IF wi THEN "tx" ELSE "check"
  /\ UNCHANGED <<request, ravail, wi, space, rx, tx, host, fifos>>

IrqTx ==
  /\ isr = "tx" /\ space > 0 /\ tx_out # tx_in
  /\ txFifo' = Append(txFifo, tx_buf[tx_out])
  /\ tx_out' = Plus(tx_out, 1) /\ space' = space - 1
  /\ UNCHANGED <<request, isr, ravail, wi, irq_enable, rx, tx_in, tx_buf, printed,
                 shown, host, rxFifo>>

\* Mutant: the interrupt is turned off whether or not the ring is empty.
TxDone == TRUE

\* Space is left in the FIFO, so the ring is empty.
TxEmptied == space > 0

IrqTxOff ==
  /\ isr = "tx" /\ ~(space > 0 /\ tx_out # tx_in)
  /\ irq_enable' = IF TxEmptied THEN irq_enable \ {"WE"} ELSE irq_enable
  /\ isr' = "check"
  /\ UNCHANGED <<request, ravail, wi, space, rx, tx, host, fifos>>

-----------------------------------------------------------------------------
(* altera_avalon_jtag_uart_timeout(), called by the alarm every second; the *)
(* count stops far above the timeout.                                      *)

Alarm ==
  /\ Foreground
  /\ ac' = FALSE
  /\ host_inactive' = IF ac THEN 0 ELSE Fewer(host_inactive + 1, Timeout)
  /\ UNCHANGED <<request, routine, irq_enable, rx, tx, pause_irq, fifos>>

-----------------------------------------------------------------------------
(* The host, through the chip's JTAG interface: while it is there it takes *)
(* and shows what was printed, may type, and pauses.  Taking a character   *)
(* does not count as activity, the other two do.                           *)

HostShow ==
  /\ txFifo # <<>>
  /\ txFifo' = Tail(txFifo) /\ shown' = Number(shown, 1)
  /\ UNCHANGED <<request, routine, irq_enable, rx, tx_in, tx_out, tx_buf, printed,
                 host, rxFifo>>

HostType ==
  /\ Len(rxFifo) < RxDepth /\ typed < MaxTyped
  /\ rxFifo' = Append(rxFifo, typed) /\ typed' = Number(typed, 1) /\ ac' = TRUE
  /\ UNCHANGED <<request, routine, irq_enable, rx_in, rx_out, rx_buf, got, tx,
                 host_inactive, pause_irq, txFifo>>

HostPause ==
  /\ ac' = TRUE
  /\ pause_irq' = (pause_irq \/ rxFifo # <<>>)
  /\ UNCHANGED <<request, routine, irq_enable, rx, tx, host_inactive, fifos>>

-----------------------------------------------------------------------------
Init ==
  /\ fg = "idle" /\ nonblock = FALSE /\ count = 0 /\ some = FALSE /\ seen = 0
  /\ isr = "none" /\ ravail = FALSE /\ wi = FALSE /\ space = 0
  /\ irq_enable = {"RE"}
  /\ rx_in = 0 /\ rx_out = 0 /\ tx_in = 0 /\ tx_out = 0
  /\ rx_buf = [i \in 0 .. BUF_LEN - 1 |-> 0]
  /\ tx_buf = [i \in 0 .. BUF_LEN - 1 |-> 0]
  /\ host_inactive = 0 /\ ac = FALSE /\ pause_irq = FALSE
  /\ rxFifo = <<>> /\ txFifo = <<>>
  /\ typed = 0 /\ got = 0 /\ printed = 0 /\ shown = 0

WriteSteps ==
  WriteLook \/ WriteFill \/ WriteAdvance \/ WriteEnable \/ WriteWait \/ WriteWoken
ReadSteps == ReadLook \/ ReadCopy \/ ReadWait \/ ReadWoken \/ ReadEnable
Irq == IrqCheck \/ IrqRx \/ IrqRxFull \/ IrqRxOff \/ IrqTx \/ IrqTxOff
Host == HostShow \/ HostType \/ HostPause

Next == Write \/ WriteSteps \/ Read \/ ReadSteps \/ Irq \/ Alarm \/ Host

\* The processor keeps running; the host owes nothing.
Fairness == WF_vars(WriteSteps) /\ WF_vars(ReadSteps) /\ WF_vars(Irq) /\ WF_vars(Alarm)

Spec == Init /\ [][Next]_vars /\ Fairness

-----------------------------------------------------------------------------
Consecutive(s, first, next) ==
  /\ \A i \in 1 .. Len(s) : s[i] = Number(first, i - 1)
  /\ Number(first, Len(s)) = next

(***************************************************************************)
(* Whatever preempts what, the characters on their way out are those       *)
(* printed and not yet shown, in order, and the characters on their way in *)
(* are those typed and not yet read: neither ring is ever taken for empty  *)
(* when it is full, overwritten, or read ahead of its writer.              *)
(***************************************************************************)
StreamsWhole ==
  /\ Consecutive(txFifo \o Ring(tx_buf, tx_in, tx_out), shown, printed)
  /\ Consecutive(Ring(rx_buf, rx_in, rx_out) \o rxFifo, got, typed)

(***************************************************************************)
(* The interrupt routine turns itself off when it has nothing to do, and   *)
(* the foreground turns it on again: characters never lie in the transmit  *)
(* ring with the write interrupt off, and the read interrupt is never off  *)
(* with room in the receive ring, unless the foreground is on its way to   *)
(* the step that enables it.                                               *)
(***************************************************************************)
NoLostWakeup ==
  /\ tx_in # tx_out =>
       "WE" \in irq_enable \/ fg \in {"w_copy", "w_fill", "w_advance", "w_enable"}
  /\ "RE" \notin irq_enable =>
       RxFull \/ (some /\ fg \in {"r_look", "r_copy", "r_enable"})

Writing == fg \in {"w_copy", "w_fill", "w_advance", "w_enable", "w_wait", "w_woken"}

(***************************************************************************)
(* The program is out of write() again and again: a blocking write comes   *)
(* back whether the host reads what is printed or has gone.  The alarm     *)
(* ends the wait for space, which is all that keeps an unattended board    *)
(* from stopping at its first printf past the ring.  A host that stays     *)
(* active has to take everything there is now and then: one that pauses    *)
(* and never takes would hold the write for ever.                          *)
(***************************************************************************)
WriteReturns == ([]<>ac => []<>(txFifo = <<>>)) => []<>~Writing

=============================================================================
