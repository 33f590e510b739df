------------------------------ MODULE UsbHost ------------------------------
(***************************************************************************)
(* The USB host of the firmware from a bare bus to a MIDI device that can  *)
(* be polled: the connection detector of the MAX3421E with its handler     *)
(* (usbhost.cpp), USB::Task() with Configuring() and AttemptConfig()       *)
(* (Usb.cpp), and Init() and Release() of the one class driver main.cpp    *)
(* registers (usbh_midi.cpp).  A step is what the processor does up to and *)
(* including one look at the bus or one control request; between the steps *)
(* the device may be pulled out or replaced.                               *)
(*                                                                         *)
(* Low-speed devices go the way full-speed ones do.  The repetitions       *)
(* inside a request are the subject of UsbTransfer.                        *)
(***************************************************************************)
EXTENDS Naturals, SequencesExt, AddressPool, MidiDescParser

CONSTANTS
  Devices,            \* the devices that may be plugged in
  Configurations,     \* of a device: a sequence of sequences of descriptors
  Novation,           \* the devices setupDeviceSpecific() knows
  ChunkSizes,         \* how many bytes one packet brings
  MaxRetries          \* three

VARIABLES
  line,               \* the bus: "SE0", "SE1" or "FSHOST"
  condet, resetting,  \* CONDETIRQ and BUSRST
  frame,              \* FRAMEIRQ, which nothing ever clears
  dev,                \* the device at the other end
  vbus,               \* vbusState
  task,               \* usb_task_state
  elapsed,            \* the time that Task() waits for is over
  pc, retries,        \* where in Task(), and AttemptConfig()'s count
  bAddress, bPollEnable, pool,
  ep,                 \* epInfo[]: the address of each direction's endpoint
  vidpid,             \* the device Init() is looking at
  config,             \* the configuration it looks at
  p, chunk, pos       \* the parser, its input, how much was read

bus == <<line, condet, resetting, frame, dev>>
midi == <<bAddress, bPollEnable, pool>>
scan == <<ep, vidpid, config, p, chunk, pos>>
vars == <<bus, vbus, task, elapsed, pc, retries, midi, scan>>

NoDevice == [kind |-> "none", ready |-> FALSE, addr |-> 0, conf |-> 0]

\* A device answers only after a bus reset, then at address 0.
Attached(d) == [kind |-> d, ready |-> FALSE, addr |-> 0, conf |-> 0]
AfterReset(d) ==
  IF d = NoDevice THEN d ELSE [d EXCEPT !.ready = TRUE, !.addr = 0, !.conf = 0]

Detached == {"INITIALIZE", "WAIT_FOR_DEVICE", "ILLEGAL"}

-----------------------------------------------------------------------------
(* The bus                                                                 *)

Plug(d) ==
  /\ dev = NoDevice /\ line = "SE0"
  /\ dev' = Attached(d) /\ line' = "FSHOST" /\ condet' = TRUE
  /\ UNCHANGED <<resetting, frame, vbus, task, elapsed, pc, retries, midi, scan>>

Unplug ==
  /\ dev # NoDevice /\ line = "FSHOST"
  /\ dev' = NoDevice /\ line' = "SE0" /\ condet' = TRUE
  /\ UNCHANGED <<resetting, frame, vbus, task, elapsed, pc, retries, midi, scan>>

\* A plug on its way in or out may show the illegal state.
Glitch ==
  /\ line' = IF line # "SE1" THEN "SE1"
             ELSE IF dev = NoDevice THEN "SE0" ELSE "FSHOST"
  /\ condet' = TRUE
  /\ UNCHANGED <<resetting, frame, dev, vbus, task, elapsed, pc, retries, midi,
                 scan>>

ResetDone ==
  /\ resetting
  /\ resetting' = FALSE /\ dev' = AfterReset(dev)
  /\ UNCHANGED <<line, condet, frame, vbus, task, elapsed, pc, retries, midi, scan>>

Frame ==
  /\ vbus = "FSHOST" /\ ~resetting /\ ~frame
  /\ frame' = TRUE
  /\ UNCHANGED <<line, condet, resetting, dev, vbus, task, elapsed, pc, retries,
                 midi, scan>>

TimePasses ==
  /\ ~elapsed
  /\ elapsed' = TRUE
  /\ UNCHANGED <<bus, vbus, task, pc, retries, midi, scan>>

-----------------------------------------------------------------------------
(* The connection detector.  Init() looks at the bus whether or not there  *)
(* was an interrupt, IntHandler() only after one; both look first and      *)
(* clear the interrupt next.                                               *)

busprobe(next) ==
  /\ vbus' = line
  /\ pc' = next
  /\ UNCHANGED <<bus, task, elapsed, retries, midi, scan>>

ClearCondet(from, next) ==
  /\ pc = from
  /\ condet' = FALSE /\ pc' = next
  /\ UNCHANGED <<line, resetting, frame, dev, vbus, task, elapsed, retries, midi,
                 scan>>

PowerUpProbe == pc = "powerup" /\ busprobe("powerup_clear")
PowerUpClear == ClearCondet("powerup_clear", "main")

IntProbe == pc = "main" /\ task # "RUNNING" /\ condet /\ busprobe("int_clear")
IntClear == ClearCondet("int_clear", "switch")

-----------------------------------------------------------------------------
(* The driver's Release() and how Init() ends                              *)

\* The parser and its buffer are gone when Init() returns.
Forget ==
  /\ config' = 1 /\ p' = NewParser(TRUE) /\ chunk' = <<>> /\ pos' = 0
  /\ vidpid' = "none"

Release ==
  /\ pool' = AfterFree(pool, bAddress)
  /\ bAddress' = 0
  /\ bPollEnable' = FALSE

\* Mutant: the retries are not counted.
InitReturnsForever(rcode) ==
  IF rcode = "JERR" /\ retries < MaxRetries
  THEN retries' = retries /\ pc' = "first"
  ELSE retries' = retries /\ pc' = "limbo"

\* AttemptConfig() when Init() returns rcode # 0.
InitReturns(rcode) ==
  IF rcode = "JERR" /\ retries < MaxRetries
  THEN retries' = retries + 1 /\ pc' = "first"
  ELSE retries' = retries /\ pc' = "limbo"

\* Mutant: the way out when SET_ADDRESS failed keeps the address' entry.
InitFailsKeeping(rcode) ==
  /\ pool' = pool /\ bAddress' = 0 /\ bPollEnable' = FALSE
  /\ Forget /\ InitReturns(rcode)

\* Mutant: Init() returns from a failure without Release().
InitFailsUnreleased(rcode) ==
  /\ UNCHANGED midi
  /\ Forget /\ InitReturns(rcode)

InitFails(rcode) == Release /\ Forget /\ InitReturns(rcode)

-----------------------------------------------------------------------------
(* USB::Task()                                                             *)

\* Mutant: a device that is pulled out of an error is not noticed.
CheckedNotInError ==
  CASE vbus = "SE1" -> "ILLEGAL"
    [] vbus = "SE0" /\ task \notin Detached \cup {"ERROR"} -> "INITIALIZE"
    [] vbus = "FSHOST" /\ task \in Detached -> "SETTLE"
    [] OTHER -> task

\* The state after the check of vbusState at the top of Task().
Checked ==
  CASE vbus = "SE1" -> "ILLEGAL"
    [] vbus = "SE0" /\ task \notin Detached -> "INITIALIZE"
    [] vbus = "FSHOST" /\ task \in Detached -> "SETTLE"
    [] OTHER -> task

\* The task state machine is entered with state s.
Switch(s) ==
  /\ pc = "switch" \/ (pc = "main" /\ task # "RUNNING" /\ ~condet)
  /\ Checked = s
  /\ UNCHANGED <<line, condet, frame, dev, vbus, retries, scan>>

Initialize ==
  /\ Switch("INITIALIZE")
  /\ Release
  /\ task' = "WAIT_FOR_DEVICE" /\ pc' = "main"
  /\ UNCHANGED <<resetting, elapsed>>

Sit ==
  /\ \E s \in {"WAIT_FOR_DEVICE", "ILLEGAL", "ERROR"} : Switch(s) /\ task' = s
  /\ pc' = "main"
  /\ UNCHANGED <<resetting, elapsed, midi>>

Settle ==
  /\ Switch("SETTLE")
  /\ task # "SETTLE" \/ ~elapsed
  /\ task' = "SETTLE" /\ pc' = "main"
  /\ elapsed' = (task = "SETTLE" /\ elapsed)
  /\ UNCHANGED <<resetting, midi>>

ResetDevice ==
  /\ Switch("SETTLE")
  /\ task = "SETTLE" /\ elapsed
  /\ resetting' = TRUE
  /\ task' = "WAIT_RESET_COMPLETE" /\ pc' = "main"
  /\ UNCHANGED <<elapsed, midi>>

WaitResetComplete ==
  /\ Switch("WAIT_RESET_COMPLETE")
  /\ task' = IF resetting THEN task ELSE "WAIT_SOF"
  /\ pc' = "main"
  /\ UNCHANGED <<resetting, elapsed, midi>>

WaitSof ==
  /\ Switch("WAIT_SOF")
  /\ task' = IF frame THEN "WAIT_RESET" ELSE task
  /\ elapsed' = (elapsed /\ ~frame)
  /\ pc' = "main"
  /\ UNCHANGED <<resetting, midi>>

WaitReset ==
  /\ Switch("WAIT_RESET")
  /\ task' = IF elapsed THEN "CONFIGURING" ELSE task
  /\ pc' = IF elapsed THEN "describe" ELSE "main"
  /\ UNCHANGED <<resetting, elapsed, midi>>

-----------------------------------------------------------------------------
(* Configuring(), AttemptConfig() and the driver's Init(), one control     *)
(* request a step.                                                         *)

Answers(addr) == dev.ready /\ dev.addr = addr

\* What a request to addr can return: SetAddress() has to find the address,
\* and what does not answer is a timeout or an error on the line.
Results(addr) ==
  IF ~Known(pool, addr) THEN {"ERROR"}
  ELSE IF Answers(addr) THEN {"OK", "JERR", "ERROR"} ELSE {"JERR", "ERROR"}

\* Configuring(): getDevDescr(0).
GetDescriptor ==
  /\ pc = "describe"
  /\ \E rcode \in Results(0) :
       IF rcode = "OK"
       THEN pc' = "first" /\ retries' = 0 /\ task' = task
       ELSE pc' = "main" /\ retries' = retries /\ task' = "ERROR"
  /\ UNCHANGED <<bus, vbus, elapsed, midi, scan>>

\* Init(): getDevDescr(0) for the packet size, then the address is allocated.
GetPacketSize ==
  /\ pc = "first"
  /\ \E rcode \in Results(0) :
       IF rcode = "OK"
       THEN /\ bAddress' = AllocAddress(pool) /\ pool' = AfterAlloc(pool)
            /\ pc' = IF bAddress' = Free THEN "limbo" ELSE "address"
            /\ UNCHANGED <<bPollEnable, retries, vidpid, config, p, chunk, pos>>
       ELSE InitFails(rcode)
  /\ UNCHANGED <<bus, vbus, task, elapsed, ep>>

\* setAddr(0, bAddress).  The device may take the address and the answer be
\* lost.  On failure the address is freed.
SetAddr ==
  /\ pc = "address"
  /\ \E rcode \in Results(0), took \in BOOLEAN :
       /\ took => Answers(0)
       /\ rcode = "OK" => took
       /\ dev' = IF took THEN [dev EXCEPT !.addr = bAddress] ELSE dev
       /\ IF rcode = "OK"
          THEN pc' = "second" /\ UNCHANGED <<midi, retries, vidpid, config, p,
                                             chunk, pos>>
          ELSE InitFails(rcode)
  /\ UNCHANGED <<line, condet, resetting, frame, vbus, task, elapsed, ep>>

\* getDevDescr(bAddress): from it the driver knows vendor and product.
GetVidPid ==
  /\ pc = "second"
  /\ \E rcode \in Results(bAddress) :
       IF rcode = "OK"
       THEN pc' = "header" /\ vidpid' = dev.kind
            /\ UNCHANGED <<midi, retries, config, p, chunk, pos>>
       ELSE InitFails(rcode)
  /\ UNCHANGED <<bus, vbus, task, elapsed, ep>>

Bytes(d, c) == FlattenSeq(Configurations[d][c])

\* getConfDescr(): nine bytes for the total length ...
GetHeader ==
  /\ pc = "header"
  /\ \E rcode \in Results(bAddress) :
       IF rcode = "OK"
       THEN /\ pc' = "data" /\ pos' = 0 /\ p' = NewParser(p.isMidiSearch)
            /\ UNCHANGED <<midi, retries, vidpid, config, chunk>>
       ELSE InitFails(rcode)
  /\ UNCHANGED <<bus, vbus, task, elapsed, ep>>

\* ... then everything, a packet at a time.  The descriptors kept here are
\* shorter than real ones, so a packet of bufSize bytes ends anywhere.
GetChunk ==
  /\ pc = "data"
  /\ \E rcode \in Results(bAddress) :
       IF rcode = "OK"
       THEN \E size \in ChunkSizes :
              LET end == Least(pos + size, Len(Bytes(vidpid, config)))
              IN /\ chunk' = SubSeq(Bytes(vidpid, config), pos + 1, end)
                 /\ pos' = end /\ pc' = "parse"
                 /\ UNCHANGED <<midi, retries, vidpid, config, p>>
       ELSE InitFails(rcode)
  /\ UNCHANGED <<bus, vbus, task, elapsed, ep>>

\* Parse(): one round of its loop, in two steps when the chunk has all of a
\* descriptor.
ParseStep ==
  /\ pc = "parse"
  /\ \E r \in {ParseDescriptor(p, ep, vidpid \in Novation, chunk)} :
       /\ p' = r[1] /\ ep' = r[2] /\ chunk' = r[3]
       /\ pc' = IF r[3] # <<>> THEN "parse"
                ELSE IF pos = Len(Bytes(vidpid, config)) THEN "status" ELSE "data"
  /\ UNCHANGED <<bus, vbus, task, elapsed, retries, midi, vidpid, config, pos>>

\* The status stage, and the loops over the configurations: first for MIDI,
\* then for anything with a fitting endpoint.
NextConfig ==
  /\ pc = "status"
  /\ \E rcode \in Results(bAddress) :
       IF rcode = "OK" /\ p.nEPs > 0
       THEN pc' = "setconf" /\ UNCHANGED <<midi, retries, vidpid, config, p, pos>>
       ELSE IF rcode = "OK" /\ config < Len(Configurations[vidpid])
       THEN pc' = "header" /\ config' = config + 1
            /\ UNCHANGED <<midi, retries, vidpid, p, pos>>
       ELSE IF rcode = "OK" /\ p.isMidiSearch
       THEN pc' = "header" /\ config' = 1 /\ p' = NewParser(FALSE)
            /\ UNCHANGED <<midi, retries, vidpid, pos>>
       ELSE InitFails(IF rcode = "OK" THEN "ERROR" ELSE rcode)
  /\ chunk' = <<>>
  /\ UNCHANGED <<bus, vbus, task, elapsed, ep>>

\* setConf(bAddress, bConfNum); when it succeeds, Init(), Configuring() and
\* Task() return without another look at the bus.
SetConf ==
  /\ pc = "setconf"
  /\ \E rcode \in Results(bAddress), took \in BOOLEAN :
       /\ took => Answers(bAddress)
       /\ rcode = "OK" => took
       /\ dev' = IF took THEN [dev EXCEPT !.conf = p.confValue] ELSE dev
       /\ IF rcode = "OK"
          THEN /\ bPollEnable' = TRUE /\ task' = "RUNNING" /\ pc' = "main"
               /\ Forget
               /\ UNCHANGED <<bAddress, pool, retries>>
          ELSE InitFails(rcode) /\ task' = task
  /\ UNCHANGED <<line, condet, resetting, frame, vbus, elapsed, ep>>

\* Mutant: no reset after a failure.
LeaveLimboAsItIs ==
  /\ pc = "limbo"
  /\ dev' = dev
  /\ task' = "ERROR" /\ pc' = "main" /\ retries' = 0
  /\ UNCHANGED <<line, condet, resetting, frame, vbus, elapsed, midi, scan>>

\* AttemptConfig() resets the bus after a failure, waits until it is over and
\* returns the error to Task().
LeaveLimbo ==
  /\ pc = "limbo"
  /\ dev' = AfterReset(dev)
  /\ task' = "ERROR" /\ pc' = "main" /\ retries' = 0
  /\ UNCHANGED <<line, condet, resetting, frame, vbus, elapsed, midi, scan>>

-----------------------------------------------------------------------------
Init ==
  /\ dev = NoDevice /\ line = "SE0"
  /\ condet = FALSE /\ resetting = FALSE /\ frame = FALSE
  /\ vbus = "SE0" /\ task = "INITIALIZE" /\ elapsed = TRUE
  /\ pc = "powerup" /\ retries = 0
  /\ bAddress = 0 /\ bPollEnable = FALSE /\ pool = EmptyPool
  /\ ep = [in |-> 0, out |-> 0]
  /\ vidpid = "none" /\ config = 1
  /\ p = NewParser(TRUE) /\ chunk = <<>> /\ pos = 0

Enumerate ==
  \/ GetDescriptor \/ GetPacketSize \/ SetAddr \/ GetVidPid
  \/ GetHeader \/ GetChunk \/ ParseStep \/ NextConfig \/ SetConf \/ LeaveLimbo

Task ==
  \/ IntProbe \/ IntClear \/ Initialize \/ Sit \/ Settle \/ ResetDevice
  \/ WaitResetComplete \/ WaitSof \/ WaitReset

Host == PowerUpProbe \/ PowerUpClear \/ Task \/ Enumerate

Environment == (\E d \in Devices : Plug(d)) \/ Unplug \/ Glitch

Next == Host \/ ResetDone \/ Frame \/ TimePasses \/ Environment

Fairness ==
  WF_vars(Host) /\ WF_vars(ResetDone) /\ WF_vars(Frame) /\ WF_vars(TimePasses)

Spec == Init /\ [][Next]_vars
LiveSpec == Spec /\ Fairness

-----------------------------------------------------------------------------
(* Properties                                                              *)

\* The driver and the pool agree at every step on whether address 1 is in use,
\* and no other entry is, whichever of the requests of Init() failed
\* (usbh_midi.cpp:164-271, address.h:210).
OneAddress ==
  /\ Cardinality(Holding(pool, RootAddress)) = (IF bAddress = Free THEN 0 ELSE 1)
  /\ pc \in {"describe", "first", "limbo"} => bAddress = Free

\* Between two calls of Task() the driver has an address exactly when the host
\* runs, and only then may be polled; main.cpp:188 starts polling on that.
HeldWhileRunning ==
  pc = "main" =>
    /\ (bAddress = RootAddress) <=> (task = "RUNNING")
    /\ bPollEnable <=> (task = "RUNNING")

\* A device left in the error state answers at address 0 or not at all: after
\* any failure the bus is reset (Usb.cpp:629, "the device may be in a limbo
\* state").
ErrorLeavesNoLimbo ==
  task = "ERROR" /\ dev.ready => dev.addr = 0 /\ dev.conf = 0

\* The endpoints a driver should find in configuration c: those of accepted
\* type whose last interface before them is a MIDI one, or any in step 2.
Wanted(c, modeMidi, novation) ==
  {j \in DOMAIN c :
     /\ c[j][2] = ENDPOINT /\ c[j][4] \in Accepted(novation)
     /\ \E i \in 1 .. j - 1 :
          /\ c[i][2] = INTERFACE /\ (modeMidi => c[i][3] = MIDI)
          /\ \A k \in i + 1 .. j - 1 : c[k][2] # INTERFACE}

HasMidi(d) ==
  \E c \in Range(Configurations[d]) : Wanted(c, TRUE, d \in Novation) # {}

\* When the host starts to run, the device has the driver's address, it is in
\* the first configuration that has what the driver wants, and the driver reads
\* from an IN endpoint it wants there, however the descriptors were cut into
\* packets, whatever was attached before and however often Init() was retried.
RunningIsReady ==
  [][task # "RUNNING" /\ task' = "RUNNING" =>
       /\ Answers(bAddress)
       /\ \E n \in DOMAIN Configurations[dev.kind] :
            LET confs == Configurations[dev.kind]
                want == Wanted(confs[n], HasMidi(dev.kind), dev.kind \in Novation)
            IN /\ dev'.conf = confs[n][1][3]
               /\ \A m \in 1 .. n - 1 :
                    Wanted(confs[m], HasMidi(dev.kind), dev.kind \in Novation) = {}
               /\ \E j \in want : IsIn(confs[n][j][3])
                                  /\ ep'.in = confs[n][j][3] % DirIn]_vars

\* A device that is seen is served or reported: Task() gets to running or to
\* the error state, or sees the device leave, whatever fails and whenever it
\* is pulled out (Usb.cpp:455-559).
AttachIsDecided ==
  (vbus = "FSHOST") ~> (task \in {"RUNNING", "ERROR"} \/ vbus # "FSHOST")

\* A disconnect that is seen brings Task() back to waiting, also out of the
\* error state, unless the bus changes again.
DetachIsCleared ==
  (vbus = "SE0") ~> (task \in {"WAIT_FOR_DEVICE", "ILLEGAL"} \/ vbus # "SE0")
=============================================================================
