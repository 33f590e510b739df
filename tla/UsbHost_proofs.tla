--------------------------- MODULE UsbHost_proofs ---------------------------
(***************************************************************************)
(* The driver and the address pool agree, and a device that was given up   *)
(* can be enumerated again, for every size of the pool, all devices and    *)
(* any number of retries.                                                  *)
(***************************************************************************)
EXTENDS UsbHost, FiniteSetTheorems, TLAPS

OnePool == [i \in 1 .. Entries |-> IF i = 1 THEN RootAddress ELSE Free]

(* Min returns the least element of a set of numbers that has one.         *)
LEMMA MinOf ==
  ASSUME NEW S \in SUBSET Nat, NEW m \in S, \A y \in S : m <= y
  PROVE  Min(S) = m
<1>1. ASSUME NEW x \in S, \A y \in S : x <= y PROVE x = m
  <2>1. x <= m /\ m <= x
    BY <1>1
  <2>2. x \in Nat /\ m \in Nat
    OBVIOUS
  <2>3. QED
    BY <2>1, <2>2
<1>2. QED
  BY <1>1 DEF Min

LEMMA HoldingEmpty ==
  /\ Holding(EmptyPool, Free) = 1 .. Entries
  /\ Holding(EmptyPool, RootAddress) = {}
BY DEF Holding, EmptyPool, Free, RootAddress

LEMMA HoldingOne == Holding(OnePool, RootAddress) = {1}
<1>1. 1 \in 1 .. Entries
  BY EntriesAssumption
<1>2. QED
  BY <1>1 DEF Holding, OnePool, Free, RootAddress

LEMMA IndexEmpty == FindAddressIndex(EmptyPool, Free) = 1
<1>1. 1 \in 1 .. Entries
  BY EntriesAssumption
<1>2. Min(1 .. Entries) = 1
  <2>1. 1 .. Entries \in SUBSET Nat /\ \A y \in 1 .. Entries : 1 <= y
    BY EntriesAssumption
  <2>2. QED
    BY <1>1, <2>1, MinOf
<1>3. QED
  BY <1>1, <1>2, HoldingEmpty DEF FindAddressIndex

LEMMA IndexOne == FindAddressIndex(OnePool, RootAddress) = 1
<1>1. Min({1}) = 1
  BY MinOf
<1>2. QED
  BY <1>1, HoldingOne DEF FindAddressIndex

(* From an empty pool the first entry is taken, and given back.            *)
LEMMA AllocFromEmpty ==
  AllocAddress(EmptyPool) = RootAddress /\ AfterAlloc(EmptyPool) = OnePool
<1>1. AllocAddress(EmptyPool) = RootAddress
  BY IndexEmpty DEF AllocAddress
<1>2. AfterAlloc(EmptyPool) = OnePool
  BY IndexEmpty DEF AfterAlloc, OnePool, EmptyPool
<1>3. QED
  BY <1>1, <1>2

LEMMA FreeGivesEmpty ==
  AfterFree(OnePool, RootAddress) = EmptyPool /\ AfterFree(EmptyPool, Free) = EmptyPool
<1>1. AfterFree(OnePool, RootAddress) = EmptyPool
  BY IndexOne DEF AfterFree, OnePool, EmptyPool
<1>2. AfterFree(EmptyPool, Free) = EmptyPool
  BY IndexEmpty DEF AfterFree, EmptyPool
<1>3. QED
  BY <1>1, <1>2

-----------------------------------------------------------------------------

NoAddress == bAddress = Free /\ pool = EmptyPool
HasAddress == bAddress = RootAddress /\ pool = OnePool

Before == {"powerup", "powerup_clear", "int_clear", "switch", "describe", "first",
           "limbo"}
After == {"address", "second", "header", "data", "parse", "status", "setconf"}

(* Which of the two holds is decided by the place in the program, and      *)
(* between two calls of Task() by its state.                               *)
AddressInv ==
  /\ pc \in Before \cup After \cup {"main"}
  /\ pc \in Before => NoAddress
  /\ pc \in After => HasAddress
  /\ pc # "main" => bPollEnable = FALSE /\ task # "RUNNING"
  /\ pc = "main" => \/ NoAddress /\ bPollEnable = FALSE /\ task # "RUNNING"
                    \/ HasAddress /\ bPollEnable = TRUE /\ task = "RUNNING"

(* Release() leaves no address, with one or without.                       *)
LEMMA ReleaseEmpties ==
  ASSUME NoAddress \/ HasAddress, Release
  PROVE  NoAddress' /\ bPollEnable' = FALSE
BY FreeGivesEmpty DEF NoAddress, HasAddress, Release, Free

(* So a failing Init() does, and its caller retries or leaves.             *)
LEMMA FailureEmpties ==
  ASSUME NoAddress \/ HasAddress, NEW rcode, InitFails(rcode)
  PROVE  NoAddress' /\ bPollEnable' = FALSE /\ pc' \in {"first", "limbo"}
BY ReleaseEmpties DEF InitFails, InitReturns

LEMMA FailureKeepsInv ==
  ASSUME AddressInv, pc # "main", NEW rcode, InitFails(rcode), task' = task
  PROVE  AddressInv'
<1>1. NoAddress \/ HasAddress
  BY DEF AddressInv, Before, After
<1>2. NoAddress' /\ bPollEnable' = FALSE /\ pc' \in {"first", "limbo"}
  BY <1>1, FailureEmpties
<1>3. QED
  BY <1>2 DEF AddressInv, Before, After

LEMMA AddressStart == Init => AddressInv
BY DEF Init, AddressInv, Before, After, NoAddress, Free

(* A step of Task() outside of the enumeration.                            *)
LEMMA TaskKeepsInv ==
  ASSUME AddressInv, Task
  PROVE  AddressInv'
<1>0. ASSUME NEW s, Switch(s)
      PROVE  pc \in {"main", "switch"} /\ NoAddress /\ bPollEnable = FALSE
             /\ task # "RUNNING"
  BY <1>0 DEF Switch, AddressInv, Before, After
<1>1. CASE IntProbe
  BY <1>1 DEF IntProbe, busprobe, midi, AddressInv, Before, After, NoAddress, HasAddress
<1>2. CASE IntClear
  BY <1>2 DEF IntClear, ClearCondet, midi, AddressInv, Before, After, NoAddress,
              HasAddress
<1>3. CASE Initialize
  <2>1. NoAddress' /\ bPollEnable' = FALSE
    BY <1>0, <1>3, ReleaseEmpties DEF Initialize
  <2>2. QED
    BY <1>3, <2>1 DEF Initialize, AddressInv, Before, After
<1>4. CASE Sit
  <2>1. PICK s \in {"WAIT_FOR_DEVICE", "ILLEGAL", "ERROR"} : Switch(s) /\ task' = s
    BY <1>4 DEF Sit
  <2>2. QED
    BY <1>0, <1>4, <2>1 DEF Sit, midi, AddressInv, Before, After, NoAddress
<1>5. CASE Settle
  BY <1>0, <1>5 DEF Settle, midi, AddressInv, Before, After, NoAddress
<1>6. CASE ResetDevice
  BY <1>0, <1>6 DEF ResetDevice, midi, AddressInv, Before, After, NoAddress
<1>7. CASE WaitResetComplete
  BY <1>0, <1>7 DEF WaitResetComplete, midi, AddressInv, Before, After, NoAddress
<1>8. CASE WaitSof
  BY <1>0, <1>8 DEF WaitSof, midi, AddressInv, Before, After, NoAddress
<1>9. CASE WaitReset
  BY <1>0, <1>9 DEF WaitReset, midi, AddressInv, Before, After, NoAddress
<1>10. QED
  BY <1>1, <1>2, <1>3, <1>4, <1>5, <1>6, <1>7, <1>8, <1>9 DEF Task

(* A control request of the enumeration, answered or not.                  *)
LEMMA EnumerateKeepsInv ==
  ASSUME AddressInv, Enumerate
  PROVE  AddressInv'
<1>1. CASE GetDescriptor
  BY <1>1 DEF GetDescriptor, midi, AddressInv, Before, After, NoAddress
<1>2. CASE GetPacketSize
  <2>1. PICK rcode : IF rcode = "OK"
                     THEN /\ bAddress' = AllocAddress(pool) /\ pool' = AfterAlloc(pool)
                          /\ pc' = IF bAddress' = Free THEN "limbo" ELSE "address"
                          /\ UNCHANGED <<bPollEnable, retries, vidpid, config, p,
                                         chunk, pos>>
                     ELSE InitFails(rcode)
    BY <1>2 DEF GetPacketSize
  <2>2. pc = "first" /\ task' = task
    BY <1>2 DEF GetPacketSize
  <2>3. CASE rcode = "OK"
    BY <2>1, <2>2, <2>3, AllocFromEmpty
    DEF AddressInv, Before, After, NoAddress, HasAddress, Free, RootAddress
  <2>4. CASE rcode # "OK"
    BY <2>1, <2>2, <2>4, FailureKeepsInv
  <2>5. QED
    BY <2>3, <2>4
<1>3. CASE SetAddr
  <2>1. PICK rcode : IF rcode = "OK" THEN pc' = "second" /\ UNCHANGED midi
                     ELSE InitFails(rcode)
    BY <1>3 DEF SetAddr
  <2>2. pc = "address" /\ task' = task
    BY <1>3 DEF SetAddr
  <2>3. CASE rcode = "OK"
    BY <2>1, <2>2, <2>3 DEF midi, AddressInv, Before, After, HasAddress
  <2>4. QED
    BY <2>1, <2>2, <2>3, FailureKeepsInv
<1>4. CASE GetVidPid
  <2>1. PICK rcode : IF rcode = "OK" THEN pc' = "header" /\ UNCHANGED midi
                     ELSE InitFails(rcode)
    BY <1>4 DEF GetVidPid
  <2>2. pc = "second" /\ task' = task
    BY <1>4 DEF GetVidPid
  <2>3. CASE rcode = "OK"
    BY <2>1, <2>2, <2>3 DEF midi, AddressInv, Before, After, HasAddress
  <2>4. QED
    BY <2>1, <2>2, <2>3, FailureKeepsInv
<1>5. CASE GetHeader
  <2>1. PICK rcode : IF rcode = "OK" THEN pc' = "data" /\ UNCHANGED midi
                     ELSE InitFails(rcode)
    BY <1>5 DEF GetHeader
  <2>2. pc = "header" /\ task' = task
    BY <1>5 DEF GetHeader
  <2>3. CASE rcode = "OK"
    BY <2>1, <2>2, <2>3 DEF midi, AddressInv, Before, After, HasAddress
  <2>4. QED
    BY <2>1, <2>2, <2>3, FailureKeepsInv
<1>6. CASE GetChunk
  <2>1. PICK rcode : IF rcode = "OK" THEN pc' = "parse" /\ UNCHANGED midi
                     ELSE InitFails(rcode)
    BY <1>6 DEF GetChunk
  <2>2. pc = "data" /\ task' = task
    BY <1>6 DEF GetChunk
  <2>3. CASE rcode = "OK"
    BY <2>1, <2>2, <2>3 DEF midi, AddressInv, Before, After, HasAddress
  <2>4. QED
    BY <2>1, <2>2, <2>3, FailureKeepsInv
<1>7. CASE ParseStep
  <2>1. pc = "parse" /\ pc' \in {"parse", "status", "data"} /\ UNCHANGED <<task, midi>>
    BY <1>7 DEF ParseStep
  <2>2. QED
    BY <2>1 DEF midi, AddressInv, Before, After, HasAddress
<1>8. CASE NextConfig
  <2>1. \/ pc' \in {"setconf", "header"} /\ UNCHANGED midi
        \/ \E rcode : InitFails(rcode)
    BY <1>8 DEF NextConfig
  <2>2. pc = "status" /\ task' = task
    BY <1>8 DEF NextConfig
  <2>3. CASE pc' \in {"setconf", "header"} /\ UNCHANGED midi
    BY <2>2, <2>3 DEF midi, AddressInv, Before, After, HasAddress
  <2>4. QED
    BY <2>1, <2>2, <2>3, FailureKeepsInv
<1>9. CASE SetConf
  <2>1. PICK rcode : IF rcode = "OK"
                     THEN /\ bPollEnable' = TRUE /\ task' = "RUNNING" /\ pc' = "main"
                          /\ UNCHANGED <<bAddress, pool>>
                     ELSE InitFails(rcode) /\ task' = task
    BY <1>9 DEF SetConf
  <2>2. pc = "setconf"
    BY <1>9 DEF SetConf
  <2>3. CASE rcode = "OK"
    BY <2>1, <2>2, <2>3 DEF AddressInv, Before, After, HasAddress
  <2>4. QED
    BY <2>1, <2>2, <2>3, FailureKeepsInv
<1>10. CASE LeaveLimbo
  BY <1>10 DEF LeaveLimbo, midi, AddressInv, Before, After, NoAddress
<1>11. QED
  BY <1>1, <1>2, <1>3, <1>4, <1>5, <1>6, <1>7, <1>8, <1>9, <1>10 DEF Enumerate

(* What the device and the chip do is not seen by the driver.              *)
LEMMA OthersKeepInv ==
  ASSUME AddressInv, ResetDone \/ Frame \/ TimePasses \/ Environment \/ UNCHANGED vars
  PROVE  AddressInv'
<1>1. UNCHANGED <<task, pc, midi>>
  BY DEF ResetDone, Frame, TimePasses, Environment, Plug, Unplug, Glitch, vars
<1>2. QED
  BY <1>1 DEF midi, AddressInv, Before, After, NoAddress, HasAddress

LEMMA AddressStep == AddressInv /\ [Next]_vars => AddressInv'
<1> SUFFICES ASSUME AddressInv, [Next]_vars PROVE AddressInv'
  OBVIOUS
<1>1. CASE PowerUpProbe
  BY <1>1 DEF PowerUpProbe, busprobe, midi, AddressInv, Before, After, NoAddress
<1>2. CASE PowerUpClear
  BY <1>2 DEF PowerUpClear, ClearCondet, midi, AddressInv, Before, After, NoAddress
<1>3. QED
  BY <1>1, <1>2, TaskKeepsInv, EnumerateKeepsInv, OthersKeepInv DEF Next, Host

LEMMA AddressInvSuffices == AddressInv => OneAddress /\ HeldWhileRunning
<1> SUFFICES ASSUME AddressInv PROVE OneAddress /\ HeldWhileRunning
  OBVIOUS
<1>1. Cardinality({}) = 0 /\ Cardinality({1}) = 1
  BY FS_EmptySet, FS_Singleton
<1>2. NoAddress => Cardinality(Holding(pool, RootAddress)) = 0
  BY <1>1, HoldingEmpty DEF NoAddress
<1>3. HasAddress => Cardinality(Holding(pool, RootAddress)) = 1
  BY <1>1, HoldingOne DEF HasAddress
<1>4. NoAddress \/ HasAddress
  BY DEF AddressInv
<1>5. OneAddress
  BY <1>2, <1>3, <1>4 DEF OneAddress, AddressInv, NoAddress, HasAddress, Before, After,
                          Free, RootAddress
<1>6. HeldWhileRunning
  BY DEF HeldWhileRunning, AddressInv, NoAddress, HasAddress, Free, RootAddress
<1>7. QED
  BY <1>5, <1>6

(* Whatever request of an enumeration fails, however often it is retried   *)
(* and whenever the device is pulled out, the address is given back once,  *)
(* and the driver is polled only with a device that has one.               *)
THEOREM AddressGivenBack == Spec => [](OneAddress /\ HeldWhileRunning)
<1>1. Spec => []AddressInv
  BY AddressStart, AddressStep, PTL DEF Spec
<1>2. QED
  BY <1>1, AddressInvSuffices, PTL

(* Between calls of Task() the driver has its address, and polls, exactly  *)
(* while the host runs, through plugging, failures and retries.            *)
THEOREM AddressWhileRunning == Spec => []HeldWhileRunning
  BY AddressGivenBack, PTL

-----------------------------------------------------------------------------
(* No device is left half configured: one that has an address or a         *)
(* configuration is being enumerated or runs.                              *)

Attempting == {"first", "limbo"} \cup After

DeviceType ==
  dev = [kind |-> dev.kind, ready |-> dev.ready, addr |-> dev.addr, conf |-> dev.conf]

Fresh(d) == d.ready => d.addr = 0 /\ d.conf = 0

LimboInv ==
  /\ DeviceType
  /\ pc \in Attempting \cup {"describe"} => task = "CONFIGURING"
  /\ Fresh(dev) \/ pc \in Attempting \/ (pc = "main" /\ task = "RUNNING")

(* A bus reset takes address and configuration away.                       *)
LEMMA ResetIsFresh ==
  ASSUME DeviceType, dev' = AfterReset(dev)
  PROVE  DeviceType' /\ Fresh(dev)'
<1>1. CASE dev = NoDevice
  BY <1>1 DEF DeviceType, Fresh, AfterReset, NoDevice
<1>2. CASE dev # NoDevice
  <2>1. dev' = [dev EXCEPT !.ready = TRUE, !.addr = 0, !.conf = 0]
    BY <1>2 DEF AfterReset
  <2>2. dev' = [kind |-> dev.kind, ready |-> TRUE, addr |-> 0, conf |-> 0]
    BY <2>1 DEF DeviceType
  <2>3. QED
    BY <2>2 DEF DeviceType, Fresh
<1>3. QED
  BY <1>1, <1>2

LEMMA LimboStart == Init => LimboInv
BY DEF Init, LimboInv, DeviceType, Fresh, NoDevice, Attempting, After

LEMMA LimboTask ==
  ASSUME LimboInv, Task
  PROVE  LimboInv'
<1>1. UNCHANGED dev /\ pc \notin Attempting /\ ~(pc = "main" /\ task = "RUNNING")
  BY DEF Task, IntProbe, IntClear, ClearCondet, busprobe, bus, Switch, Initialize, Sit,
         Settle, ResetDevice, WaitResetComplete, WaitSof, WaitReset, Attempting, After
<1>2. pc' \in {"main", "int_clear", "switch"} \/ (pc' = "describe" /\ task' = "CONFIGURING")
  BY DEF Task, IntProbe, IntClear, ClearCondet, busprobe, Initialize, Sit,
         Settle, ResetDevice, WaitResetComplete, WaitSof, WaitReset
<1>3. QED
  BY <1>1, <1>2 DEF LimboInv, DeviceType, Fresh, Attempting, After

LEMMA LimboEnumerate ==
  ASSUME LimboInv, Enumerate
  PROVE  LimboInv'
<1>0. ASSUME NEW rcode, InitFails(rcode)
      PROVE  pc' \in Attempting
  BY <1>0 DEF InitFails, InitReturns, Attempting
<1>1. CASE GetDescriptor
  BY <1>1 DEF GetDescriptor, bus, LimboInv, DeviceType, Fresh, Attempting, After
<1>2. CASE LeaveLimbo
  BY <1>2, ResetIsFresh DEF LeaveLimbo, LimboInv, Attempting, After
<1>3. CASE GetPacketSize \/ GetVidPid \/ GetHeader \/ GetChunk \/ ParseStep \/ NextConfig
  <2>1. pc \in Attempting /\ pc' \in Attempting /\ UNCHANGED <<dev, task>>
    BY <1>0, <1>3 DEF GetPacketSize, GetVidPid, GetHeader, GetChunk, ParseStep,
                      NextConfig, bus, Attempting, After
  <2>2. QED
    BY <2>1 DEF LimboInv, DeviceType
<1>4. CASE SetAddr
  <2>1. /\ pc \in Attempting /\ pc' \in Attempting /\ UNCHANGED task
        /\ dev' = dev \/ dev' = [dev EXCEPT !.addr = bAddress]
    BY <1>0, <1>4 DEF SetAddr, Attempting, After
  <2>2. QED
    BY <2>1 DEF LimboInv, DeviceType
<1>5. CASE SetConf
  <2>1. /\ pc \in Attempting
        /\ \/ pc' \in Attempting /\ UNCHANGED task
           \/ pc' = "main" /\ task' = "RUNNING"
        /\ dev' = dev \/ dev' = [dev EXCEPT !.conf = p.confValue]
    BY <1>0, <1>5 DEF SetConf, Attempting, After
  <2>2. QED
    BY <2>1 DEF LimboInv, DeviceType, Attempting, After
<1>6. QED
  BY <1>1, <1>2, <1>3, <1>4, <1>5 DEF Enumerate

LEMMA LimboStep == LimboInv /\ [Next]_vars => LimboInv'
<1> SUFFICES ASSUME LimboInv, [Next]_vars PROVE LimboInv'
  OBVIOUS
<1>1. CASE PowerUpProbe \/ PowerUpClear
  BY <1>1 DEF PowerUpProbe, PowerUpClear, ClearCondet, busprobe, bus, LimboInv, DeviceType,
              Fresh, Attempting, After
<1>2. CASE ResetDone
  BY <1>2, ResetIsFresh DEF ResetDone, LimboInv
<1>3. CASE Environment
  <2>1. UNCHANGED <<task, pc>>
    BY <1>3 DEF Environment, Plug, Unplug, Glitch
  <2>2. dev' = dev \/ dev' = NoDevice \/ \E d \in Devices : dev' = Attached(d)
    BY <1>3 DEF Environment, Plug, Unplug, Glitch
  <2>3. QED
    BY <2>1, <2>2 DEF LimboInv, DeviceType, Fresh, NoDevice, Attached
<1>4. CASE Frame \/ TimePasses \/ UNCHANGED vars
  BY <1>4 DEF Frame, TimePasses, vars, bus, LimboInv, DeviceType, Fresh
<1>5. QED
  BY <1>1, <1>2, <1>3, <1>4, LimboTask, LimboEnumerate DEF Next, Host

(* Whatever fails, and whichever device is at the other end by then, what  *)
(* Task() leaves in the error state can be enumerated from address 0.      *)
THEOREM NothingInLimbo == Spec => []ErrorLeavesNoLimbo
<1>1. LimboInv => ErrorLeavesNoLimbo
  BY DEF LimboInv, Fresh, ErrorLeavesNoLimbo
<1>2. QED
  BY <1>1, LimboStart, LimboStep, PTL DEF Spec
=============================================================================
