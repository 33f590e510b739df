---------------------------- MODULE AddressPool ----------------------------
(***************************************************************************)
(* The table of device addresses, address.h, as the firmware uses it: no   *)
(* hub driver is linked in, so every caller passes parent 0 and not a hub, *)
(* and the only address handed out is RootAddress.  An entry of the pool   *)
(* is the address it holds, Free for none; the entry with index 0 stands   *)
(* for a device that has no address yet and is never given out.            *)
(***************************************************************************)
EXTENDS Naturals, FiniteSets, FiniteSetsExt

CONSTANT Entries            \* MAX_DEVICES_ALLOWED - 1

ASSUME EntriesAssumption == Entries \in Nat \ {0}

Free == 0
RootAddress == 1

Pools == [1 .. Entries -> {Free, RootAddress}]

EmptyPool == [i \in 1 .. Entries |-> Free]

Holding(pool, addr) == {i \in 1 .. Entries : pool[i] = addr}

\* The first entry that holds addr, 0 when none does.  Called with Free it
\* finds the first free entry.
FindAddressIndex(pool, addr) ==
  IF Holding(pool, addr) = {} THEN 0 ELSE Min(Holding(pool, addr))

\* AllocAddress(0, false, port): the address, Free when the pool is full.
AllocAddress(pool) ==
  IF FindAddressIndex(pool, Free) = 0 THEN Free ELSE RootAddress

AfterAlloc(pool) ==
  [i \in 1 .. Entries |->
     IF i = FindAddressIndex(pool, Free) THEN RootAddress ELSE pool[i]]

\* FreeAddress(addr): an address that nobody holds, or a full pool asked to
\* free Free, changes nothing.
AfterFree(pool, addr) ==
  [i \in 1 .. Entries |->
     IF i = FindAddressIndex(pool, addr) THEN Free ELSE pool[i]]

\* GetUsbDevicePtr(addr) finds an entry.
Known(pool, addr) == addr = Free \/ FindAddressIndex(pool, addr) # 0
=============================================================================
