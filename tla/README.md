# Verification of the USB-MIDI audio synthesizer

TLA+ models of the synthesizer of this repository, their TLC runs and their
TLAPS proofs. Paths below are relative to the repository (`src/`); `FW` stands
for `src/software/USB_MIDI_AUDIO_SYNTH`.

## The system

A MIDI controller is plugged into the USB host of an FPGA board. A soft
processor polls it and turns its events into writes to the registers of a
synthesizer engine; the engine mixes up to 128 voices into one sample, puts it
into a FIFO, and a serializer takes it from there to the audio codec. The
firmware sets the codec up over I2C and prints to a console over JTAG.

```
controller --USB--> MAX3421E --SPI--> firmware --Avalon--> engine --CLK|LRCLK--> I2S --> codec
                                      main.cpp             synth_ip   FIFO       I2S.sv   SGTL5000
                                      audio_synth.cpp      datapath
```

### Inventory

| Component | State it keeps | Operations | Interacts by | What makes it correct |
|---|---|---|---|---|
| Engine state machine, `synth_ip.sv` | `state`, `KEY`, play bits of each key, 16 control registers | one clock; bus write of a key or a register; velocity read | shared registers with the bus on the same clock; `FIFO_FULL` in, `LD_FIFO` out | each sample holds exactly the sounding keys, once; no strike or release is lost to a collision |
| Voice data path, `datapath.sv` | amplitude (21 bits), phase (24), velocity of each key, `TONE` | attack, decay, sustain, release; phase step; saturating mix | decoded registers, wavetables | envelopes are monotonic and end; a voice reads its own table entry |
| Wavetables, `*_table.sv` | one output register each | load | address from the visited key | used a clock after the address is stable |
| Sample FIFO, `FIFO.v` | words, two pointers, synchronizers | write on `CLK`, read on `LRCLK` | flags that lag | nothing lost, repeated or reordered |
| Serializer, `I2S.sv` | counters and clocks derived from each other | MCLK edge | FIFO read clock, codec pins | whole words, aligned, same on both channels, from any power-up state |
| Firmware loop, `FW/main.cpp`, `FW/include/audio_synth.cpp` | ten envelope globals, `ped_flip` | one event per poll | USB driver below, bus writes above | what the controller holds down sounds, what it lets go ends, the registers fit the knobs |
| Codec driver, `FW/include/sgtl5000.cpp`, on the I2C driver `altera_avalon_i2c.c` and the core `altera_avalon_i2c_*.v` | codec registers; attempts; CTRL.EN, command and receive FIFO, NACK and arbitration flags, the state machine | register write and read; transmit, receive, repeat; byte by byte work of the core | command FIFO, flags read some commands late | what is reported as written is in the codec; attempts do not mix; the script ends |
| USB host task, `FW/include/Usb.cpp` | task state, settle timer, retry count | `Task`, `Configuring`, `AttemptConfig`, `SetAddress` | bus state of the MAX3421E | attach leads to running or error, detach is noticed, a failure leaves no device half configured |
| USB transfers, `FW/include/Usb.cpp` | data toggles, NAK and retry counts | `ctrlReq`, `InTransfer`, `OutTransfer`, `dispatchPkt` | NAK, timeout, toggle errors | each packet delivered once or an error returned |
| Address pool, `FW/include/address.h` | device table | allocate, look up, free | MIDI `Init`/`Release` | no address leaks or is in use twice |
| MIDI class driver, `FW/include/usbh_midi.cpp` | endpoints, address, poll flag | `Init`, `Release`, `RecvData`, descriptor parser, SysEx | transfers | endpoints found however descriptors are cut; failure releases the address |
| MAX3421E driver, `FW/include/usbhost.cpp` | `vbusState`, connect interrupt | `Init`, `busprobe`, `IntHandler` | bus lines, `Task` | what the host believes of the bus follows the bus |
| Console driver, `altera_avalon_jtag_uart_*.c`, on the core `USB_MIDI_AUDIO_SYNTH_jtag_uart_0.v` | two rings, interrupt mask, alarm count; the core's FIFOs, pause and activity bits | write, read, interrupt, alarm; the host types, takes, pauses | indexes shared without a lock; interrupts raised at a level of the core's FIFOs | nothing lost or repeated, no wake-up lost, a print ends without a reader |

Hard behaviours: bus and engine writing the same registers on one clock; a
decision taken one clock and acted on in the next; a flag tested before and used
after; two clock domains in the FIFO and three in the serializer; six registers
of one setting written one at a time; fixed-width subtraction; integer division
that rounds to zero; lost USB events; a device pulled out between any two
requests of its enumeration; packets and acknowledgements lost on the wire;
descriptors cut anywhere; an interrupt routine that preempts the foreground
between any two accesses to what they share; commands that run ahead of the
refusals they meet. `PROJECT.json` lists each at its line.

## Modules

| Module | Models | Notes |
|---|---|---|
| `DataPath` | combinational logic of one voice | pure operators, wrapping at constant widths |
| `ToneMix` | the arithmetic of `datapath.sv` from a table's sample to `TONE` | one step = one visit to a key; what `DataPath` and `SynthIP` keep as operands |
| `SynthIP` | `synth_ip.sv` and the registers of `datapath.sv` | one step = one edge of `CLK`; one action per machine state (`Halted`, `Start`, `CheckKey`, `KeyOn`, `KeyOff`, `Write`), each with the bus operation of that clock as a parameter, and `Reset` |
| `AudioFifo` | the vendor's `dcfifo` as `FIFO.v` configures it (external) | each side sees the other's pointer late |
| `SampleQueue` | abstract: a bounded queue | what the buffer promises |
| `AudioPath` | engine and FIFO as `TOP.sv` wires them | refines `SampleQueue` |
| `I2S` | `I2S.sv` and the codec's receiver (external) | one step = one edge of `MCLK` |
| `CalcAdsr` | `calc_adsr()` and the knob conversions | floats as exact fractions with a rounding error chosen from `Slack` |
| `MidiFirmware` | `MIDI_poll`, `set_note`, `set_ctrl`, `calc_adsr` | a poll leaves its bus accesses in `todo`, which are then made one by one |
| `SynthSystem` | firmware and engine on the Avalon bus | adds the read's wait state; refines `SynthIP` |
| `EnvelopeControl` | firmware and the control registers alone | at the real constants |
| `AddressPool` | `AddressPoolImpl` of `address.h` for the root port | pure operators on the table |
| `MidiDescParser` | `MidiDescParser`, `EndpointXtract`, and the multi-byte reader and skipper under it | the parser is a record; one call consumes one byte |
| `UsbHost` | `USB::Task`, `Configuring`, `AttemptConfig`; `USBH_MIDI::Init`, `Release`; the connection detector | one step = up to and including one look at the bus or one control request; devices come and go between steps |
| `EventChannel` | abstract: packets read in order, each once | what polling an endpoint promises |
| `UsbTransfer` | `ctrlReq`, `InTransfer`, `dispatchPkt`, the raw `RecvData` | one step = one transaction on a wire that may lose, garble or refuse; refines `EventChannel` |
| `JtagUart` | the fast JTAG UART driver: `write`, `read`, interrupt routine, alarm; the interrupts and activity bit of its core; the host (external) | one step = one access to what is shared |
| `I2CMaster` | `sgtl5000.cpp`, the polled part of `altera_avalon_i2c.c`, the core's command state machine and FIFOs, the codec (external) | driver steps are register accesses, core steps are bytes |
| `MC...` | instances for TLC | |
| `SynthIP_proofs`, `AudioPath_proofs`, `UsbHost_proofs`, `UsbTransfer_proofs`, `JtagUart_proofs`, `I2CMaster_proofs` | theorems about the module of that name | |
| `SampleWords_proofs` | theorems about `ToneMix` and `I2S` | the arithmetic and the serial line of a sample |
| `SynthSystem_proofs` | theorems about `SynthSystem`, `MidiFirmware` and `EnvelopeControl` | |

How state corresponds to the code. A play register is the set of its bits that
are one: `Held` (bit 0), `Attack` (bit 1), `Sounding` (bit 2). `TONE`, a
saturating sum in the code, is the sequence of the contributions summed, each the
record of the key, table entry, amplitude and velocity that make the product; so
"which voices are in the sample, and as what" stays visible; what the sum of such
contributions comes to is the subject of `ToneMix`. `table_addr` is the
output register of all wavetables at once. Registers power up cleared; in
`SynthIP` the control registers start as `CtrlInit`, so that runs can start from a
setting, and `SynthSystem` starts them at zero and lets the firmware write them.
In `MidiFirmware` an event is a record by the kind of its status byte; a packet
is a sequence of events of which `MIDI_poll` reads the first, as the code reads
the first four bytes of its buffer. `keyDown`, `pedalDown` and `inverted` are the
controller's own state, specification variables: which of its keys are down, where its
pedal is, and whether it is wired to read low when it is down. A pedal is where its last
message put it, read by the inversion of that time (`PedalAfter`).

In `UsbHost` the place in `Task()` and in `Init()` is `pc`; `bAddress`,
`bPollEnable`, `vbus`, `task` are the code's variables of that name, `pool` its
address table, `ep` the two addresses in `epInfo` that are used later. The device
is what answers: its kind, whether it was reset, its address and configuration. A
request fails if the device is not the one that is asked, or at any time. In
`UsbTransfer` data are numbered packets and each toggle is a bit: the chip's
receive toggle, the MIDI endpoint's saved one, the device's two. In `JtagUart`
characters are numbered round, so that a lost, repeated or overwritten one shows,
and the two bits of `irq_enable` are a set; `ReadIrq` and `WriteIrq` are the core's
two interrupts, which it raises only near the ends of its FIFOs or after a pause of the
host. In `I2CMaster` a command is an entry of
the command FIFO with its restart and stop bits, `call` is the register access in
progress, and `intended`, `failed`, `unseen`, `answer` are specification variables:
what the program asked for and was told.

Operators marked "Mutant" are wrong versions of the operator after them. They
are used by no specification; `PROJECT.json` says which property fails when one
takes the place of the real one.

## Runs

Small instances; each completes within about two minutes.

| Run | Instance | Shows |
|---|---|---|
| `SynthIP_frames` | 2 keys, 4-bit amplitudes with several steps a stage and an attack that overshoots, key, pedal and bend writes and velocity reads on any clock, any full flag, resets at will | `MixedInOrder`, `MixedComplete` (each sample has exactly the sounding keys, and an absent key is at rest), `SampleIsOwn`, `DecisionHolds`, `SilencedWhenQuiet` (no cut-off), `NeverLouder` (no wrap), `AttackReachesPeak` |
| `AudioPath` | engine with 2 keys and FIFO of 2, a short envelope of all four stages, pedal at any clock, fairness | `NothingDropped`, `StallsBetweenSamples`, `StreamContiguous`, `PressHeard`, `ReleasedEnds`, and `QueueSpec`: refinement of the bounded queue |
| `I2S` | 8-bit samples, any power-up contents | `WholeSample`, `BothChannels`, `OfferedIsPlayed` |
| `SynthSystem` | 2 keys; notes, foreign channel and note, pedal and inversion, wheels; fairness | `KeyUpReleases`, `PedalFollows`, `ReleaseKeepsVelocity`, `NotesEnd`, and `EngineSpec`: the firmware only does what `SynthIP` allows a bus master |
| `EnvelopeControl` | real constants, knob turns in any order, rounding error -1..1 | `SettingsCurrent`, `SettingsFit` |
| `UsbHost` | four devices (MIDI keyboard, one with two configurations, one known by its vendor, a mouse), plugged and pulled at any step, requests that fail at will | `OneAddress`, `HeldWhileRunning`, `ErrorLeavesNoLimbo`, `RunningIsReady` (address, configuration and endpoint are the right ones), `AttachIsDecided`, `DetachIsCleared` |
| `UsbTransfer` | three events, a descriptor of five packets read two at a time, any fault on any packet | `DescriptorWhole`, `EventArrives`, and `ChannelSpec`: refinement of the channel |
| `JtagUart` | rings of 3, chip FIFOs of 2 in and 1 out, a host that types, takes, pauses or stops at will | `StreamsWhole`, `NoLostWakeup`, `WriteReturns` |
| `I2CMaster` | two writes, a read back and volume changes; any byte refused or lost, three attempts | `CodecKnown`, `NothingLeftOver`, `ScriptEnds` |

Runs that find a property violated, with the property taken from the
repository's own words:

| Run | Says | Code does |
|---|---|---|
| `SynthSystem_hardoff` | `0x8n == noteOff` (`FW/include/usbh_midi.cpp:36`) | note off with a velocity plays the note and leaves it held |
| `SynthSystem_knob` | "control over attack, decay, sustain, and release times" (`README.md:7`) | shortening the release during a fading note wraps its amplitude to the maximum |
| `ToneMix_wheel` | "Allows the mod wheel to be used to mix 2 wavetable outputs together" (`README.md:33`) | one sign bit is missing (`datapath.sv:81`): a negative sample with an odd weight is heard as a positive one. With seven copies of the bit instead of six the property holds |

Observations that have no run:

* A release of 10 s is accepted (`audio_synth.cpp:66` refuses only longer ones), but
  with the power-up amplitudes `PEAK_SUS / REL_LEN` (`:85`) is then 419430 / 441000,
  a step of zero: the released note never ends.
* `MIDI_poll` looks at the first event of a packet only (`main.cpp:70`). With
  `MaxEvents = 2` in `SynthSystem.cfg`, `KeyUpReleases` fails: a release that is
  second in its packet is lost and the note hangs.
* The I2C driver looks for lost arbitration only while it queues commands
  (`altera_avalon_i2c.c:399`), not after the wait at the end (`:681`). A write that
  loses the bus in a byte already queued is reported as done and not repeated,
  although `altera_avalon_i2c.h:652` says it is. It takes a second master, or on this
  board a disturbed data line. `CodecKnown` exempts these registers by `unseen`;
  without the exemption it fails.
* A decay time of zero is one step long; after an attack that overshoots
  (`datapath.sv:120`, "Could overshoot") a second step is taken and wraps: it is what
  the premise `Gentle` of `NeverLouder` excludes.
* The attack peak is not limited to double the sustain level (`README.md:65`): the
  power-up values give 1.9 over 0.8.
* The retry after `hrJERR` runs `Init()` again without a bus reset (`Usb.cpp:616`,
  `624`): a device that had taken its address no longer answers at address 0, and the
  retry can only succeed for one that had not. The attach ends in the error state.
* `Task()` is not called once the device runs (`main.cpp:184`), so a disconnect is
  never noticed.
* The bus is probed and the connect interrupt cleared after that (`usbhost.cpp:183`,
  `293`): a change between the two is not seen. `vbus` in the properties is
  therefore what the host has seen, not the line.
* The core raises its read interrupt when the host pauses or few places are left, and a
  read takes the pause back (`USB_MIDI_AUDIO_SYNTH_jtag_uart_0.v:437-449`). When the
  driver stops reading at a full ring, what is left in the core waits for the host's next
  pause, also after `read()` has made room and turned the interrupt on again.
* A host that pauses counts as active (`:439`) whether or not it takes what is printed.
  One that pauses and never takes would hold a blocking write for ever; `WriteReturns`
  has it as a premise that an active host takes everything now and then.
* `altera_avalon_jtag_uart_write()` leaves its wait when the host was inactive for a
  moment and characters are lost to a host that is connected but slow
  (`altera_avalon_jtag_uart_write.c:187`); and `host_inactive` is not volatile, so that an optimised build
  would spin on it (both makefiles build at `-O0`).
* `I2Cbytes_wr()` writes word `i` to bytes `i+2` and `i+3` and so overlaps its words
  (`sgtl5000.cpp:26`); nothing calls it.

### Bounds, and why they are enough

* Two keys: a first and a last key, a middle of the scan for a stall to fall into, a
  neighbour for every mix-up of index, velocity read port or table register.
* Widths: amplitudes and phases are small enough that every adder wraps. The envelope with
  several steps a stage is that of `SynthIP_frames` (peak 8 in steps of 3, decay of 2 to
  sustain from 4 in steps of 1, release of 2, all modulo 16); `AudioPath` has two strikes
  to a peak of 2, one step of decay, a level sustain and one step of release, modulo 3, so
  that two keys, the FIFO and fairness fit. `PedalOn` scales the pedal's threshold with the width of a register.
* The envelope registers stay as they are in `SynthIP_frames` and `AudioPath`; in
  `SynthIP_frames` the pedal and the bend are written on any clock. `SynthSystem_knob`
  writes the envelope while notes sound. The theorems about the engine are for any
  control writes, but for the two that say otherwise.
* `AudioPath` has one phase unit per table entry; larger tables, more keys and deeper
  FIFOs are in the proofs of `NothingDropped`, `StallsBetweenSamples`,
  `StreamContiguous` and `QueueSpec`.
* `ToneMix_wheel`: 3-bit samples, 2-bit wheel and gain, so that `TONE` has 5 bits and
  five loud voices of either sign pass its limits. `SumLimited` is proved for all widths
  and therefore has no run of its own.
* `Depth = 2` of `AudioPath`: full, empty and in between, with up to `Depth` words the other
  side has not heard of.
* `I2S.Width = 8` keeps the ratios of the clocks (4 MCLK per SCLK, 2 * Width SCLK
  per LRCLK). `SyncCap = 4` slots: three may still hold power-up contents.
* `MaxEvents = 1` in passing runs: the firmware's assumption that a packet carries
  one event. It is an assumption on the controller; see the observations for
  what happens without it. Likewise note-offs carry velocity 0 in passing runs.
* Knob positions: 0, 1, middle and 127, which give refused, zero-length and longest settings.
* `UsbHost`: `MaxRetries = 3` is the code's. `Entries = 2` leaves an entry beside the
  one in use. Descriptors are shortened to the bytes the parser looks at and packets
  are of 2 or 5 bytes, so that every field and descriptor is cut everywhere in some
  run; real packets have 64. The four devices have endpoints that must be skipped,
  a second configuration, the vendor's exception, and none at all.
* `UsbTransfer`: `RetryLimit = 3` is the code's; `ControlNaks = 3` stands for 32767.
  Three events wrap the toggle; five packets in twos make three chunks, the last
  short.
* `JtagUart`: rings of 3 for 2048, so that there is a run up to the end and one from the
  start. The chip's FIFO in holds 2 for 64 and interrupts when it is full or the host
  paused (`RxNear = 0` for 8): it may hold a character without an interrupt. Its FIFO out
  holds 1 for 64, less than the ring, as on the board, so that the routine leaves with the
  ring not empty; between its interrupt's level and full there is nothing here. Requests of up
  to two characters; `MaxTyped = 3` fills the ring and leaves one in the chip. `Timeout = 1`
  alarm for 10: the host is gone at its first idle second, so a write that is woken between
  that and the timeout is not in the run. The alarm count stops at `Timeout`, as nothing
  tells larger ones apart. `NoLostWakeup` and `StreamsWhole` are proved for all these sizes.
* `I2CMaster`: `Depth = 4` is the core's. Three attempts for 10000. Two writes and a
  read stand for the ten writes and twelve reads of the start, which differ only in
  their bytes. The driver's waits are much longer than a transaction and the codec
  never holds the clock, so a wait times out only where it would never end.

### Fairness

`AudioPath`: `CLK` and `LRCLK` run for ever and the synchronizers deliver (weak
fairness of each). `I2S`: `MCLK` runs. `SynthSystem`: the clock runs, the FIFO is
not full for ever (which `AudioPath` justifies: its reader always drains it),
and the processor gets to its next access; nothing is assumed of the
controller or of how often the firmware polls. The premise of `NotesEnd` is the
controller's: its key and its pedal stay up. It may go on sending anything else, and the
firmware may be busy for ever.

`UsbHost`: the processor keeps calling `Task()`, a bus reset ends, frames follow it,
and time passes; plugs are moved, and requests fail, as often as they like.
`CHECK_DEADLOCK FALSE` because `main()` calls `Task()` no more once the device runs.
`UsbTransfer`: the chip completes each transaction, the main loop polls for ever, and
of the transactions that find data not all are spoilt (strong fairness): a toggle
error is repeated without a limit, so nothing weaker gets past one. `JtagUart`: the
foreground, the interrupt routine and the alarm run; the host owes nothing, but see the
premise of `WriteReturns` in the observations.
`I2CMaster`: the program, the driver and the core run; the codec may refuse for ever.

## Proofs

All theorems are for every value of the constants that the assumptions of the
modules allow: every number of keys, width, depth, table and script. Each
argument is an inductive invariant, named in parentheses below, that is stronger
than what it is for; those of the engine's stream, the serial line and the codec's
registers were model-checked before they were proved.

### The engine (`SynthIP_proofs`)

* `TypeCorrect`: `Spec => []TypeOK`. `TypeOK` is inductive. The lemmas about
  `%` and the adders give the ranges, one lemma per sub-operator.
* `ScanCorrect` (`ScanInv`): `Spec => [](MixedInOrder /\ MixedComplete /\ SampleIsOwn /\
  DecisionHolds)`; `OrderedMix`, `OwnSample` and `DecisionKept` name three of them by
  themselves. The four are inductive together with `TypeOK`: `MixedComplete`
  after a visit needs `SampleIsOwn`'s and `DecisionHolds`' view of the clock
  before it. `AvlPlayKeeps` (a bus write never adds or removes the `Sounding` bit)
  is why a write on any clock leaves the mix correct.
* `QuietDecay` (`EnvelopeInv`): with the envelope registers at rest and a setting with
  `Gentle(CtrlInit)`, `Spec => NeverLouder`. The invariant says
  that a voice past its attack is either being silenced or at least one release
  step loud, so that each subtraction fits. `Gentle` is a real premise:
  `SynthSystem_knob` breaks it, and a voice gets louder.
* `NoCutOff` (`QuietInv`): with the envelope registers at rest, `Spec => []SilencedWhenQuiet`,
  gentle setting or not. Every idle key is below one release step, so
  what `check_key` finds idle still is when `key_off` clears it.
* `AttackIsHeard`: `Spec => AttackReachesPeak`. `TypeOK` is enough: the bus never takes
  the attack bit (`AvlPlayKeeps`), and a visit takes it only with `ATT_OFF`.

### From the engine to the codec (`AudioPath_proofs`, `SampleWords_proofs`)

* `NoSampleLost` (`RoomInv`): `PathSpec => [](FifoTypeOK /\ NothingDropped /\
  StallsBetweenSamples)`, with `FifoViews` and `WholeBeforeStall` for the parts.
  Except at key 0 in state `start` with
  nothing mixed, the write side has room. Reads only make room, and the engine is
  the only writer.
* `PathIsQueue`: `PathSpec => QueueSpec`. A write clock maps to `Put` or a
  stutter, a read clock to `Take` or a stutter, a synchronizer step to a stutter;
  `Put`'s guard is `NothingDropped`.
* `StreamUnbroken` (`StreamInv`): `PathSpec => []StreamContiguous` while the bend is off.
  The phase register of a key is one step past its last contribution, and that is in
  the sample under way if the key has been visited for it and in the last finished
  one if not. This needs `ScanInv` (one visit a sample, at the key's own phase)
  and `RoomInv` (what is finished is queued). With the bend on steps differ with the
  register, and the property does not apply. A step is of the phase, which the 12 bits
  below the table's address hide, hence `OneStepOn`.
* `NeverWraps`: `Spec => []SumLimited` of `ToneMix`, for registers of all widths that
  fit one another (`Widths`): `TONE` is the sum of what was heard of the voices, limited
  at both ends. The argument is that no product leaves its register: `GainFits` and
  `ProductFits` bound them, `ModIs` gives a remainder from any quotient, so that a
  product modulo the width is the word of the signed product, and `TONE_INCLimited` is
  the adder with its two corrections.
* `SlotsWhole`, `ChannelsAlike` (`LineInv`): `I2SSpec => []WholeSample` and
  `I2SSpec => BothChannels`, for samples of any width of at least two bits. The counter is
  a place `(h, n, t)`: half, bit, quarter; `At` says what the divider's registers are
  there. `InStep` then says how far power-up contents are flushed out by the number of
  `LRCLK` changes the codec has seen: after one it knows `LRCLK`, after two the
  transmitter's `FLAG` does, the third aligns the bit counter, the fourth ends the first
  whole slot. This is the reason for `SyncCap = 4`, and the proof has one lemma per kind
  of edge.

### Firmware and engine (`SynthSystem_proofs`)

* `SystemIsEngine` (`SysInv`): `SysSpec => EngineSpec`. What the firmware and the bus make
  of any event is an operation `SynthIP` specifies: `SysInv` adds to the types which
  sequences `todo` can hold (`Shape`) and that each access is one of `BusOps` when its turn
  comes, the data of a read included. So `SystemSounds` and `SystemAttacks`: the theorems
  about the engine hold in the system.
* `FirmwareTypes`: `SysSpec => []FwTypeOK`, from `SysInv`: no poll leaves more than six
  accesses and none wider than a register.
* `ReleasesAreQuiet`: `SysSpec => ReleaseKeepsVelocity`. `AVL_READVEL` is loaded on the
  first clock of a read and taken on the second; nothing else can get between them.
* `NoteOffArrives` (`ReleaseUnderWay`): `SysSpec => []KeyUpReleases`, for a controller with
  `OneEventPackets` and `SoftReleases`. A key held in the engine and not on the controller
  has its release under way, and only a key that is down is about to be struck.
  Both premises are needed: without the second `SynthSystem_hardoff` is the
  counterexample, for the first see the observations.
* `PedalArrives` (`PedalUnderWay`): `SysSpec => []PedalFollows`, for a controller with
  `OneEventPackets` and a pedal register that starts released. Between events the pedal of
  the engine is the controller's and `ped_flip` is its wiring; after a pedal event the write
  that makes it so is under way, and no other access is to that register. `SynthSystem`
  assumes what makes the complement work: the engine looks at the low bits of the register
  only, and a pedal parameter has no others.
* `EnvelopeIsCurrent`, `EnvelopeFits` (`EnvelopeOK`): `CtlSpec => []SettingsCurrent` and
  `CtlSpec => []SettingsFit`, for every scale of the knobs, sample rate and rounding
  error. While a setting is written, what is in the registers and what is
  in `todo` together are it (`UnderWay`); before and after, the registers are (`Settled`).
  `Fits` of a setting is arithmetic on `Accepted` lengths: a longer length has no
  larger step.
* `EngineEnvelope`: the same of the engine's registers in `SysSpec`, with notes, wheels and
  the scan between the writes.

These use four assumptions that say what the code guarantees. `BusAssumption`: software
and engine mean the same registers, keys and pedal threshold. `MasterAssumption`: the
bus writes `SynthIP` is instantiated with include the ones this firmware makes.
`EventAssumption`: events are what a status byte, a control number and two 7-bit
parameters can say. `RegisterAssumption`: the largest amplitudes, cap and rounding
included, fit a register. TLC evaluates them in the runs of these modules.

### USB (`UsbHost_proofs`, `UsbTransfer_proofs`)

* `AddressGivenBack` (`AddressInv`): `Spec => [](OneAddress /\ HeldWhileRunning)` of
  `UsbHost`, for every pool size, set of devices and descriptors, packet size and retry
  limit; `AddressWhileRunning` is its second half. The invariant adds at which places of
  `Init()` the driver holds the address, and what
  `AllocAddress` and `FreeAddress` do to the set of entries that hold one.
* `NothingInLimbo` (`LimboInv`): `Spec => []ErrorLeavesNoLimbo`. A device with
  an address or a configuration is being enumerated or runs; the hard case is another
  device plugged in between two requests.
* `EventsInOrder` (`ToggleInv`): `Spec => ChannelSpec` of `UsbTransfer`.
  Between polls the host's toggle is the device's (`InStep`) or, when an
  acknowledgement was lost, one packet behind it (`Behind`), in which case what
  arrives is a repeat and does not count. A packet taken maps to `Receive`, all else
  to a stutter.
* `DescriptorRead` (`WholeInv`, `DataInv`): `Spec => []DescriptorWhole`. The same argument
  on endpoint 0, with how parsed packets and the current chunk make up what was taken,
  and the toggle within the data stage.

### Console and codec registers (`JtagUart_proofs`, `I2CMaster_proofs`)

* `WakeupsKept` (`WakeupInv`): `Spec => []NoLostWakeup` of `JtagUart`, for every ring and
  FIFO size and interrupt level. The invariant adds the ranges of the indexes and that the read interrupt is
  only turned off with a full ring; the proof then has one step per access of the
  foreground and of the interrupt routine.
* `CharactersKept` (`StreamInv`): `Spec => []StreamsWhole` of `JtagUart`, for rings, FIFOs
  and requests of any size. It follows the characters from one end to the other: chip, ring
  and the foreground's counter each continue the numbers of the one before (`TxInOrder`,
  `RxInOrder`), what was copied but not published is right (`Copied`), and an index
  read before an interrupt errs on the safe side (`StaleIsSafe`). That last part is
  why `write` may work on an old `tx_out` and `read` on an old `rx_in`. The premise
  `Numbers > BUF_LEN + RxDepth`, and the same of `TxDepth`, only says that numbers in flight differ.
* `AttemptsApart` (`RestInv`): `Spec => []NothingLeftOver` of `I2CMaster`, for every script,
  FIFO depth and number of attempts. The invariant ties the commands the core has popped to
  its state (`Place`), each queued command to its place in the transaction (`Fits`) and the
  bytes read to the commands (`Came`): so a core that rests has sent the stop and
  nothing is queued behind it. After a refusal all of this is void and `Flushed` holds.
* `RegistersKnown` (`CodecInv`): `Spec => []CodecKnown`. On top of `RestInv`, the bytes
  on their way are those of the call in progress (`ByteOK`), the codec has got as many
  as the core has sent (`MessageOK`), and bytes read back are the register's
  (`BytesRead`). Registers of other calls are untouched (`OthersKnown`).

### Limits

The theorems rest on the assumptions the modules state by name, and on what the models
take the chips to do: the MAX3421E acknowledges a packet with the wrong toggle and flips
its own, as the comment at `Usb.cpp:242` has it.

Only model-checked: everything under fairness (`PressHeard`, `ReleasedEnds`,
`OfferedIsPlayed`, `NotesEnd`, `AttachIsDecided`, `DetachIsCleared`, `EventArrives`,
`WriteReturns`, `ScriptEnds`), which is outside the prover's reach, and `RunningIsReady`:
that the parser finds what the descriptors hold, however they are cut, is a statement
about a recursion over the bytes of any descriptor, which takes an induction
the prover has no means for.

## Not modelled

* The contents of the wavetables and the frequency table.
* `OutTransfer`, `SendData`, SysEx extraction and the cable look-up, which the
  firmware does not call; the missing-data error `0xf0`.
* Hubs, `DefaultAddressing` and `ReleaseDevice`: no hub driver is linked in. The USB
  classes vendored with the host library that `main.cpp` does not use.
* Register access to the MAX3421E over SPI, and its oscillator.
* The console's `open`, `ioctl` and `close`, its small variant, and the list of alarms.
* The I2C transactions with interrupts and 10-bit addresses, which are not used;
  bit timing of the shifters; the meaning of the codec's registers.
* The rest of the generated system (processor, interconnect, support package, FIFO
  internals); displays and LEDs; the test bench.

`ped_flip` is set by any non-zero value, although `README.md:71` says the switches
read the least significant bit; the two agree on the values 0x00 and 0x7F it
recommends.

## Plan

Done: engine, mix, FIFO and serializer; firmware and system composition; USB enumeration,
transfers and descriptor parser; console; codec access; a theorem for each safety property
the prover can reach. Left, in order of importance:

1. `AudioPath` with `I2S`: the codec plays the stream of the engine, and the theorems of
   the two composed.
2. `StreamUnbroken` with the bend on, where a step is that of the register at the visit.
3. `QuietDecay` in `SynthSystem`, for a controller that turns no knobs.
4. SysEx packing and `extractSysExData` as inverse operations, `OutTransfer`, should
   the firmware come to use them.
