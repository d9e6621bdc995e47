# Aerobench-SiTL: TLA+ models, checks and proofs

Aerobench-SiTL is a software-in-the-loop bench: flight-computer firmware (FreeRTOS
on an STM32, or QEMU) and a PC program that simulates its sensors and injects
faults. The two talk over a UART with a small framed protocol; a ground station
gives the simulator commands over TCP.

This directory models the parts of both programs that keep state, checks them
with TLC on small instances, and proves nearly all of their safety properties with
TLAPS for every value of their constants. `PROJECT.json` lists runs, mutants,
theorems, hazards, findings and the source lines each definition stands for.

## 1. Inventory

| Part | Source | State | Operations | Module |
|---|---|---|---|---|
| Black box recorder | `blackbox.c/.h` | ring of 512 records, `write_idx`, `read_idx`, `count`, `sequence`, `overflow`, a mutex | init, log, read, peek, count, rewind | `BlackBox`, `BlackBoxFifo` |
| Flight state machine | `flight_fsm.c/.h` | context: state, previous state, event, faults | `fsm_init`, `fsm_tick`, `fsm_command` | `FlightFsm` |
| FSM task | `task_fsm.c` | last frame; event group of fault flags | 20 ms loop | `Firmware` |
| Sensor task | `task_sensor.c` | parser context, `s_byte_ready`, `s_last_packet_ms` | interrupt callback, 10 ms loop | `SensorRx`, `Firmware` |
| Telemetry task | `task_telemetry.c` | none across periods | 100 ms loop, drains the black box | `Firmware`, `BlackBox` (partly) |
| Health task | `task_health.c` | `STACK_OVERFLOW` and `COMMS_TIMEOUT` flags, the times of its last report and log | 200 ms loop that feeds the watchdog, 1 s report, 5 s snapshot | `HealthWatchdog`, `Firmware` |
| Frame protocol, receiving | `protocol.c/.h` | `proto_rx_ctx_t` | `proto_rx_feed`, `proto_rx_reset` | `ProtocolRx` |
| Frame protocol, packing | `protocol.c` | none | pack, unpack, CRC | `Crc16`, `build_frame` in `ProtocolRx` (partly) |
| Start-up, error handling | `main.c` | the shared objects | peripherals, queue, mutexes, tasks; `Error_Handler` and the FreeRTOS hooks | `HealthWatchdog`, initial states of `Firmware` |
| Simulator loop, fault injector | `main_sim.c`, `fault_injector.c/.h` | 8 slots, sensor switches, output flags, clock | loop, inject, clear, clear all, tick, flags | `Simulator` |
| Frame serializer | `packet_serializer.c` | none | `pkt_build_sensor_frame`, `pkt_crc16` | `Simulator` (length test), `Crc16` |
| Command server | `tcpserver.c` | connection, static line buffer | accept, read, line loop, command parser | `TcpServer`; the fault commands' effect in `Simulator` |
| Sensor models | `sensor_*.c` | fault switches, latched values, floating-point walks | set motion, freeze, lose signal, sag, tick | `Simulator` (switches and latch) |
| UART bridge | `uart_bridge.c` | descriptor, counters | open, read, write | not modelled |

Interactions. The receive interrupt feeds bytes to the parser and raises
`s_byte_ready`; `task_sensor` polls it and posts frames to `g_sensor_queue`;
`task_fsm` takes one per period, compares it with the fault thresholds, writes the
event group and ticks the state machine under `g_state_mutex`; a transition is
logged while that mutex is held, so the black box mutex nests inside it.
`task_telemetry` reads frame and state through accessors that take the state
mutex, then the flags, which no mutex protects, then drains up to four records.
`task_health` writes the same flags and logs snapshots. In the simulator one
thread calls, in order, scenario, fault tick, sensor models, transmission, TCP.

What is hard here: four tasks and an interrupt over three synchronisation objects;
an event group that two tasks read and write without a lock; indices, counts and
flags that must agree across wraps (ring, 16-bit sequence, 32-bit clock); a
parser that must survive any byte string and find the next frame without a
timeout; a context that an interrupt refills while a task reads it; a watchdog that one
of four tasks feeds; a command stream that TCP cuts anywhere; a fault table whose slots
are reused while faults overlap.
The hazards are listed at their lines in `PROJECT.json`.

## 2. Modules

`BlackBox` — the ring, two logging tasks and the draining telemetry task.
`blackbox_log` is two steps, acquire and publish, because `blackbox_peek` takes no
lock and can look in between; the other operations are one step with the mutex
free. A record is its sequence number and its event. `ApiSpec` adds
`blackbox_rewind`, which the API offers and no task calls.

`BlackBoxFifo` — the recorder without a ring, a bounded queue that evicts its oldest
record. `FifoSpec` is what `blackbox.h` promises: a read fails only when nothing is
unread. `StallingSpec` also lets a full queue refuse a read; it, and not `FifoSpec`, is
what `blackbox.c` implements (section 6).

`FlightFsm` — the table, guards, `fsm_tick` and `fsm_command` under every sequence
of sensor frames and commands. A frame is reduced to what the code compares.
`bb_change` is the latest state-change record. `state_entry_ms` and
`transition_count` are never read and left out.

`Firmware` — the four tasks as program counters over the queue, both mutexes and
the event group; it INSTANCEs `FlightFsm` for what a tick does. A step ends where
another task could observe a difference. Frames are numbered so that age can be
spoken of. The count and the get of `handle_frame` are one step and the put another:
only `task_fsm` takes from the queue besides, so a get between them would empty it
either way. `task_telemetry` makes its three reads in three steps, two under the state mutex
and the flags under none; `report` keeps the numbers of the ticks behind the first two, and
the sensor faults among the flags. `task_health` reads the clock before it reads the time of the last
packet; a packet in between makes the unsigned difference wrap, so the comms check
may then come out either way (`comms_due = "either"`). The frame `task_sensor` finds
is arbitrary: the verified frame has been wiped by then (section 5, `srx_torn`) and
the interrupt may have begun to refill the context. `fsm_command` has no caller
in the repository; `ApiSpec` adds a ground station that calls it under the mutex.

`ProtocolRx` — `proto_rx_feed` one byte at a time with any byte width, start byte,
payload limit and checksum function. `RawSpec` feeds arbitrary bytes. `Spec` adds a sender that uses `build_frame` and a line that damages, loses or
inserts bytes.
`wire` and `last` record the bytes since the start byte and are read by no action
of the parser.

`Crc16` — the bit loop of `proto_crc16` (and of its twin `pkt_crc16`) for any byte and
register width, and what it is meant to be: the remainder of a division of polynomials
over GF(2), which are written as sets of exponents.

`SensorRx` — extends `ProtocolRx` by the interrupt callback, `s_byte_ready` and
`task_sensor`, which reads type, length and payload of the shared context in steps
between which the interrupt may run. `verified` records the payloads whose checksum
was right. The 10 ms period is left open: the task may look at any time.

`HealthWatchdog` — `task_health` on a clock that wraps, with the IWDG, the boot sequence
of `main`, `Error_Handler`, a `task_fsm` that may hang and the time stamp of the latest
packet. A unit of time passes only when the tasks that are due have had their turn,
at most `MaxLate` late; a hang or a halt lifts this. `heard`, `silence` and the `_for`
variables measure, without the stamp, whether a packet ever came, how long ago, and how long
the verdict on the line has been wrong; no action of the code reads them. `silence` and
`missed_for` stop at a lap of the clock.

`TcpServer` — accept, read, the line loop and the shift of the partial line, with ground
stations that connect, send, hang up in the middle of a line or reset the connection.
A word (with the space behind it) is one symbol of the stream and takes one place
in the buffer; reads return any number of symbols that fits. The parser's lookup at a
fixed offset behind the command is kept: on a line that ends there (`FAULT` alone) it
reads on in the next line, as far as that has arrived. Offsets inside a word are not
kept. `stream`, `executed` and `quit` are history.

`Simulator` — one iteration of the main loop, phase by phase, over the slot table;
`asked` is the specification's own record of which faults should be on and how
much time they have left, kept apart from slots and clock arithmetic. The sensor models
keep their fault switches, the motion the IMU follows or has latched, the GPS fix and
the voltage the battery is to sag to.

`MCBlackBox`, `MCFirmware`, `MCProtocolRx`, `MCSensorRx`, `MCTcpServer` — instances for TLC.
`BlackBoxProofs`, `FlightFsmProofs`, `FirmwareProofs`, `ProtocolRxProofs`, `SimulatorProofs`,
`HealthWatchdogProofs`, `TcpServerProofs` — theorems, each about the module it is named after.
`WrapArithmetic` — lemmas on unsigned arithmetic that wraps, for the ring and the clocks.

Definitions introduced as BUG in a comment are not part of a model: each is a
plausible mistake in the definition that follows it, and `PROJECT.json` pairs it with
a property that rejects it.

## 3. Runs

| Run | Specification, bounds | What it shows |
|---|---|---|
| `bb_ring` | `BlackBox!FairSpec`; 3 slots, sequence mod 8, 2 loggers, burst 2 | indices agree; unread records are consecutive; an unlocked peek at an unread record is whole unless the ring is full; the ring implements the `StallingSpec` of `BlackBoxFifo`; a full ring is drained again |
| `bb_api` | `BlackBox!ApiSpec`, same bounds, loggers symmetric | with rewinds, still no read hands out a blank slot |
| `fsm` | `FlightFsm!FairSpec`, no bound | only tabled transitions, no flight on a faulty frame, every fault explained by the black box, no takeoff without an arm command directly before, FAULT is left on sound frames |
| `fw_safe` | `Firmware!ApiSpec`, 3 kinds of frame, 2 arrivals | no backlog in the queue; the event group matches the protected frame outside the critical section; telemetry never pairs a frame with an older state, nor the latest frame with flags that lack one of its faults; the shared context behaves as `FlightFsm` |
| `fw_live` | `Firmware!FairSpec`, 1 kind, 2 arrivals | every task keeps returning to its period; every frame, or a newer one, is seen by a tick |
| `rx` | `ProtocolRx!FairSpec` with `Crc16`; bytes of 2 bits, checksum of 4, payload up to 2, 3 line errors | the parser stays in its buffers; the verdict is exactly "this is a frame"; a clean frame that meets an idle parser is accepted; the bit loop computes the CRC of every string the parser meets; a frame is never taken for one of the same length that differs in one byte; on traffic without inner start bytes the parser locks on again |
| `sim` | `Simulator!FairSpec`, 2 slots, clock mod 3, 3 fault types, durations 0 and 1, 2 sag voltages, 2 motions, lag up to 2, one command per phase | sampled faults and STATUS are exactly the faults that are on, the sag voltage is one still asked for; a frozen IMU repeats itself; a refusal means a full table; timed faults end |
| `tcp` | `TcpServer!Spec`, 2 clients, buffer of 4 symbols, 3 lines out of 7 | each line is executed once, in order, and means what it says; who goes leaves nothing to the next client; the server is never stuck |
| `health` | `HealthWatchdog!Spec`, clock mod 8, period 1, watchdog 3, comms timeout 2, report 2, log 4, late by up to 1 | no reset unless something hangs; the comms verdict is wrong, either way, for at most a period and twice the lateness, with the exceptions `AlarmPrompt` names (section 6); hangs that reach `task_health`, and halts, are reset |
| `fw_clear`, `srx_torn`, `sim_tx` | see section 5 | disagreements between code and its comments |

Bounds. Three slots are enough for empty, partly full, exactly full and overflowed
rings with the window in every rotation; eight sequence numbers do not divide by
three, so the two wraps fall in every relative position. `FlightFsm` is finite as
it stands. Two frames are enough for a frame to be replaced in the queue, and for
the three reads of telemetry to straddle a tick; the three kinds of frame are one
that lets the machine leave INIT, one that makes it fly and one that faults it. Bytes of
two bits make the start byte collide with types, lengths, payload and checksum bytes,
and a two-digit length reaches past the payload limit; the checksum keeps the proportion
of the real one, two bytes wide. Three errors are enough for a
loss, a corruption and an insertion in one frame. A clock of three ticks puts deadlines
on both sides of the wrap; commands of the TCP phase and of the next scenario phase
meet before a fault tick, so two of them fill both slots and a third is refused. A buffer
of four symbols is shorter than the longest line and holds two short ones; three lines
are enough for a batch around QUIT and for a second client. The periods of `health` keep
the order of the real ones (200, 1000, 1000, 1000, 5000 ms) as far as a small clock
allows, and the clock wraps between two logs.
`DurationsAssumption` (a duration plus one iteration is less than
a lap) is 49.7 days for the real clock.

Fairness. The tasks are periodic, so weak fairness on a period's start is what
`osDelayUntil` gives; a step that waits for a mutex gets strong fairness, because
FreeRTOS hands a mutex to the longest-waiting task of the highest priority and
every holder releases it after finitely many steps. Frames are never assumed
to arrive in `Firmware`; `StallIsTransient` needs records to keep coming, and the
health task's snapshot is logged every 5 s for ever. `rx` assumes that the simulator keeps sending and
the line keeps delivering. The simulator's loop is fair when nothing in it
blocks, that is on a serial device, which is opened non-blocking; on a pty, whose
master is not, `uart_read` waits for the firmware's next telemetry. Its commands are not
fair. `tcp` assumes that the loop keeps ticking the server and nothing of the clients.
`health` assumes that time passes and that what is due runs; packets, failures and hangs
may or may not come.

Deadlock is checked in every run but `tcp`, where all may be said and done.

## 4. Theorems

All are proved from the named assumptions on the constants, by induction on the
steps of the specification. In each module the inductive invariant is a conjunction
of named parts, every action has a lemma of its own, and the properties follow from
the invariant. What TLC can evaluate of the inductive invariants also holds on the instances of
section 3; no listed run repeats that, and for some it was checked only after the proof.

`BlackBoxProofs`. For every capacity, sequence width larger than the capacity, burst
and set of loggers: `TypeCorrect`, `IndicesAgree`, `NoGapNoRepeat`, `PeekIntact`, and
`RingRefinesStallingFifo`, and `OnlyFullRingRefuses`. The inductive invariant is the conjunction of the type invariant,
`IndexAgreement` and `UnreadConsecutive`; none of them is inductive alone, since eviction
keeps the window consistent only because `write_idx = read_idx` when the ring is
full, and the numbers stay consecutive only because the slot written is the one
after the window. The refinement maps the window, in order, to the
queue of `BlackBoxFifo`: publishing is `FifoLog`, a read is `FifoRead`, `FifoReadNothing` or
`FifoStall`, everything else stutters. `OnlyFullRingRefuses` says which of these it is: always
the stall when `Capacity` records are unread and `overflow` is down, never otherwise; so it
pins down where the code departs from its header. `BlankIsNeverRead` is about `ApiSpec`: a
rewind breaks `IndexAgreement`, so it has an invariant of its own (`ApiInv`): either no slot
is blank any more, or the ring has not been full yet, the slots below `write_idx` are
written, and neither `read_idx` nor `count` is ahead of it.

`FlightFsmProofs`. `FlightIsSound`, `FaultIsExplained`, `TransitionsAreLegal`,
`TakeoffIsCommanded`. The invariant adds to the properties that `fault_flags` are the
faults of the last frame, and that an ARMED machine got there from PREFLIGHT by the
arm command; the action properties follow from it.

`FirmwareProofs`. For every set of frames, any number of arrivals and every schedule of
the tasks, over `ApiSpec`: `FirmwareTypeOK`, `QueueIsFresh`, `FlagsAreExact`,
`TelemetryIsCoherent`, `TasksRefineFsm`. The invariant `FwInv` says where each task can be
and when it holds the state mutex (`ControlInv`), that a frame being handled has emptied
the queue first (`QueueInv`), that frames reach `s_last_sensors` in the order of their
arrival and telemetry's frame is not newer than the latest tick (`AgeInv`), what the
sensor faults of the event group are between any two of `task_fsm`'s calls
(`FlagsInv`), and what telemetry has read so far (`ReportInv`). For the flags telemetry
reads without a lock `FlagsShowFaults` is needed: between the calls of `task_fsm` the
event group may be ahead of the latest tick, but never lacks a fault of it. The refinement maps `fsm_run` to a tick, a command to a command, and
everything else to a stutter. Through it the theorems of `FlightFsmProofs` hold of the four
tasks together: `FirmwareTransitionsAreLegal`, `FirmwareTakeoffIsCommanded`, and
`FirmwareFlightIsSound`, which joins `InFlightSound` with `FlagsInv`.

`ProtocolRxProofs`. For every byte width, start byte, payload limit and checksum:
`RxTypeCorrect`, `RxBufferSafe`, `RxVerdictExact`, over `RawSpec`, that is under every byte
string. Three invariants are used in turn: `RxInv` (type, buffer bounds, what each
parser state implies of the index and length), `WireInv` (the context is a
decoding of the bytes since the start byte), `ExactInv` (the last verdict agrees
with the definition of a frame). `RxCleanFrameAccepted` is about `Spec`, the parser on a
line with errors. `BuildsFrames` shows that what `build_frame` makes is a frame; `LineInv`
says that, while a frame is undisturbed, what the parser has seen since the start byte
and what is left on the line make it up; so each field ends where the sender ended it,
the parser is never back at WAIT_SOF early, and the last byte gets the verdict of
`RxVerdictExact`. `TrafficAssumption` (payloads fit the receiver, checksums two bytes) is
what the fixed packet sizes and the `uint16_t` of `proto_crc16` give. `RxLineVerdict` carries the
results on any byte string over to that line. `RxLockIsBounded` is the part of `Resync` that needs
no fairness: a false start or a damaged length holds the parser for no more bytes than the
longest frame has.

`RxDamageDetected` has a hypothesis, `ByteSerial`: the checksum of a string with one more byte
is a step from the checksum of the string, and the step is injective in the register and in
the byte. Then two strings that differ in one byte have different checksums: they do up to
that byte, and no later byte brings the registers together (`SerialDetects`, by a least
counterexample). `FramesApart` goes through the places of a frame: the start byte is fixed, a
byte the checksum covers changes it, and the checksum's own two bytes are determined by
its value. `MCProtocolRx` assumes `ByteSerial` of `proto_crc16` and its step `Absorb`, so TLC
evaluates it in `rx`, for bytes of two bits. For the real widths it is not checked: it
holds because the generator is odd (`CrcAssumption`), so a shift of the register can be undone.

`SimulatorProofs`. For every number of slots, clock width, set of durations and number of
commands: `SimulatorTypeOK`, `FaultsAreExact`, `StatusIsTruthful`, `RefusalIsJustified`,
`FreezeIsHeld`. The heart of `SimInv` is `SlotInv`: `asked`, which counts time down and knows
neither slots nor clock, is the image of the active slots whose age, an unsigned
difference, is below their duration. It holds across the wrap because no age passes a
lap between two ticks (`DurationsAssumption`, and `ClockAssumption`: an iteration takes at
most a lap).

`HealthWatchdogProofs`. For every clock, period, timeout and lateness that fit each other
(`DogAssumption`: the watchdog waits longer than a period and the lateness;
`ClockAssumption`: the intervals fit the clock, `CommsTimeout` with a period and twice the
lateness and one unit to spare): `HealthySystemIsNotReset` and
`VerdictIsPrompt`. In a sound system the watchdog's count is the age of `last_wake`, and at most
what `task_health` may be late (`DogInv`); the measured silence is the age of the stamp, up to
a lap (`SilenceInv`). A false alarm is no older than the clock reading it was based on
(`VerdictInv`), since a fresh verdict is none unless a packet overtook it. A verdict that all
is well was right at that reading, unless the stamp is 0, so the stamp seems no older now than
`CommsTimeout` and the age of the reading (`QuietInv`). This is what the argument about
missed silences rests on: shortly before a lap is complete the alarm is up, so what is missed
began to be missed either in the first lap, when the silence became too long, or after
the stamp began to look fresh again (`MissedInv`). TLC finds `AlarmPrompt` violated in the
instance of `health` when one of its two bounds on a missed silence is lowered by one, and when
the exception for the stamp 0 is dropped.

`TcpServerProofs`. For every number of clients, size of the buffer and set of lines:
`TcpTypeCorrect` (no overflow of `rx_buf`), `TcpOwnBytesOnly`, `TcpKeepsTheRest` (the buffer is
the tail of what was read, and what has left it ends with a newline) and `TcpReassembly`. `BufInv`
types the buffer by the owners its bytes may have,
the present client and those that quit; a read adds the client's own, QUIT moves
the client to those that quit, every other end of a connection empties the buffer.
`Reassembly` asks for an order-preserving map from the executed commands onto the command
lines of what has left the buffer, a line being a pair of positions. A turn of the line loop
adds one line behind the old ones, which stay what they were (`LinesOfMore`, `MoreCommands`), so the
map is kept or grows by one (`OrderKeeps`, `OrderGrows`). `LinesInv` adds that no complete line is
in the buffer outside the loop (`LineDone`), so that a new client never answers for an old line,
and that complete lines are the client's or a quitter's (`NewlinesOwn`). That a whole line means
the same whatever follows it is `WholeMeans`.

Only model-checked: every liveness property (`StallIsTransient`, `FaultIsLeft`,
`TasksKeepRunning`, `NewestFrameSeen`, `Resync`, `TimedFaultsEnd`, `InputConsumed`, `HangIsReset`,
`HaltIsReset`), which is outside what the prover handles; and `CrcIsRemainder`, since what the
loop over the bytes of a message computes would need an induction over data and a theory of
bitwise operations. Every other property of the passing runs is a theorem.

## 5. Disagreements shown by a run

* `fw_clear` — `task_fsm` clears every bit of the event group outside its own three
  faults, so `STACK_OVERFLOW` and `COMMS_TIMEOUT` go down within 20 ms although their
  cause lasts; the comment at `task_fsm.c:110` says "Clear faults that are no longer active".
* `srx_torn` — `proto_rx_feed` wipes the context before it returns true (`protocol.h:160` says
  the frame is then "ready in ctx->frame"), and the interrupt goes on feeding it. When
  `task_sensor` looks, it handles whatever part of the next frame is there: with its type
  and length already received, zeros and all reach the sensor queue as a frame, although
  `task_sensor.c:59` says "Handle a fully received, CRC-validated frame".
* `sim_tx` — the serializer writes 72 bytes, expects 73, and returns 0: no frame is
  ever sent.

## 6. Disagreements met on the way, without a run

* A ring that is exactly full reads as empty until the next log (`blackbox.c:65`), although
  `blackbox.h:82` says "Read the oldest unread record into *out. Returns true if a record was
  available." The ring does not implement `FifoSpec`; `OnlyFullRingRefuses` proves that every such
  read is refused and no other, for every capacity, and `StallIsTransient` that it passes.
* `task_sensor.c:74` says "drop oldest if full" of a queue of four frames (`main.c:148`); the
  code drops whenever one is queued. `QueueHoldsNewest` is about the code: by `QueueIsFresh` the
  queue is never full, so every drop there is contradicts the comment. Three of the
  four places are never used, and of two frames that come within a period of `task_fsm` the
  first is lost, where the comment would keep both.
* The comms check (`task_health.c:92`, and likewise `task_sensor.c:145`, whose comment says "log
  if no packet within timeout") takes a stamp of 0 for "no packet yet". A packet that comes at
  tick 0 of a later lap makes it blind until the next packet, however long the line is silent.
  And the age of a stamp is known up to a lap of 49.7 days only: in a longer silence the
  alarm is taken back once a lap, for `CommsTimeout` and up to a period and twice the
  lateness. `AlarmPrompt` makes an exception for both, and holds without further ones.
* `blackbox_rewind` leaves `count` alone, so a replay ends early (`blackbox.h:92`).
* `flight_fsm.h:44` calls `fault_flags` a "mirror of EventGroup bits"; only three of
  the bits are ever mirrored.
* `blackbox.c` asserts `sizeof(bb_record_t) == 64`; the packed fields add up to 56.
* `fsm_command` arms whatever the last frame says: `guard_preflight_to_armed` is called nowhere,
  while `flight_fsm.h:12` calls its threshold what one "must have before ARMED".
* `Error_Handler` waits for the watchdog (`main.c:181`), which a failure of
  `MX_USART2_UART_Init` precedes: `HaltIsReset` therefore speaks of a running watchdog.
* A task that blocks without the state mutex, or spins at the priority of `task_health`,
  is never noticed by the watchdog: `HangIsReset` names the hangs that are.
* A packet between `task_health`'s two readings raises the comms alarm for a period; it lasts only
  while that happens in period after period.
* A sagging battery moves 5% of the way to its target, from the healthy voltage, in every tick
  anew, so a target of 9.5 V is never reached (`battery_tick` is not modelled: `FaultsExact` is about
  the switch and the target); of several sags the one in the last slot
  counts, not the latest command.
* A frozen IMU repeats the true values, not its last output, and the firmware recognises only
  a freeze at all zeros.
* After QUIT the later lines of the same read are executed and answered to nobody, and a
  partial one is left for the next client's bytes; `FAULT` without arguments takes its
  argument from the next line, if that has arrived already.
* A second reply to a client that has closed its socket raises SIGPIPE, which `main_sim.c` does
  not handle.
* The liftoff threshold is compared with an acceleration that includes gravity.
* `task_fsm` logs a change of faults as set or cleared by comparing the two bit sets as
  numbers.
* `PKT_TYPE_FAULT_INJECT` is declared and handled by nobody.
* `scenario_engine.c` and `packet_serialiser.h` are missing, and `scenario_engine.h` is a
  copy of `tcpserver.c`; `Simulator` models the engine from how `main_sim.c` calls it.

## 7. Not modelled

Sensor noise, drift and discharge, and the encoding of floating-point fields: data out of
TLC's reach. The descriptors of the UART bridge: pure I/O, and what the firmware sees of
a short write is the lost bytes of `ProtocolRx`. Transmission by three tasks on one UART
handle, and a receive interrupt that fails to be armed again: both are decided inside
the vendor's HAL, which is not in the repository. Register values, statistics, console
output, argument parsing and shutdown.

## 8. Plan

The order was: the recorder, the state machine, the tasks, the parser and the
simulator, because everything else reports through them or is driven by them; then the
handoff between interrupt and task, the CRC, the watchdog and the clock, the command
server and the sensor models' switches. Then the proofs: of every safety property the runs
check but `CrcIsRemainder`. What is left would need other tools: the liveness properties a
prover with fairness, `CrcIsRemainder` and `ByteSerial` at the real width one with bit vectors, and the
arming of the receive interrupt and the shared transmitter the vendor's HAL.
