# A TLA+ model of microHiL

microHiL runs an FMU in real time on a Linux host and closes the loop through an
acquisition board (an ESP32, the *DAQC*) on a UART. This directory holds TLA+
modules translated from its C, C++ and QML code, TLC configurations that check
them on small instances, and TLAPS proofs about eight of them. Paths below are
relative to the repository root, which `PROJECT.json` calls `src/`.

* `tlc -config X.cfg MCmodule` checks an instance;
* `tlapm ModuleProofs.tla` checks the proofs of a module.

`PROJECT.json` maps every definition to the lines it models, and lists the runs,
the hazards, the findings and, for every property, a mutated definition under
which TLC refutes it. Operators named `Name_Variant` are those mutations; no
specification uses them.

## 1. The system

### 1.1 Components

| component | code | state it keeps | operations |
|---|---|---|---|
| run log | `src/binary_logger.c`, `src/run_logging.c` | single-producer single-consumer ring, drop and accept counters, sink, result | start, push, producer done, consumer loop, drain, close, finish |
| log file and converter | `src/log_format.c`, `src/log_converter.c`, file sink | descriptor, records, temporary CSV | write header/record, read header/record, convert, publish |
| firmware | `firmware/daqc_esp32/main/*` | `control->state` and its mutex, profile (`g_configured`), one-slot actuation mailbox, acknowledgement time, parser's frame, pins | `CommunicationTask`, `IoTask`, `SetupCallback` |
| DAQ coordinator, link state, state control | `src/daq_coordinator.c`, `src/daq_link_state.c`, `src/daq_state_control.c` | pending command, mode, output mailbox, pending acknowledgement, confirmation count | receive, transmit, request transition, wait |
| serial service, runtime | `src/daq_serial_service.c`, `src/daqc_runtime.c`, `src/daq_tty.c` | worker thread, port, ROS client | start, enable, stop, close |
| execution session | `src/execution_session.c` | `prepared`, `run_started`, `stop_requested`, `producer_done`, `hil_active`, result, FMU, logger, runtime | load, start, run HiL, stop, join, abort |
| window | `gui/gui_controller.cpp`, `gui/Main.qml` | what it believes runs, what it shows | Play, Stop, timer, close, import |
| simulation thread | `src/rt_simulation.c` | step count, verdict, statistics | configure, sleep, inputs, step, outputs, account, release |
| release schedule | `src/release_schedule.c` | release index, unused releases, late steps, worst lateness | init, release time, advance, complete |
| input state, acquisition | `src/input_state.c`, `src/daq_acquisition.c` | per input: candidate, generation, last valid value, invalid count | publish, prepare step |
| actuation, output bridge | `src/daq_actuation.c`, `src/daq_output_bridge.c` | last value of each field | pack, publish |
| ROS 2 control | `src/daqc_ros_control.c`, `firmware/daqc_esp32/main/daqc_ros.c` | last state and errors received, stop flag, ROS thread; publication request, `started` | start, publish setup, wait, stop; setup callback, publish, start ROS |
| framing, XRCE bridge and queue | `src/daq_protocol.c`, `src/daq_xrce_udp_bridge.c`, queue of `src/daq_coordinator.c`, `firmware/daqc_esp32/main/daqc_protocol.c`, `daqc_transport.c` | parser buffers, sequence tracker, bounded queue of datagrams, stream buffer | feed, resynchronise, emit, track sequence, enqueue, take transmit, transport read |
| profile and schemas | `src/profile_config.c`, `src/daq_schema.c`, `src/app_config.c` | selected outputs and inputs, mappings, byte layouts | load profile, validate, build schema, normalise outputs |
| FMU adapter | `src/fmu_model.c` | unpacked directory, FMI context, XML, library, instance | load, list variables, initialise, step, terminate, free |
| sample queue and plotter | `src/sample_queue.c`, `src/plotter.c` | ring of samples, history shown | push, pop, plot thread |
| command line | `src/main.c` | configuration, stop target of the signal handler, last log | menu commands, `run_simulation`, signal, exit |
| SHA-256 | `src/sha256.c` | none | not modelled (section 8) |

### 1.2 How they interact

The window calls the session from its own thread. A plain Play creates the
simulation thread directly; a HiL Play runs `ExecutionSessionRunGuiHil` on a
QtConcurrent worker, which brings the board up, creates the simulation thread,
joins it and takes the board down. Threads tell each other of progress by atomic
flags that the window polls. The simulation thread reads its inputs from the
input state (filled by the serial worker channel by channel, and by the window),
leaves its outputs in the coordinator's one-slot mailbox and pushes a sample a
step into the ring of the log. The serial worker is the only one on the UART:
a command goes before an acknowledgement, that before an output. On the board
three tasks on two cores share the control record under a mutex that is only
ever *tried*, and the pins under nothing. States are changed by CONFIG frames;
the configuration of the board travels as a ROS message inside XRCE frames on
the same UART, and is confirmed by a message of the board.

### 1.3 What is hard, and what makes each part correct

* **run log**: two threads and no lock; a full ring, a failing sink and the end
  of the run at any instruction. Correct: no slot is touched by both, each
  sample is accounted for once, "OK" means complete, and the join returns.
* **firmware**: the mutex is given up when taken, the frame of a failed handler
  is handled again later, state is read without the mutex. Correct: it streams
  only when configured, no stale actuation, a silent host ends STREAMING, and
  the host sees only what the contract allows.
* **host link**: frames are lost, answers come late, a poll reads two values at
  two moments. Correct: no command before the baseline, a confirmed stop is
  final, nothing is left to send outside STREAMING.
* **session**: three threads, flags that outlive a run, failures half-way.
  Correct: the model outlives the thread that steps it, a run shown as over is
  over, the result on the window is of the last run that started, and every Play
  ends. The first fails in one window of time, which the property names.
* **simulation loop**: overruns, wrapping arithmetic, frames published while a
  step reads them. Correct: the figures of a run agree, no burst, the last valid
  inputs, the protection exactly when due, and a mix of two frames only where a
  frame is half published.
* **ROS control**: messages are lost, the board publishes its state unasked, a
  thread waits on a condition and another on topics. Correct: a confirmation is
  of the configuration asked for, no state goes unannounced, no wake-up is lost,
  and a start or a stop ends.
* **log file**: two's complement through unsigned fields, a bitmap whose last
  byte may be full, cut files. Correct: what is exported is what the FMU gave.
* **serial line**: no checksum, no escaping, reads that cut frames anywhere, a
  lost byte, a queue and a stream buffer at their limit, sequence numbers that
  wrap. Correct: without loss the frames are the ones sent, the harm of a lost
  byte ends, missing frames are counted exactly, datagrams keep their order.
* **command line**: failed loads between good ones, references into an FMU that
  is gone, a signal at any moment, two threads to join in the right order.
  Correct: the FMI library is called in its order and everything given back, a
  run uses variables of the FMU it runs, the plot and the CSV are of the run
  they claim, and a run returns to the menu.

The list of places, 40 of them, is under `hazards` in `PROJECT.json`.

## 2. Modules

```
LogStream  <-- implements --  BinaryLogger
DaqDevice  <-- implements --  DaqcFirmware
DaqDevice, DaqHost  -- composed in -->  DaqLink
ReleaseSchedule, InputState  -- used by -->  SimulationLoop
DaqProtocol  -- used by -->  SerialLine
RunConfiguration, FmuModel  -- used by -->  Console
ExecutionSession        LogFile        RosControl
```

An `MC` module named after the last module of each line instantiates it for TLC,
and a module with `Proofs` after its name has the theorems; those of RosControl
and SerialLine share `RosLineProofs`. The proof that the firmware keeps DaqDevice and the proof that any
board that keeps DaqDevice is driven safely (DaqLinkProofs) meet in that contract.

**BinaryLogger** has one step per access to a shared atomic or a slot. `prodPc`
walks `RunLoggingStart`, `BinaryLoggerPublish` (load, write the slot, store `head`,
count), `ProducerDone` and `RunLoggingFinish`; `consPc` walks `BinaryLoggerThread`. The
atomics are acquire/release pairs, so the interleaving of these steps is all a
reader can observe. A sample is its sequence number; `published`, `taken` and
`file` are history. **LogStream** is the promise without threads and ring.

**DaqcFirmware**: `commPc`, `ioPc`, `rosPc` are the places of the three tasks
between the points where another can see a difference (mutex taken, state
written, configuration tested, pins written, sample taken, time stored, answer
sent). A frame whose handler returned
false stays in `frame`, and `CommReplay` handles it again, as
`DaqcParserFeed` does. The acknowledgement time is 64 bits on a 32-bit machine:
while `CommStamp` stores it, `IoWatch` may read anything. `RosTask` runs under
the supervisor of `main.c`; the messages it publishes are in RosControl.
**DaqDevice** is the contract on the wire.

**DaqHost** is the caller of `DaqcRuntimeStart/Stop` (`pc`), the serial worker
and the simulation's publication; **DaqLink** puts it against any board that
keeps DaqDevice, with a line that loses frames, session after session. A host
timeout is a choice of the poll. The worker is started (`Open`) before the caller
reads the count of confirmations it compares with (`BaselineCount`), and whoever
reads `mode` and then the count (`BaselineReadMode`, `BaselineCheck`) does so in
two steps. The board may send a sample in any state: `IoTask` tests the
configuration and then waits for the transmit mutex.

**ExecutionSession** keeps the flags of `execution_session_t`, the window's
beliefs (`guiRunStarted`, `hilRunStarted`, `screen`, and `runResult`, its own copy
of the result), and the places of the three threads. The import button is never
disabled and the session refuses only while `run_started`, so an import can fall
between the creation of the simulation thread by the HiL worker and that flag;
`torn` remembers it. The thread then works on a cleared context (`SimTorn`): the
process crashes, or the thread ends on its error path. Everything that can fail (preflight, FMU, board, logging, thread
creation) fails as a choice. Preparing is two steps on the HiL worker
(`HilPrepare`, `HilPrepared`): the model exists before `prepared` says so.

**SimulationLoop** is the loop of `SimulationThread` with every early exit, over
**ReleaseSchedule** (the functions of `release_schedule.c`, with unsigned
arithmetic that ends at `U64Max`) and **InputState** (values are the numbers of
the publications that brought them). Sleeping ends at the release or with a
Stop; a frame is published field by field.

**LogFile** writes and reads the format cell by cell: header, sequence, values,
bitmap. Integers are two's complement at width `Int32Max`, bytes have
`BitsPerByte` bits.

**RosControl** is the other half of a HiL start: the caller of
`DaqcRuntimeStart/Stop` (`pc`), the ROS thread of `daqc_ros_control.c`, and on
the board `RosTask` with its supervisor and the requests of the other two tasks.
CONFIG frames are an exchange that succeeds or not, since DaqLink is about them.
A configuration is the number of the session that asked for it, which is what
lets `ConfirmedIsMine` tell whose configuration was confirmed. Taking the request
to publish (`RosTakeRequest`) and reading the state (`RosPublish`) are two steps,
as are writing a state and requesting its publication.

**DaqProtocol** has the encoders, what each of the two parsers makes of the bytes
it holds (resynchronise, reject, wait, emit) and the order of sequence numbers,
over bytes below `Base`. **SerialLine** runs them: a behaviour is one direction of
the line. Towards the host, the board sends DATA, CONFIG and XRCE frames and the
coordinator handles what the parser emits, with its sequence tracker. Towards the
board, the agent's datagrams pass the bridge and the XRCE queue, behind CONFIG,
READ_ACK and DATA, to the board's parser and the stream buffer, which may take a
part of a payload and report failure (`RefuseXrce`). The host starts in STREAMING
and a CONFIG frame, genuine or forged, moves it. A read returns any prefix of the
line. What can be sent is a constant; `FramesAssumption` says of it what the
encoders guarantee (sizes, and bytes below `Base`).

**RunConfiguration** is pure: what an FMU lists, what `profile_config.c` accepts of
a document, the mappings resolved against the FMU, the layout `daq_schema.c`
builds, `app_config_normalize_outputs`. Loops that filter or sort are `Arranged`:
the one enumeration of the indices kept that ascends by key and then by index,
which is what a stable insertion sort leaves. A variable is identified by its
place in the XML, since two FMUs can use one value reference for different names. The search of a
mapping past the array it runs over finds nothing, or an entry at any index up to
the number of variables with any reference. **FmuModel** is the adapter as a record
and each of its functions as the set of its outcomes; the FMI library keeps, on
the other side, which objects exist and in which mode the instance is, the modes
after a discarded step, an error and a fatal error included, and `misused`
remembers a call out of order, but for those the adapter really makes on an
instance that failed (`OnBrokenInstance`). **Console** composes both with the runner
(`pc` walks `run_simulation` with every early return), the simulation thread, the
sample queue, the plotter thread (one step per access to the queue or to
`producer_done`) and the signal handler.

## 3. Runs

| run | instance | states | checks |
|---|---|---|---|
| `logger` | ring of 3 slots, 6 samples | 12,592 | `NoSlotRace`, `ExitAccounting`, `OkMeansComplete`, `ImplementsLogStream`, `LogGetsReported` |
| `firmware` | one frame per direction, supervision of one tick | 1.53 M | `StreamingIsConfigured`, `EnableEmptiesMailbox`, `ImplementsDevice`, `HostSilenceDisables` |
| `link` | two frames per direction | 565 k | `BaselineFirst`, `StopConfirmedHolds`, `NothingLeftToSend` |
| `session` | 3 Plays, 2 steps | 26,452 | `SimOwnsModel`, `EndedMeansQuiet`, `ResultIsFresh`, `EveryPlayEnds` |
| `simulation_loop` | 2 physical inputs and a virtual one, 2 outputs, 3 steps, 3 frames, step 2, `U64Max` 6, limit 2 | 3.92 M | `GridAccounting`, `NoBurst`, `LatenessAccounting`, `StepUsesLastValid`, `ProtectionExact`, `MixedExactlyMidway` |
| `log_file` | 2 samples, 3 descriptors, `Int32Max` 0, 2 bits per byte | 2.24 M | `OfferedIsWhole`, `CsvIsFaithful`, `ContentNeverRefused` |
| `ros_control` | two starts, one message in flight per topic | 898 k | `ConfirmedIsMine`, `PublishedIsCurrent`, `NoLostWakeup`, `RuntimeSettles` |
| `serial_line` | bytes 0..7, sequence numbers below 64 starting at 63, MTU 2, DATA of 1 byte, 3 frames, 2 datagrams, queue of 2 | 1.40 M | `LosslessInOrder`, `DamageIsLocal`, `GapsAreCounted`, `DatagramsArriveInOrder` |
| `console` | 2 FMUs, 5 profile documents, one step size, 2 steps, 2 runs, ring of 2 slots, history of 2 | 1.18 M | `FmuLifecycle`, `RunUsesLoadedFmu`, `PlotIsFaithful`, `CsvIsOfLastRun`, `EveryRunReturns` |

`logger` and `firmware` also check their `TypeOK`, which is a theorem there. For the safety properties the proofs of
section 5 lift these bounds; one keeps a hypothesis on a constant, which section 5
gives with the theorem.
Why the bounds are enough:

* *logger*: three slots hold two samples, so the ring is empty, partly filled
  and full, and six samples carry both indices round it twice.
* *firmware*: the tasks handle a frame at a time, and a frame that is retained
  while another waits needs one slot on the wire besides the parser; one tick
  tells "expired" from "not".
* *link*: two frames in flight let an answer to an abandoned command be behind
  or ahead of the one that is awaited; commands are sent one at a time.
* *session*: a fault that one run leaves to the next needs two Plays, and a
  third to see that it does not last; two steps let a Stop come before, between
  and after them.
* *simulation loop*: with releases every 2 ns and an integer that ends at 6, a
  step ends on, before and after a release, overruns more than one, and meets
  both overflow guards. Three frames against a limit of two give a trip, a reset
  and a sample that no step saw.
* *ROS control*: what one start leaves to the next (a setup still queued, a
  configuration still applied) needs two; a topic that holds one message can be
  full, empty and late, and the confirmation looks only at the last one taken.
* *log file*: `Int32Max` 0 leaves the integers -1 and 0, where the sign is
  everything; values beyond both ends are offered. With two bits per byte the
  bitmap of two outputs fills a byte and that of three begins another.
* *serial line*: three frames are one before the lost byte, one that it damages
  and one after; payloads and sequence numbers can be the sync bytes, and a
  length misread from them can be any number below 64. The first number, 63, is
  the last before the wrap; half the range is beyond three frames, and only the
  theorem is about it. Two datagrams in a queue of two can change places in it;
  what a full queue does with a third is in the theorem only. A datagram of three
  bytes is above the MTU, and a stream of two bytes is filled by one payload while
  the next arrives.
* *console*: the FMUs have the same names at other references and in another
  order; one has more numeric outputs and the other more inputs than the arrays
  hold that a mapping is searched in. The profiles fit both FMUs, one of them,
  none, or are found past an array. Two runs with a load in between show what the first leaves to the
  second; a ring of two slots holds one sample, so that it is full and empty at
  every step.

### Fairness

Only what the scheduling justifies. `logger`: the logger thread and, once its
run is over, the simulation thread and its joiner go on (they are ordinary
threads, and neither waits for the other without end). `firmware`: each FreeRTOS
task that can run does, on its core, and time passes; hosts, ROS messages and
the line owe nothing, and `HostSilenceDisables` is stated for hosts that fall
silent. `session`: the simulation thread, the HiL worker, the timer of the
window and its closing sequence proceed; the operator owes nothing.
`ros_control`: the caller and the ROS thread are scheduled and deadlines pass
(`pthread_cond_timedwait`, the poll of `daq_state_control.c`); the board, the
topics and the operator owe nothing. `console`: the runner, the simulation and
the plotter threads are scheduled; the operator at the menu and the signals owe
nothing. `link`, `simulation_loop`, `log_file` and `serial_line` check safety
only.

### Deadlock

Checked in `logger`, `link`, `simulation_loop`, `log_file` and `ros_control`. The firmware with
a silent host, the session with a closed window, a drained line and the command
line after its exit may really stop.

## 4. Findings

Three runs refute what the repository says of itself:

| run | statement | what the code does |
|---|---|---|
| `fw_outputs_after_stop` | only STREAMING applies actuation (`docs/contracts/interfaces.md:220`) | `IoTask` tests the state once, takes the snapshot and drives the pins; a DISABLE in between zeroes them first |
| `link_skipped_stop` | the end of a run takes the board to DISABLE (`interfaces.md:137`) | `DaqcRuntimeStop` asks nothing when the host's mode is DISABLED, which a lost confirmation makes stale |
| `session_stale_stop` | Play starts the simulation (`docs/spec.md:78`) | no Play clears `stop_requested`: the run after a Stop ends at once as Stopped |

Four passing properties say exactly where the code does something that a reader
would not expect, and would fail if it did so anywhere else:

* An FMU imported while the HiL worker is between creating the simulation thread
  and setting `run_started` unloads the model under the thread
  (`execution_session.c:58` tests only that flag). `SimOwnsModel` says that the
  thread lacks its model after such an import and at no other time;
  `EndedMeansQuiet` and `EveryPlayEnds` name the case too. `interfaces.md:13` says
  the window does not change the FMU's state.
* A frame of the board is published channel by channel, each under the mutex taken
  anew (`daq_acquisition.c:30`), so a step that looks in between takes half of one
  frame and half of the one before. `docs/spec.md:355` says that a snapshot never
  mixes generations, `docs/decisions.md:60` that the host uses the last complete
  DATA. `MixedExactlyMidway` says that a step mixes two frames if and only if it
  looks between the fields of one, by one frame, and in which inputs.
* When the simulation thread cannot be created after the plotter was, the abort
  clears `producer_done` and the join of the plotter waits for a flag nobody will
  set (`main.c:437`). `EveryRunReturns` says that every run returns or is this
  hang (`Hung`), which lasts.
* An XRCE payload of which the stream buffer took a part is refused, kept in the
  parser and delivered again, so that micro-ROS reads its beginning twice
  (`daqc_transport.c:56`); `interfaces.md:171` speaks of whole messages.
  `DatagramsArriveInOrder` says that nothing else than the next datagram, or such
  a beginning of it, is ever given.

Further observations the models make, without a run of their own:

* A HiL run that fails before its thread exists leaves no result, and
  `gui/Main.qml:525` then shows "Finished" (`ShowResult`); `docs/spec.md:100` does not
  let a run be declared finished before its result.
* A Stop pressed before the HiL worker has set `hil_active` is refused as "not
  ready" (`execution_session.c:396`), and the run goes on.
* The line has no CRC. A lost byte can glue two frames into one with a forged
  sequence number, which the tracker takes as a gap; the live frames that follow
  are then old for up to half the range. `GapsAreCounted` is stated for the
  frames that were sent, `DamageIsLocal` bounds the harm.
* The window empties its copy of the result only when a Play is accepted
  (`Main.qml:262`, `274`): after a refused one the result of the run before stays on
  the window, with its CSV export. `ResultIsFresh` says that it is then the last
  run that was *started*. The session's own result is gone by then if the refused
  Play got as far as `ExecutionSessionStartGui`.
* `fmu_model_terminate` calls `fmi2Terminate` also after a step that answered
  `fmi2Error` or `fmi2Fatal` (`fmu_model.c:388`), where FMI 2.0 allows only the
  release of the instance or nothing, and an instance that `set_debug_logging` left
  in error is set up all the same. `FmuLifecycle` is about all calls but these
  (`OnBrokenInstance`).
* The converter reports STRUCTURAL when reading the binary or closing it fails
  (`log_converter.c:254`, `293`), so the answer does not tell a damaged log from a
  disk error. `ContentNeverRefused` says that it is never about the content of a
  log the logger wrote.
* The command line starts the plotter of a second run with the `producer_done`
  of the first still set; the plotter may end before the first sample.
  `PlotIsFaithful` asks for the last sample only of plotters that started on a
  clear flag (`fresh`).
* The functions that list variables return how many there are, also when they
  stored fewer (`fmu_model.c:203`), and the search of a mapping runs to that number
  over an array of 64. `Console` lets it find anything there. The checks that
  follow refuse an input found so (`DaqAcquisitionInit`) and an output unless a
  selected one has its index, reference and type; `RunUsesLoadedFmu` says that only
  the name can then be another than the profile's.
* In the window the graph queue is reset by `sample_queue_init` on the HiL worker
  (`execution_session.c:375`) while the timer of the window pops from it, and
  until then holds what the run before left. Samples of the run before can be
  shown after Play HiL cleared the graphs; the comment at `Main.qml:87` forbids
  it. Play debug resets the queue on the window's own thread.
* The selection of outputs is checked against the profile before the preparation
  and can be edited in between and, as `prepared` is false again after the join,
  before the window has drained the last samples, which it then shows under
  other names.
* A virtual value typed while the HiL worker is between publishing the stored
  ones and setting `prepared` is not applied to that run (`HilPrepared`,
  `execution_session.c:268`).
* The serial worker ends by itself on an I/O failure and nobody reads its flag
  (`daq_serial_service.c:46`).
* A command that finds the control mutex taken by `IoTask` is answered with the
  state just written, before the outputs are zeroed (`CommConfirm` while `IoTask`
  is at `IoSafeOutputs`); `interfaces.md:222` asks for the opposite order.
* The firmware's read supervision can disable a stream that has just begun,
  because it reads the acknowledgement time while, or before, it is renewed.
* `ConfirmedIsMine` is stated for runs that begin with a reset of the board (the
  default). Without one, the state the board publishes after CONFIG ENABLE still
  has `configuration_applied` of the session before, and is taken for the
  confirmation of a setup that may be lost or refused; `interfaces.md:193` lets
  the flag stand only for the last configuration requested.
* A `DaqcErrors` received at any time of a session ends the wait for the
  confirmation, also when the board has recovered since.

## 5. Proofs

Eight modules are proved about, without bounds on their constants beyond the named
assumptions, each evaluated by TLC in a run. Every inductive invariant below was
checked by TLC on the instance of section 3 before it was proved. Besides the
safety invariants of the runs, both refinements are theorems.

**BinaryLoggerProofs** (`LoggerAssumption`: at least two slots). `LoggerInv` adds
to the type invariant where the window between `tail` and `head` is and what it
holds (`RingInv`), what each thread has already seen when it is at a place
(`ProducerInv`, `ConsumerInv`), the counters with the sample in hand
(`CountInv`), the file (`FileInv`) and the join (`FinishInv`). None of the
properties is inductive by itself: `NoSlotRace` needs the full test the producer
made before (`ProducerInv`) and that the consumer can only have made more room
since; `ExitAccounting` needs to know that the consumer saw `producer_done`
*before* it found the ring empty. Proved: `LoggerInvariant`, `LoggerTyping`,
`LoggerNoSlotRace`, `LoggerFileIsPrefix`, `LoggerExitAccounting`,
`LoggerOkMeansComplete`, and `LoggerImplementsLogStream`: every step of the two
threads is one step of LogStream or none. The refinement needs `VerdictInv`, which
relates the status of the run and the consumer's result to the threads' places.

**SimulationLoopProofs**, the schedule (`StepAssumption`: a step between 1 and
`U64Max`). `GridInv` adds to the three properties the types of the schedule and
`ReleaseInv`, which says at each place of the thread how the release in hand stands
to the clock, the end of the step before and the last reading; without it a step
could complete before its release, and neither `NoBurst` nor the lateness figures
would follow. The lemmas `Ceiling`, `GuardIsExact`, `AdvanceResult` and
`CompleteResult` say what the functions of `release_schedule.c` return: the
overflow guards let through exactly what fits, so the products that follow never
wrap. Proved: `LoopInvariant`, `LoopGridAccounting`, `LoopNoBurst`,
`LoopLatenessAccounting`, for every step, every integer width and any clock.

**SimulationLoopProofs**, the inputs (`InputAssumption`: a limit of at least one).
`ChannelInv` ties each channel's last valid value, invalid count and consumed
generation to the samples that steps have looked at: the count is the cardinality
of the run of invalid samples after the last valid one.
`WorkerInv` says how far into a frame the worker is and what it has published of
it, from which `MixedExactlyMidway` follows for the step that looks. `ProtectInv` carries the trip from the
channel that caused it to the end of the run. Proved: `InputInvariant`,
`InputStepUsesLastValid`, `InputProtectionExact`, `InputMixedExactlyMidway`, for any
channels, limit and number of frames.

**DaqcFirmwareProofs** (`FirmwareAssumption`: a wire and a supervision that are
not empty). `FirmwareInv` says who owns the mutex by where the tasks are
(`OwnerInv`), that the parser's frame fits the handler (`FrameInv`), that a
configuration in progress keeps STREAMING out (`ConfigureInv`) and when the
mailbox is empty (`MailboxInv`). `StreamingIsConfigured` rests on two tasks
testing each other's state under the same mutex, hence on `OwnerInv`. Proved:
`FirmwareInvariant`, `FirmwareTyping`, `FirmwareStreamingIsConfigured`,
`FirmwareEnableEmptiesMailbox` and `FirmwareImplementsDevice`: the tasks, seen from
the wire, take only steps of DaqDevice.

**DaqLinkProofs** (`WireAssumption`: lines hold a natural number of frames).
Commands and answers form one pipe, numbered by `Places`: the coordinator's slot,
the line to the board, the frame in its parser, and the line back. A confirmed stop
is safe because of what is *not* in the pipe, which neither property says.
`OrderInv` states in which order commands can follow one another in it,
`StateInv` that an answer DISABLE is still true of the board when no order to wake
can be behind it, and `StoppedInv` that nothing wakes the board after a stop;
`CallerInv` relates this to the caller's place and to the two reads of mode and
count. The lemmas `Along...` move all three along the pipe at once. Proved:
`LinkInvariant`, `LinkTyping`, `LinkBaselineFirst`, `LinkStopConfirmedHolds`,
`LinkNothingLeftToSend`.

**ExecutionSessionProofs**. `SessionInv` says which flags go with which places of
the simulation thread (`ThreadInv`), what the window may believe (`ScreenInv`), who
still holds the logger and the board (`ResourceInv`), whose result it is
(`ResultInv`) and when the thread has its model (`ModelInv`). `EndedMeansQuiet` is
no invariant of the window's flags alone: a run shown as over is quiet because the HiL worker gives up the thread, the logger and
the board before the place at which the window's poll finds it done.
Proved, with imports whenever the code allows them: `SessionInvariant`,
`SessionTyping`, `SessionEndedMeansQuiet`, `SessionResultIsFresh`,
`SessionSimOwnsModel`.

**RosLineProofs**, the control (`RosAssumption`). `MineInv` follows a configuration
from the setup in the topic over the board to the confirmation in the topic back,
and says of each which session it can be of after a reset; `AnnounceInv` says who
still owes a publication at each place of the three tasks. `RosInv` adds the types,
with which `NoLostWakeup` is inductive as it stands. Proved: `RosInvariant`,
`RosTyping`, `RosConfirmedIsMine`, `RosPublishedIsCurrent`, `RosNoLostWakeup`.

**RosLineProofs**, the line (`ProtocolAssumption`, `LineAssumption`,
`FramesAssumption`). The bytes of a sequence of frames are a `FlattenSeq`, which
is a recursive function on indices. That it exists, is the only one with its
equations (`JoinExists`, `JoinUnique`) and that the bytes of the first frames begin
those of all is shown by a least counterexample (`LeastNatural`), which the provers
can follow where they cannot instantiate an induction principle. Then:

* `PrefixParses`: given any proper beginning of an encoded frame, either parser
  waits, and given the whole it emits that frame, also where the payload holds the
  sync pair. It needs the arms of `FrameSize` to exclude one another. `LineInv` says
  that while no byte is lost or thrown away the bytes sent are those of the frames handled followed by
  what is held, read and on the wire, that the parser never holds more than the
  next frame (`ParseInv`), and the same of the datagrams from the queue to
  micro-ROS (`QueueInv`). Proved: `LineInvariant`, `LineLosslessInOrder`,
  `LineDatagramsArriveInOrder`.
* `GapInv` gives every DATA frame its place among those sent (`NumbersInv`) and says
  that the tracker has counted the places between the first and the last it took
  (`Counted`); counting modulo the width is not inductive by itself.
  `LineGapsAreCounted` has the hypothesis `MaxFrames <= Width \div 2`, because
  `DaqSequenceTrack` tells a late frame from a new one by half the range.
* `DamageInv` is about the time after a loss. `ContentInv`: the bytes between the
  line and the handlers are still the end of those sent, without the one lost.
  `SparedInv`: of the frames that the loss must spare, those up to some m-th are the
  last ones handled and of the others no byte is gone. `IdleInv`: a parser that
  waits holds less than one largest frame, which is what bounds the harm. The
  property itself speaks of a drained line only, so nothing in it is inductive. The
  lemmas `InStep` and `NoStart` carry the argument: when the parser stands behind
  the loss on a sync pair it stands on the beginning of a frame (`Clean`), and what
  it throws away while searching contains none. Proved: `LineDamageIsLocal`, for
  both parsers, with their different ways of searching and of rejecting.

**ConsoleProofs** (`ConsoleAssumption`, `ConfigurationAssumption`,
`FilesAssumption`). Four invariants, of which only the last needs another.
`ModelInv`: at each place of the runner and of the simulation thread the
adapter is empty, loaded or prepared; the lemmas about `Free`, `Create` and the
calls say that each stage of `fmu_model.c`, and each way out of it, leads from one
of these to another and never calls out of order, but for the calls on a broken
instance that `OnBrokenInstance` lists. `PlotInv`: the ring between
`tail` and `head`, the history as the end of what was taken, and what the plotter
has seen of `producer_done` (`DoneInv`), without which it might leave before the
last sample. `LogInv`: a log that is complete is of the last run. `ConfigInv`: the
selection, the profile and both layouts are for the FMU that is loaded, and outside
the menu the selection is in the order of the XML. It needs `ModelInv`, since a
failed load leaves an empty adapter and a configuration that no run may use. The
lemmas under it say what listing, searching, resolving and laying out return:
`Arranged` exists and is sorted, a search finds a variable of that name, fails or
ends past the array, what ends there is refused unless it is of the right kind, and a
layout has exactly the mappings of its direction. Proved: `ConsoleModel`,
`ConsoleFmuLifecycle`, `ConsolePlot`, `ConsolePlotIsFaithful`,
`ConsoleCsvIsOfLastRun`, `ConsoleConfig`, `ConsoleRunUsesLoadedFmu`.

**LogFileProofs** (`LogFileAssumption`). `RecordReads` is the round trip of a
record: what `LogFormatWriteRecord` writes of any sample is accepted by
`LogFormatReadRecord` and shown as the values the FMU gave, for every number of
outputs, every integer width (`IntegerRoundTrip`) and every byte width
(`BitsAreOutputs`: the mask of the last byte is exact, the full byte included).
`ImageInv` says where in the file each step's record is (`Before`) while the run
logs without loss and as long as the log is offered, wherever its end was cut;
`ConvInv` that the converter stands at the end of a record and has the rows of the
steps before it. `CsvIsFaithful` and `ContentNeverRefused` follow from one lemma about
a read (`NextRead`). Proved: `LogFileInvariant`, `LogFileOfferedIsWhole`,
`LogFileCsvIsFaithful`, `LogFileContentNeverRefused`.

**Only model-checked**: the liveness properties (`LogGetsReported`,
`HostSilenceDisables`, `EveryPlayEnds`, `RuntimeSettles`, `EveryRunReturns`), since
fairness is outside what the prover handles. Every invariant, action
property and refinement that a passing run checks is a theorem.

## 6. Abstractions to keep in mind

* `DaqLink` and `DaqcFirmware` take a frame as delivered whole or lost; the line
  has no checksum that would give this, and `SerialLine` is where a byte is lost
  inside a frame, at most one in a behaviour. Lines do not reorder.
* `Console`: the log of every run goes to the same path; a run's log is complete
  or not, since `BinaryLogger` and `LogFile` are about how. A search past an array
  reads something; that the read itself crashes is left out.
* A timing assumption: when a port is opened the line is idle. `DaqTtyFlushInput`
  has thrown away what was received, and a frame of the session before, which
  takes milliseconds, is not still on its way to the board.
* `BinaryLogger`: `pthread_join` of a thread that was created, and is joined once,
  does not fail (POSIX has no other error for it), so `RunLoggingFinish` has no
  such path. `ExecutionSession` creates a thread and sets `thread_started` in one
  step, since both are done by the one who reads it. Its HiL worker may return at
  its beginning, which is all that a build without ROS 2 does.
* RosControl: topics lose and delay messages but keep their order; a spurious
  wake-up only makes the caller look again, and is left out.
* Payloads of actuation and acquisition are present or absent; range checks and
  `IsNewerSequence` may give either answer.
* `LogFile`: the file holds no count of its records, so a log cut exactly between
  two records is exported as whole; `CsvIsFaithful` asks for "partial" exactly of
  a file that ends inside one. Each run is exported to a path of its own. A killed process
  leaves the file as far as it was written.
* A Stop that arrives after the verdict of a run is not modelled in
  `SimulationLoop` (it is in `ExecutionSession`).
* After `Release` the serial worker may still publish into the destroyed input
  state: the model takes what this build does, the publication is refused or
  lands in a record no step reads again.

## 7. Plan

1. The remaining controls of the window (selection, virtual inputs, graph queue)
   on top of `ExecutionSession`; the races they are exposed to are in section 4.
   A first version, with the queue and the configuration added to every state of
   the session, has too many states for TLC; it needs the session's own stages
   merged first.
2. Writes to the UART that fail after a part of a frame.

## 8. Not modelled

* **SHA-256** (`src/sha256.c`): a sequential function of bytes whose value only
  identifies the FMU in a log; the models use the FMU's name.
* **The window beyond Play, Stop, import, timer and close**: see the plan.
* **Configuration commands of the menu that set one value** (plot, log, limits):
  the value is chosen where the code reads it.
* **Reading and writing YAML text, export of a profile**: a document is what it
  parses to.
* **Values packed into and read from payloads by a schema**: layouts are modelled,
  scaling and rounding of a field are not.
* **`DaqTtyWrite` failing after a part of a frame**, opening and configuring the
  port, sockets: each succeeds or fails as a whole.
* **The FMI library, FreeRTOS, micro-ROS and Qt**: external, modelled only by what
  the code asks of them.
* **Plot drawing, formatting, messages, layout, status strings**: nothing here is
  about them.
