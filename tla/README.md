# AVB StreamHandler: models, checks and proofs

TLA+ models of the AVB StreamHandler, checked with TLC on small instances and
proved with TLAPS where that is possible. The code is the reference: every
definition that models code is tied to its lines in `PROJECT.json` ("map").
Paths below are relative to `src/private/src` unless they say otherwise; a file
is named by the initials of its class where that is clear (`RE:1069` is line
1069 of `IasAvbReceiveEngine.cpp`).

## The system

The stream handler is a daemon that moves audio and video between AVB streams
on an Ethernet link and local clients.

| part | state | operations | meets |
|---|---|---|---|
| daemon (`avb_streamhandler_app_socket/server.cpp`) | `shutdownReason`, the ready file | options, set-up, start, suspend and resume, stop | signals, configuration plug-in, service thread |
| command service and client (`server.cpp`, `client.cpp`) | acceptor, connection, last response | accept, read, execute, answer | client processes, the API |
| configuration plug-in (`avb_configuration*`) | profile tables, registry | `passArguments`, `setup` | the API |
| `IasAvbStreamHandler`, `IasAvbStreamHandlerEnvironment` | engines, tables of streams and clock domains, API mutex, resources of the process | the public API; `init` stage by stage | all engines |
| `IasAvbTransmitEngine`, `IasAvbTransmitSequencer` | streams by id, active streams, the worker's sequence, bandwidth, control flags | create, (de)activate, destroy, start, stop; the worker: update, service, restart | API thread and one worker per class |
| `IasAvbReceiveEngine` | the stream map, the packet pool, the device's ring and filter | dispatch, create/destroy, start/stop, recovery | API thread, one worker, network device |
| `IasAvbStream` and its audio, video and clock reference kinds | activity, states of a receive stream, time stamps, packet pool | prepare or dispatch a packet, (de)activate, connect | workers, local streams, clock domains |
| clock domains, `IasAvbClockController` | rate ratio, lock state, event count, filter | update, register client, control loop, capture thread | streams, controller, clock driver |
| `lib_ptp_daemon` | base of the local time, epoch counter | read the device's clock, extrapolate | all that stamp or wait |
| `IasLocalAudioBuffer(Desc)`, `IasLocalAudioStream`, `IasAvbAudioShmProvider` | sample rings, descriptor queue, shared-memory state | read, write, reset, copy job, IPC | network and audio threads, ALSA clients |
| ALSA engine, workers, `IasAlsaHwDeviceHandler` and its thread | workers and their streams, watchdogs, ASRC ring | create/destroy, start/stop, cycle, rate conversion | API, audio threads, devices |
| local video streams and buffer, `avb_video_bridge` | queue of packets, callback, threads | copy, queue, send, receive, disconnect | shared ring, transmit worker, applications |
| `avb_video_common/IasAvbVideoRingBufferShm` | offsets, fill level, table of readers | begin/end access, wait, add/remove reader, purge | one writer process, up to 32 readers |
| `avb_helper` (thread, signal, result) | thread flags, signal | start, stop, wait | all threads |
| `avb_watchdog` | registered interfaces, due times | register, reset, notify | supervised threads, systemd |

`PROJECT.json` lists every part with what is modelled of it, and under
"hazards" what is hard to test in this code, each at its line and with the
properties that would catch it: state shared by several threads under several
locks or none; request/response hand-shakes with time-outs; unlocked
read-modify-write of flags; processes that die with entries in a shared table;
indices and time stamps at the end of their range; buffers that must come back
on every error path; calls that join a thread from wherever it is; start-up and
shut-down that fail half way.

## Modules

A module holds one component. Its VARIABLES are the members of the class and the
program counters of the threads, an action is a stretch of code that nobody can
observe half done, `Init...` or `...Init` the state after construction.
Modules whose names begin with MC give the constants for TLC; some of them put
two or three components that share no state side by side, so that a behaviour
(chosen by `part`) is one of the one or the other and one run checks them all.

| module | code | composed by |
|---|---|---|
| `VideoRingBuffer` | `avb_video_common/IasAvbVideoRingBufferShm.cpp` | `MCVideoRingBuffer` |
| `TransmitSequencer` | `IasAvbTransmitEngine.cpp`, `IasAvbTransmitSequencer.cpp`, packet pool | `MCTransmitSequencer` |
| `TransmitTiming` | time stamps of `IasAvbAudioStream.cpp` and `IasAvbClockReferenceStream.cpp` | `MCReceiveEngine`, `MCTransmitTiming` |
| `ReceiveEngine` | `IasAvbReceiveEngine.cpp`, the receive halves of the streams, `IasAvbClockDomain.cpp` | `MCReceiveEngine` |
| `ReceiveWorker` | start, stop and worker of `IasAvbReceiveEngine.cpp`, packet pool and device ring | `MCHwDevice` |
| `PtpClock` | `lib_ptp_daemon/IasLibPtpDaemon.cpp`, `IasAvbRxStreamClockDomain.cpp` | `MCReceiveEngine` |
| `ClockController` | `IasAvbClockController.cpp`, `IasThread.cpp`, `IasSignal.cpp` | `MCClockController` |
| `HwCapture` | `IasAvbHwCaptureClockDomain.cpp` | `MCClockController` |
| `LocalAudioBuffer`, `AudioFifo` | `IasLocalAudioBuffer.cpp` and what it promises | `MCLocalAudioBuffer` |
| `AlsaStream` | `IasLocalAudioStream.cpp`, `IasAlsaVirtualDeviceStream.cpp`, `IasAvbAudioShmProvider.cpp`, the sample halves of `IasAvbAudioStream.cpp` | `MCLocalAudioBuffer`, `MCAlsaStream` |
| `AlsaEngine`, `Watchdog` | `IasAlsaEngine.cpp`, `IasAlsaWorkerThread.cpp`; `avb_watchdog` | `MCAlsaEngine` |
| `HwDevice` | `IasAlsaHwDeviceHandler.cpp`, `IasAlsaHandlerWorkerThread.cpp` | `MCHwDevice` |
| `VideoStream` | `IasVideoStreamInterface.cpp`, local video streams and buffer, `IasAvbVideoStream.cpp`, `avb_video_bridge` | `MCVideoStream` |
| `StreamHandler` | `IasAvbStreamHandler.cpp`, `IasAvbStreamHandlerEnvironment.cpp`, engine start and stop | `MCStreamHandler` |
| `Configuration`, `ReferenceProfiles` | `avb_configuration/`, `avb_configuration_reference/` | `Daemon` |
| `CommandService` | `server.cpp`, `client.cpp` | `Daemon` |
| `Daemon` | `main()` of `server.cpp`, signals | `MCDaemon` |

The modules `...Proofs` hold the theorems of the module they are named after;
`VideoProofs` those of `VideoRingBuffer` and `VideoStream`,
`LocalAudioProofs` those of `LocalAudioBuffer` and `AlsaStream`,
`ReceiveEngineProofs` also those of `ReceiveWorker`, `DaemonProofs` those of
`CommandService` as `Daemon` composes it, `TimeProofs` those of `PtpClock`,
`TransmitTiming`, `HwCapture` and `HwDevice`.

### Assumptions on the environment

The code leaves some orders of events to luck. A model that includes them finds
what they break and nothing else, so each of them is a constant: an element of
the module's `Assume` set (or a Boolean) that a configuration can leave out to
see the consequence. Everything not listed is in, at every interleaving.

| module | assumption | without it |
|---|---|---|
| `VideoRingBuffer` | `SerialEnds`: while one reader is inside `endAccess` no other enters it, registers or leaves, and the reader is neither purged nor dies there | overlapping `endAccess` calls (RB:459) let the writer overwrite unread packets |
| `TransmitSequencer` | `AtomicToggle`: no API call reads `mActive` in the middle of the worker's `deactivate`/`activate` (TS:1063) | a stream in use is destroyed, or its bandwidth reserved twice |
| | `AtomicFlags`: `shutDown` does not write `mThreadControl` within the worker's <code>&#124;=</code> (TS:542) | the end flag is lost and `stop()` never returns |
| `ReceiveEngine` | `"lookup"`: the worker does not re-key the map while an API call is under way; `"callback"`: no stream is disconnected or destroyed while the audio thread is inside its `signalDiscontinuity` | `MapExact` fails: a deleted stream is used |
| | `"video"`: a video stream is connected whenever it is told that there is no data | a null pointer is used |
| `PtpClock` | `"late"`: a packet whose stamp is compared with the time is not late, nor more than half a round of the stamp ahead; `"reset"`: the clock is not set between the packet that resets a domain and the reading it is compared with | `StampExact` fails: a stamp is off by 2^32 (RX:155–160) |
| `TransmitTiming` | `"clock"`: a clock reference stream is not asked while it has no clock | `WriterReturns` fails (run `CrfRetry`) |
| | `"noticed"`: a restarted master does not overtake its old count before the stream looks (AS:1103, CR:578) | `StampsOnGrid` fails |
| `StreamHandler` | `"startup"`, `"shutdown"`: clients send no command before `main()` has switched the API mutex on, nor once it deletes the handler | `EnginesFollowState` |
| | `"tones"`: the configuration asks for no test tone id that a video stream has | `ConnectionsMatch` |
| `AlsaStream` | `"reconnect"`: a receive stream is not connected again in the middle of a descriptor; `"start"`: its client is not activated while a descriptor waits for the time of the next packet (never the case when a period is a multiple of a packet) | `DescriptorsExact` |
| | `"drained"`: an idle client leaves room in its rings | `DescriptorsExact`, with `MaxTime = 8`, `Ahead = 6`, `Validation = 1` |
| | `"room"`: a transmit ring has room for all of a period or for nothing | `ChannelsAligned`, with more cycles than the run has (packets of 1, periods of 2, `Total = 6`, `MaxTime = 14`): samples without a descriptor are neither sent nor discarded |
| | `"warp"`: no new epoch while dummy samples are still to be compensated for | `ChannelsAligned`: `mDummySamplesSent` no longer counts the samples to discard |
| `VideoStream` | `"disconnect"`, `"service"`: no disconnect between the thread's check and its use of the pool, nor while the worker prepares a packet; `"dma"`: the driver has returned the packets when the pool's wait for them ends; `"cancel"`: a callback has no cancellation point | `CallsReturn` for `"cancel"`; without one of the others a pointer that has been cleared or a pool that has been freed is used, and the model stops in `crashed` |
| | `Sph = FALSE`: TSPs come without source packet headers | `InOrder`: TSPs appended to a packet are damaged |
| `AlsaEngine` | `"start"`: only the engine's `start()` meets a lack of threads; `"diagnosis"`: no stream is removed while its worker reads diagnostics without the lock | a deleted stream or handler is used |
| | `"restart"`: a worker is not started while a thread that ended by itself is still leaving | `ActiveMeansServed` |
| | `"connected"`: the engine is not cleaned up while a stream is connected | `ListsExact` |
| `HwDevice` | `"paced"`: the other end begins and ends no access while the thread fills the ring | `AdjustFits` |

`ClockController`, `HwCapture`, `ReceiveWorker`, `Configuration`, `Daemon`,
`CommandService` and `LocalAudioBuffer` need none; the last has a constant
`Layouts` (see below). Where the code may go wrong in these modules the property
says when it does and what holds all the same. A hazard that an assumption
excludes is not covered by a property; `PROJECT.json` lists it with the assumption.

### `VideoRingBuffer`

One writer, any set of readers. Variables are the members of the class
(`mReadOffset`, `mWriteOffset`, `mBufferLevel`, `mAllowedToWrite`, the fields of
`mReaders` as functions of the reader's pid), the program counters, and two
ghosts the properties compare the bookkeeping with: `nextSlot[p]` and
`pending[p]`, the oldest packet reader p has not read and how many there are.

| code | actions |
|---|---|
| `addReader`, `removeReader` | `AddReader`, `RemoveReader` |
| `waitRead`, `beginAccess` (read) | `WaitReadTimeout`, `BeginRead` |
| `endAccess` (read) | `EndRead`, `StoreOffset`, `UpdateSmallerReaderOffset`, `AggregateLevel`, `AggregateReadOffset`, `EndReadRejected` |
| `beginAccess` (write), `endAccess` (write) with the purge | `BeginWrite`, `GrantWrite`; `EndWrite` |
| death and restart of a reader process, time | `Crash`, `Restart`, `Tick` |

The reader's `endAccess` is five steps because it takes `mMutexReaders` and
`mMutex` one after the other and writes `reader->offset` under neither. A reader
may die anywhere else (`Crash`), but not inside its `endAccess`: `SerialEnds`
leaves that out, so `DeadReaderPurged` is about readers that die outside of it.

### `TransmitSequencer`

The API thread (one call at a time: the API mutex) and the worker of one
sequencer. `mRequestCount - mResponseCount` is the variable `outstanding`; only
the difference is used by the code. `toggle` is the moment between the worker's
`deactivate()` and `activate()` of a stream, `store` the one between the load
and the store of `mThreadControl |= cFlagRestartThread`. Packets are counts per
stream: `free` in the pool, `queued` in the driver, at most one in the sequence.
All four results of `igb_xmit` are modelled: after a fatal error the packet is
returned to the pool and kept as well (TS:950), which the history variable
`doubled` counts; when there is no descriptor the packet is neither sent nor
returned, and the worker asks for a restart or, with the shaper debugged, goes on
at once (TS:978); the next fetch, also the one after the restart, overwrites it
(TS:1030), which `lost` counts.

| code | actions |
|---|---|
| `createTransmit...Stream`, `destroyAvbStream` | `CreateStream`, `DestroyInactive`, `FinishRemove` |
| `activateAvbStream`, `addStreamToTransmitList` | `ActivateAvbStream`, `InsertStream`, `RequestInsert`, `FinishActivate` |
| `deactivateAvbStream`, `removeStreamFromTransmitList` | `DeactivateAvbStream`, `EraseStream`, `RequestErase`, `CheckRunning`, `WaitResponse`, `FinishRemove`; after a time-out the stream is put back |
| `start`, `stop`, `shutDown`, `IasThread::stop` | `Start`, `RequestStart`, `Stop`, `ShutDown`, `Join` |
| `IasThread::run`, `beforeRun`, `run` | `BeforeRun`, `EnterRun`, `OuterLoop`, `CheckRestart`, `ResetStream`, `ReactivateStream`, `FinishReset`, `InnerLoop`, `LinkDown`, `LinkUp`, `LoadFlags`, `StoreFlags`, `WorkerFails`, `EndWindow`, `TimeWarp`, `ExitInner` |
| `updateSequence` | `UpdateSequence`, `Respond` |
| `serviceStream`, `preparePacket`, the packet pool | `ServiceEmpty`, `Send`, `FetchDry`, `FetchPacket`, `FetchReset`, `FinishToggle` |

Abstracted: launch times (the worker may serve any stream of its sequence), link
state and PTP epoch (may change at any time), the shaper registers.

### `TransmitTiming`

The stamps of one transmit stream. `ref` is `mRefPlaneSampleTime` and what goes
with it, `master` the pair of count and time last read, `clk` the clock domain
as it is, `window` the sequencer's. `AudioPacket` and `ClockReferencePacket` are
`writeToAvbPacket` and `assemblePacket` of the two kinds, `WriteEnters`,
`Writing` (`WriteGivesUp`, `WriteDummy`, `Prepared`) the sequencer's call with
its retries; `InitTransmit` includes the checks of the parameters. The master
runs at a constant rate as long as it runs, so the quotients of the code are
exact; where it rounds (an event rate that is not the stream's frequency, AS:672
and CR:470) is left out.

### `ReceiveEngine` and `ReceiveWorker`

`ReceiveEngine` is what the worker does with a packet, `ReceiveWorker` where the
packet comes from. In the first a dispatch is one step, since the worker holds
`mLock`; the API looks streams up without it, so a call is several steps.

| code | actions of `ReceiveEngine` |
|---|---|
| `createReceive...Stream`, `createReceiveStream`, `bindMcastAddr` | `CreateReceive...Stream`, `InsertStream`, `BindMcastAddr` |
| `destroyAvbStream`, `connect...Streams`, `disconnectStreams`, clock domain | `DestroyAvbStream`; `LookUp`, `Connect`; `HookClockDomain` |
| `run`: dispatch, wildcard, time-out | `ReceivePacket`, `ReceiveForWildcard`, `ReceiveAndRekey`, `StreamTimeout` |
| underrun in the audio thread | `Underrun`, `SignalState`, `SignalClient` |

The three state machines of a receive stream (`AudioNewState`, `VideoNewState`,
`CrsNewState`), the countdown (`Validated`), what the client and the event
interface are told and the lock state of the stream's clock domain are parts of
each dispatch. `ReceiveWorker` (the build with `DIRECT_RX_DMA`) numbers the
pools, so that a buffer of a freed one can be told from a live one.

| code | actions of `ReceiveWorker` |
|---|---|
| `start`, `startIgbReceiveEngine` | `StartFindsPool`, `StartIgbReceiveEngine`, then `RxReturns`: `StartReceiveThread`, `StartThreadFails` |
| the handler's `start`, failed before this engine | `OtherStartFails` |
| `stop`, destructor, `stopIgbReceiveEngine` | `StopEngine`, `DeleteEngine`, then `ShutDownReceiver`, `JoinReceiver`, `DisableQueue`, `FreePool` |
| `IasThread::run`, `run` | `ReceiverBeforeRun`, `ReceiverCheckState`, `ReceiverLoop`, `AwaitLink`, `IdleCycle`, `ReceiveCycle`, `RefreshBuffer`, `TakePacket`, `NothingArrived`, `DispatchReceived` |
| resume, `emergencyShutdown` | `ResumeDevice`, `EmergencyShutdown` |
| the device, the link, another program | `DeviceReceives`, `LinkChanges`, `RxenLost` |

`start()` is called on a running engine, too: a `start()` of the handler that fails
in an engine after this one leaves the worker running (SH:2157, 2180), and the
next resume initialises the device (`ResumeDevice`) and starts it again, which
finds the pool in use, fails and frees it under the worker (RE:1702, 1827–1829).
The ghost `again` notes that the device was initialised under a running worker;
`ReceiveBuffersKept` is claimed until then.

### `PtpClock`

The base of the local time (`lastTime`, `lastTsc`, `factor`, `coeff`, `epoch`) under
`mLastTimeMutex`, the two clocks, and the last stamp of one receive clock domain
with its epoch. `getRealLocalTime` is the loop `CallReal`, `ReadAgain`,
`RealReturns`; `getLocalTime` extrapolates (`GetLocalTime`,
`GetLocalTimeUpdates`) or refreshes the base (`LocalCallsReal`,
`LocalTimeUpdated`); `CleanUp`, `CalculateConversionCoeffs` are the remaining
operations on the base. `factor` is `mTscToLocalFactor` in multiples of
1 / `Grain`: a span of the system clock is multiplied by it wherever the code does
(`Scaled`: `IasLibPtpDaemon.cpp:475`, 653). `Refresh` replaces the base and updates the factor
(`UpdateFactor`, lines 723–731) if the new one lies between 1/1.5 and 1.5 (`Believed`):
the first of an epoch is taken as it is, later ones move the old one towards the new
by an amount that `mAvgCoeff` decides and the model leaves open (`Smoothed`). After
a small step of the clock the factor is therefore wrong, as it is in the code.
`Update`, `AskForTime`, `UpdateInNewEpoch` are
`IasAvbRxStreamClockDomain::update`. `Tick` and `Warp` move the clocks. The ghosts
`unseen` (a step nobody has noticed), `pres` (the presentation time) and `read`
(the last local time handed out) are what the properties speak of.

### `ClockController` and `HwCapture`

The life of a controller (`New`, `Init...`, `Start...`, `Cleanup...`,
`ThreadDestructor`, `Deleted`), `IasThread`'s flags and join (`StopEnters`,
`ShutDown`, `ShutDownWakes`, `ShutDownFails`, `Join`, `RunEnters`, `Barrier`,
`CheckState`), `IasSignal` (`SignalRaised`, `SignalTaken`), the control loop
(`Loop`, `Wait`, `Measure`, `Switch`, `Store`) and the notifications of the clock
domains (`UpdateRateRatio`, `SetFilter`, `Notifying`). Ratios are floating point:
whether one is within a threshold is an input.

`HwCapture` counts time in edges; the device (`Edge`) holds the first unread
stamp, `ReadStamp` and `ReadLevel` are the two halves of a poll, `StartCapture`,
`StopCapture` and `CaptureEnds` the thread. `FirstPulse` and `NextPulse` are the
two cases of a rising edge; a distance half way between two numbers of pulses may
be rounded either way (`Pulses`). The ghost `mistaken` counts the falling edges that
were taken for rising ones because the pin had changed when it was read (HC:351–373,
which only logs it). `EventRate` is a multiple of `Nominal`: otherwise HC:396 rounds
every count down.

### `LocalAudioBuffer`, `AudioFifo` and `AlsaStream`

The sample ring of one channel. Every operation holds `mLock` throughout and is
one action (`Write`, `Read`, `Reset`, `Connect`). The two overloads of a copy
differ in when an index wraps: a block copy that ends exactly at the end leaves
it at `mTotalSize`, the loop for interleaved memory wraps at once. `Layouts` says
which ways the two ends of a buffer use; `UniformLayouts` are the combinations in
which an index at `mTotalSize` and one at 0 are never confused. The one left
out, blocks from the network read with a stride, is a receive stream with
interleaved shared memory, and there an empty ring reports `mTotalSize` samples
(AB:175; `ReceiveLayouts` of the MC module show it). `AudioFifo` is what the ring
promises: a queue of `mTotalSize - 1` samples with `Put`, `Get`, `SetLevel`;
`LocalAudioBuffer` instantiates it with `queue <- Contents`.

`AlsaStream` puts all channels together: rings, read indices, descriptors and
the reset request (`buf`), the pending descriptor (`pend`), the states of client,
worker and shared memory. A sample is its time. A packet that has to dump too often,
or whose dump leaves too many dummy samples to be compensated for, asks for a reset of
the stream (AS:844–868): `DumpsAfter`, `Broken`.

| code | actions |
|---|---|
| `writeToLocalAudioBuffer`, the receive half of the audio stream | `ReceivePacket`, `Interrupted` |
| `copyJob` of the two directions | `CopyJobRx`, `CopyJobTx` |
| `prepareAllPackets`, `assemblePacket`, activation | `SendPacket`, `ActivationChanged` |
| buffer state, underrun | `UpdateBufferStatus`, `SignalUnderrun` |
| worker and connection | `WorkerStarts`, `WorkerStops`, `ConnectStream`, `Disconnect` |
| the ALSA client, its IPC, time and epochs | `ClientAccess`, `IpcStartStop`, `Tick`, `NewEpoch` |

### `AlsaEngine`, `Watchdog` and `HwDevice`

The engine's calls as they wait for locks and threads (`AddAlsaStream`,
`CreateWithWorker`, `StartEngine`, `StopEngine`, `DestroyAlsaStream`, `Cleanup`
and their continuations), the cycle of a worker (`CycleInitialises`,
`CycleAdjusts`, `Diagnose`, `ProcessEnters`, `CopyJob`, `ProcessLeaves`,
`ClockFails`, `RunEnds`, `AfterRun`), the device thread's life (`HwStarted`,
`HwEnds`) and the supervision: `Watchdog` holds due times as time left, the
calls of supervised threads and the thread that tells systemd.

`HwDevice` is the ring between a device's thread and the copy job at its other
end (`CopyBegin`, `CopyEnd`), a sink or a source; the thread's cycle is
`DeviceAvailable`, `RingAvailable` or `FallBack`, `Measure`, `Transfer`, with
`Prefill` and `Refill`. The library's ring grants any part of what is available,
the device delivers any number of frames, times out or fails.

### `VideoStream`

Contents are numbered in the order in which they are handed over. The sender
(`SendPacket`), the thread of the local stream (`Thread...`), the local buffer of
packets (`WriteNew`, `WriteRecycled`, `TopPacket`), the transmit worker
(`PreparePacket`, `TakePacket`), the driver (`ReturnPacket`), the receiver
(`ReceiverReads`, `CallbackEnds`) and the calls that create, connect, stop and
remove, which wait for threads and packets.

### `StreamHandler`

`main()` as far as it drives the API, the service thread that executes one
command at a time on the same object, the stages of `init()` with the resources
each acquires, lazy creation of engines, the tables of network streams, local
streams and derived clock domains, and the API mutex. A call between its lock
and unlock is one step, but `start()` and `stop()` take one per engine. Any
creation may be refused.

### `Daemon`, `Configuration`, `ReferenceProfiles`, `CommandService`

`Daemon` composes the other three: `main()` reads its options, `Configuration`
parses the words for the plug-in (`ParseOption`, `EndOfOptions`) and makes one
call per row of the tables (`MakeCall`, `EndOfLoop`, `RecoverClock`, `CleanUp`),
`ReferenceProfiles` are the tables of the reference plug-in, `CommandService` the
chain of asynchronous operations of the service thread (`HandleAccept`,
`HandleRead`, `HandleWrite`) and the client processes (`Invoke`, `Connect`,
`Send`, `Finish`, `Interrupt`). There is one pass over the command line: what stands
before `-p` is stored in the tables of the moment and then replaced by the profile's.
A value of `-i`, `-o`, `-m` out of range is dropped; one of `-c` is stored as 65535
(`NewValue`). `--help`, unknown options and words end the process before anything is
set up (`ShowUsage`, SV:1379–1408, 1684). When `daemon()` fails, `main()` still starts
the service thread, without a handler (SV:1458–1466, 1543); a command that needs one
faults (`Faults`). Signals are delivered at any time and only set `shutdownReason`. The ghost `due`
says that a terminating one has come where `main()` still reads the reason; it does
not between its last reading and the return of `sigsuspend()` (`Window`).

## Runs

`tlc -config <run>.cfg <module>`. Each checks its module's properties together
with the fairness they need; the type invariants (`TypeOK`, ...) are proved or
part of the inductive invariants.

| run, module | shows |
|---|---|
| `RingSafety`, `MCVideoRingBuffer` | two readers: the writer never overwrites what a registered reader has to read (`NoOverwrite`), readers get the oldest unread packets (`InOrderDelivery`), a reader catches up unless the ring has been filled (`CatchUpUnlessFull`), a dead reader is dropped (`DeadReaderPurged`) |
| `TxSafety`, `MCTransmitSequencer` | two streams: the worker holds no destroyed stream (`NoDestroyedStream`), the bandwidth reserved is that of the active streams (`BandwidthExact`), a packet is in one place but for one more per fatal transmit error and one less per fetch over a packet without descriptor (`PacketsConserved`), a stop ends (`StopEnds`), an active stream is served (`ActiveIsServed`) |
| `RxSafety`, `MCReceiveEngine` | the stream map (`MapExact`), the countdown to valid (`ValidMeansContinuous`), what clients are told (`ClientConsistent`); the time stamps of received (`StampExact`) and sent packets (`StampsOnGrid`); the local time moves with the system clock within an epoch, whatever the factor between the two is taken for (`EpochBoundsError`) |
| `CrfRetry`, `MCTransmitTiming` | violation of `WriterReturns`: a clock reference stream without a clock keeps its mutex when it gives up with a dummy packet (CR:551), and the sequencer's next call for a packet never returns |
| `ClockSafety`, `MCClockController` | a controller's stop returns (`StopReturns`), a master that has stopped loses its lock (`StoppedMasterUnlocks`), the captured clock's count, off by one period at most per mistaken edge (`CaptureExact`) |
| `AlsaSafety`, `MCLocalAudioBuffer` | the ring is a queue (`ImplementsFifo`); channels stay together (`ChannelsAligned`), descriptors name the time of their sample and are never out of date (`DescriptorsExact`) |
| `AlsaPacketSize`, `MCAlsaStream` | violation of `PacketSizeKept`: disposing of old samples shrinks the packet size of a transmit stream for good, since the member is passed by reference (AS:888) |
| `EngineSafety`, `MCAlsaEngine` | every stream has exactly one worker (`ListsExact`), clients told "active" are served (`ActiveMeansServed`), calls return (`CallsReturn`), a hung worker ends the process (`HungIsKilled`) |
| `DeviceSafety`, `MCHwDevice` | the adjustment of the ASRC ring fits (`AdjustFits`), the destructor returns (`StopReturns`); no buffer of a freed pool is used and none lost until a resume finds the worker running (`ReceiveBuffersKept`), packets are dispatched and stops return (`ReceiverServes`) |
| `VideoSafety`, `MCVideoStream` | packets of the pool are in one place (`PacketsConserved`), contents go out in order (`InOrder`), a deleted pool is referred to from nowhere and nothing of it is left in the local buffer (`NothingGoneIsKept`), calls return (`CallsReturn`) |
| `HandlerSafety`, `MCStreamHandler` | engines follow the handler's state (`EnginesFollowState`), connections are mutual (`ConnectionsMatch`), `start()` never owns the mutex that the `stop()` it may have to call locks (`StartOwnsNoMutex`) |
| `DaemonSafety`, `MCDaemon` | set-up does what the command line says (`SetupAsOrdered`), a client gets its own answer (`AnswerIsOwn`), and gets one (`ClientsServed`), a terminating signal ends the daemon unless it falls between a reading of the reason and `sigsuspend()`, or another replaces it (`TerminationEnds`) |

`PROJECT.json` names for every property a plausible change of a modelled
definition ("mutants") that the run detects.

### Bounds

* Ring: 3 slots, so that one reader can be at the end while another is in the
  middle and the writer has wrapped; requests of 1 and 2 packets, 0 for
  `pushNull`. `Word = 16` stands for 2^32: it exceeds twice the ring, so the wrap
  of an unsigned difference can be told from a level. `Timeout = 0`: a reader may
  be purged at once.
* Transmit: two streams whose bandwidths 1 and 2 fit together exactly; one packet
  per pool makes every pool run dry; `MaxResetCount = 1` makes both outcomes of
  the retry happen. `MaxOutstanding = 1` bounds new calls, not the counter: a
  time-out, a restart and a start still raise it. `MaxErrors = 1`: one packet
  doubled or lost, before and after everything else; the theorem is for any number.
* Receive: two streams and two ids, one of them the wildcard, so that a re-keyed
  stream meets another; `Threshold = 2` lets a countdown be interrupted.
* Times: a round of 6 (`Wrap`) that a clock of up to 6, with presentation times up
  to 2 ahead of it, passes; steps of -5, 1 and 5 with a threshold of 1, so that
  one step is within and two beyond it; the factor in sixths (`Grain = 6`: 4 to 9, so
  that both ends of what is believed and rounded values between occur); transmission:
  9 units with up to two starts of the clock.
* Capture: 10 edges, enough for two pulses missed in a row next to mistaken edges
  and one more period.
* Audio ring: 4 cells, so that a copy can start in the middle, end at the end or
  wrap; blocks of 1, 2 and 4 samples of two values; thresholds 0, 2 and one
  beyond the ring, which is refused.
* ALSA stream: two channels; packets of 2 in periods of 3, so that every packet
  position in a period occurs and a descriptor may wait for its time when the client is
  activated; a ring of three periods overruns, since time stamps may lie 2 ahead of a clock
  that goes up to 11; `MaxDump = 1` and `MaxDummy = 2` let a packet dump once and ask
  for a reset, for either reason; `Threshold = 4` lets a transmit ring hold less than the
  threshold while dummy samples are to be discarded.
* ALSA engine: one worker with two streams whose periods are 2 and 3, so that one
  divides and one does not; `Limit = 2`, so that a worker may be late once.
* Device: periods of 4 frames, four of them; start-up of two cycles.
  Receive worker: pools of two buffers, two pools, so that a freed one can be
  met again; a packet that comes while the ring is drained. The watchdog and the
  recovery of the receiver are configured.
* Video: a pool of 4 packets, a local buffer of 6, TSPs in ones and threes for
  packets that hold two, 6 contents: enough to recycle, fill and drain the buffer.
* Handler: two ids per direction, up to three streams, local ids that wrap
  around after two; one derived clock domain.
* Daemon: every profile that fits together, lines edited before, after and without the
  profile, refused ones of each kind, `--help` and a `daemon()` that fails; two clients with three calls, a listen queue of one, two descriptors.

`CHECK_DEADLOCK FALSE` is given where the system may stop: an engine that is
stopped, a counter at its bound, a daemon that has ended.

### Fairness

* Threads are scheduled: every worker step is weakly fair. A call under way is
  weakly fair, or strongly where it waits for a lock that is free only between
  the steps of a worker (transmit, ALSA engine). Nothing obliges anybody to make
  a call.
* Ring: readers and the writer keep calling (they loop, with time-outs) and time
  passes; `EndRead`, `EndWrite` are strongly fair, since they wait for a mutex
  that is free again and again. A transmit window ends, as launch times advance.
* Controller: the capture thread goes on updating the slave; the master need not
  be updated, which is what `StoppedMasterUnlocks` is about.
* Receive worker: `ReceiveCycle` is strongly fair, because a cycle takes far less
  than the idle time; the device accepts a buffer in the end.
* Daemon: `main()` and the service thread are scheduled, clients connect and send
  once invoked.
* Video: threads and calls under way, the transmit worker and the driver go on.

## Proofs

Eight modules, checked by tlapm 1.4.5 from nothing. Each theorem is for every
value of the constants that the named assumption of its module allows. In all of
them the argument is the same: an inductive invariant that TLC checked first on
the run's instance, one lemma per action that can disturb it, and the property
as a consequence.

* **`VideoProofs`**. The shared ring (`SerialEnds`): `WriterNeverOverwrites`,
  `ReadersReadInOrder`, `LevelIsSound`, `ReadersLowerLevel`, `TypeCorrect`. The
  invariant says from which position `mBufferLevel` counts (`RingInv`), where each
  reader stands relative to it, also while the offsets are back to 0 and
  `mReadOffset` is not (`PositionInv`), what the register in `endAccess` may hold
  (`LocalInv`), that a grant is a stretch of unread packets (`GrantInv`) and that
  a stale level is too large rather than too small (`WriterInv`). The level is
  right only together with the positions.
  `VideoStream` (`"disconnect"`, `"service"`, `"dma"`), for any sizes of the rings,
  the packets and the pool: `VideoPacketsAreConserved`, and `NothingGoneIsLeft`: no
  packet of a deleted pool is in the local buffer and nobody points to it.
  `BufferInv` counts the slots from the reader's index: those below the fill level
  hold a packet, the others nothing at all, so that neither a recycled packet nor a
  reset leaves one behind. `ConnectedInv` says who may use the pool: it is set only
  while the streams are connected, a worker or a thread between check and use
  excludes a disconnect, and what is not connected holds nothing: the reset of a
  disconnect reaches every slot in use, which `BufferInv` needs to count right. `ContentsGoOutInOrder` (also `"cancel"`, without source packet
  headers): `OrderInv` puts everything that is under way into one line, last gone
  out, slots in the order of reading, what the thread has in hand, the rest of the
  shared ring. What makes it inductive is `ToCopy`: of a completely full ring the
  reader is granted nothing, copies the packet all the same and cannot release it,
  so that its contents exist twice; but it is then never woken up again. TLC checked
  both invariants on the run's instance (603 373 states; 617 160 with headers, where
  the order is not claimed).
* **`TransmitSequencerProofs`** (`AtomicToggle`): `DestroyIsSafe`,
  `FlagsAreConsistent`, `TypeCorrect` and, whatever `igb_xmit` returns,
  `PacketsAreConserved`, of which `FetchKeepsPackets` is the step that may lose one.
  `SafetyInv` follows the handshake: a stream that is
  erased but still in the sequence belongs to the call under way and its request
  is not answered (`HandshakeInv`); the worker toggles only streams it may touch
  (`ToggleInv`); `mActive` and `mActiveStreams` differ only for the stream of the
  call and the one being toggled (`FlagInv`).
  `BandwidthIsExact`, for any bandwidths: `BandwidthInv` says that what is reserved
  is the sum over the active streams and the stream that the call under way has
  charged and not yet inserted, or erased and not yet credited. A fold over a
  finite set is a `CHOOSE` of an order; that the sum does not depend on it is proved
  by the least cardinality for which it would (`SumsAgree`).
* **`LocalAudioProofs`**. The ring (layouts within `UniformLayouts`):
  `ImplementsQueue` (the refinement of `AudioFifo`, step by step),
  `CountersAreExact`, `ReadinessInTime`, `TypeCorrect`. The arithmetic modulo
  `Word` is first reduced to the distance of the indices; then each operation is
  followed on the indices and on the samples. The invariant is needed for one
  thing above all: a writer at the end of the ring never has a reader at its
  beginning, since that pair of indices looks like a full ring.
  The stream (`AlsaStream`, all five assumptions): `ChannelsStayAligned`,
  `DescriptorsAreExact`, for any number of channels and any sizes of packets, periods
  and rings with `Sized`: a packet is no longer than a period, and the read threshold
  is reached before a packet no longer fits. `StreamInv` contains both properties in
  one statement (`Fits`): there is one ring, one read index and one flag that all
  channels have, the descriptors follow each other without gap from the one the reader
  is in (`Described`) to the pending one, which ends with the last sample written and
  has its time or will get it from the next packet (`PendFits`, `MediaFollows`).
  The absence of gaps bounds the length of `mDescQ` (`FewDescriptors`), which is why no
  descriptor is lost; a ring with as much as the threshold is ready (`RingSized`),
  which is why an overrun is always met by a reset that reads. The loops over
  channels are functions whose intermediate values have the first channels treated
  and the others not (`Partly`); two such functions that agree from step to step
  end alike (`SameEnds`). TLC checked the same invariant, with the witnesses of
  `Fits` read off the first channel, on the run's instance (1 114 316 states),
  with more time for receiving (354 540) and for sending (1 929 808).
* **`ReceiveEngineProofs`** (`"lookup"`, `"callback"`): `ClientIsConsistent`; and `ValidIsContinuous`, if sequences are checked at all
  (`Mode # "never"`). `MapInv` sees the map from both ends and allows for the one
  stream that is created and not yet inserted; `CallsInPlace` and `ConnectedInv`
  say what an API call and the audio thread have in hand. `Continuous` relates
  the countdown to the packets in a row for a stream that is not yet valid: this
  is what makes the property inductive. The lemmas about the three state machines
  are for any packet, any state. `BuffersAreKept` (`ReceiveWorker`, for any starts, stops,
  resumes and failures, until a resume finds the worker running): between the end of `start()` and the end of `stop()` the device has buffers of
  the pool only, and all but the one in the worker's hands (`PoolWithDevice`); a
  filter is set only while there is a pool (`FilterWithPool`), which is what rules
  out that the device writes into a pool that `stop()` has freed.
* **`TimeProofs`**, the modules about clocks, stamps and the pace of a device; they
  share no state. `TimeIsBounded` (`PtpClock`, no assumption), an action property:
  between two reads in a row of the same epoch the time moves by 1/1.5 to 1.5 of what the
  system clock does, up to the thresholds. More cannot be promised, since the factor
  may be anything the code believes; what is excluded is that a step of the clock is
  handed out, or gets multiplied into the factor, without a new epoch.
  `ReadNearBase` relates the last read to the base it came from, for any factor. `StampIsExact`
  (`"reset"`, `"late"`) adds `PacketAhead`, the distance of a packet from the
  clock, and the arithmetic of a stamp and its round: `Extended` inverts the
  truncation for any value within half a round. `StampsAreOnGrid` (`"noticed"`),
  for any period, interval of stamps, packet time and margin: a stamp of a
  transmit stream is the next multiple of the interval after the one before, or
  the stream has started anew. `ReferenceInv` says that a stream with a reference
  plane follows its clock (`Follows`: pair and plane lie on events of the clock),
  or that the clock has restarted and its count is not yet beyond the old one, so
  that the next packet gives the plane up; `JudgedInv` says which stamp is due.
  `CaptureIsExact` (`HwCapture`, no assumption): `StampsInOrder` orders the edge
  latched, stamped and counted; `CountedClosely` says how far the count may be from the time between the first
  and the last edge counted, and lemmas evaluate the code's rounding of the number of
  missed pulses: between two rising edges it is exact, between a rising and a mistaken one
  half a period too high or too low. A mistaken edge is rounded before and after, which
  makes the one period of the property; `HalvesClose` keeps account of the half that is
  still to come while the edge counted last is a mistaken one. `AdjustmentFits` (`HwDevice`, `"paced"`, `NumPeriods # 1`):
  the count taken in an earlier step is a lower bound (`CountIsLow`), a granted
  access fits (`AccessFits`) and a source has nothing to offer before its ring is
  filled (`NothingBefore`). The hypothesis on `NumPeriods` is a fact about the code:
  HD:151 admits one period, for which the adjustment asserts; TLC shows it with
  `NumPeriods = 1`.
* **`AlsaEngineProofs`** (all four assumptions), for any ids, clock domains, periods,
  base period and number of workers: `ListsStayExact`, `ActiveIsServed`. Both
  speak of the moments between two calls; `AInv` says what holds while one is
  under way and every worker is anywhere in its cycle. It names what the call has
  in hand: the stream no worker serves yet, or no longer (`Detached`), the worker
  that has just lost its last stream (`Emptied`), the one that is told to stop
  (`Stopping`) and those still to be started or stopped (`Pending`). Outside of
  these every stream has one worker and every worker a stream (`ServedInv`,
  `ListInv`). `ThreadInv` says what a thread has read before it took the lock: its
  list of diagnostics is the worker's list, which nobody shortens meanwhile, and
  what it copies are streams it still serves. `StartedInv`, `PlaceInv` and
  `HandledInv` follow a call through its steps, `CleanInv` says what `cleanup()`
  leaves behind. TLC checked the invariant completely with one worker (437 233
  states) and with two (8.7 million). The lemmas on lists without repetitions (an
  element removed, appended, first place of an element) carry most of the steps.
* **`StreamHandlerProofs`**, for any number of ids and derived clock domains.
  `ConnectionsAreMutual` (`"tones"`): the property is inductive once the tables
  have their types (`TablesInv`), but every call has to be followed through both
  ends of a connection: a destroyed stream is disconnected from the other side, a
  reconnected one first from its old partner, an id that is given out is free in
  both tables. `StartIsUnlocked` (no assumption): `start()` does not own the API mutex,
  so that the `stop()` with which it answers a failure does not wait for itself.
  `LateMutex` says that nobody owns the mutex before it is on, and that it is on only
  with a server and after the only `start()` such a handler runs.
  `EnginesAreInStep` (all three): `MutexInv` says that, until the mutex is switched on,
  no client has called and that from then on its owner is whoever is inside;
  `HandlerInv` adds to it and to the tables which engines `start()`
  and `stop()` have passed, that an engine created late is started with a started
  handler, and that nothing outlives `cleanup()` (`EnginesInv`).
* **`DaemonProofs`** (no assumption): `AnswersAreOwn`, for any number of clients,
  calls and restarts of the daemon. `CommandInv` says that the listen queue holds
  every client at most once and never the one that is served (`QueueInv`), that
  the response string belongs to the client that is served (`ServedInv`), and what
  a client has received in each of its states (`ClientInv`). That a client waiting
  in the queue has no answer yet is what makes the property inductive.

Only model-checked:

* liveness under fairness and whatever needs ENABLED, out of the prover's reach;
* `SetupAsOrdered`, which compares the calls of the plug-in with a fold over the
  command line: induction over data;
* `MapExact`, which holds under `"lookup"` and `"callback"` only. The steps that matter
  most for the map, a re-keying between an API call's look at it and the use of what
  it found, are what `"lookup"` excludes (RE:383, 1275), so a proof would say little more
  than that the steps under the lock are right.

## What the models say about the code

`PROJECT.json` lists the two divergences that a run shows (`CrfRetry`,
`AlsaPacketSize`). The following were met while modelling. Where an assumption
excludes one, leaving it out shows it; the others are modelled as the code is, or
lie in what is abstracted (marked *).

* Ring: a full ring looks empty to `updateSmallerReaderOffset` (RB:496);
  overlapping `endAccess` calls (RB:459); a grant may exceed the request (RB:190,
  `IasAvbVideoRingBufferShm.hpp:87`).
* Transmission: destruction in the middle of the worker's restart of a stream
  (TS:1063), a lost end flag (TS:542), a packet returned twice after a fatal
  transmit error (TS:950) or fetched over without being returned (TS:978); `updateShaper` reads
  TQAVHC where TQAVCC holds the idle slope*.
* Reception: a `start()` of the handler that fails half way leaves running what it has
  started, because its `stop(false)` returns at once (SH:2157), and the next resume's
  start of the receive engine frees the packet pool under its worker (RE:1702, 1827); after a worker that ended by itself `stop()` keeps the pool, and the
  next start fails (RE:315); a new engine after a deleted one finds the queue
  disabled (RE:1850); the drain loop looks at `mEndThread` only between bursts
  (RE:1069); `errno` is read after a successful `igb_receive` (RE:1147)*.
* Time stamps: a late packet at the wrap of the 32-bit stamp (RX:155–160); a
  restart of the media clock that goes unnoticed (AS:1103, CR:578); the clock
  reference stream goes on sending stale stamps without a master (CR:616); event
  rates that are not the stream's frequency are truncated (AS:672, CR:470)*; the bit
  for a restart of the media clock is 0x04 when sent (CR:669–672), 0x40 when
  received (CR:880), and 0x08 in audio streams (AS:1510)*.
* Clocks: a falling edge is counted after a late poll (HC:360–373), which shifts the count by up
  to a period for good; a small step of the PTP clock is taken for a difference in rate
  and stays in `mTscToLocalFactor` (`IasLibPtpDaemon.cpp:723`–731); `shutDown()` of
  the controller fails when a signal is pending (CC:479, `IasThread.hpp:102`).
* Audio: an index at `mTotalSize` and one at 0 in an interleaved layout (AB:175); a
  stream that is not valid again after an underrun (AS:1711); when a new epoch has
  emptied the rings of a transmit stream that owes dummy samples, `dumpFromLocalAudioBuffer`
  finds fewer samples than the threshold, which it reports as discarded although the ring
  that is not ready gives none, so that `read == numSamples` (LAS:683) does not hold and
  `mDummySamplesSent` (AS:842) forgets them; periods that are written in parts, since the
  ring is nearly full, need more descriptors than `mDescQ` holds, so that the oldest is
  lost and the reader meets what LAS:606–616 calls impossible in theory, until the last
  samples in the ring have no descriptor and are not read any more; activating a
  receive client zeroes `mLastTimeStamp` (LAS:860) under a descriptor that waits
  to be interpolated from it (LAS:384); a null pointer for silence (HD:835, 1110,
  1214)*; one period admitted for the ASRC ring although the adjustment asserts
  (HD:151, HW:507); `cleanup()` of the ALSA engine ignores `forceDestruction`
  (AE:602); a watchdog that is not armed counts as invalid (WM:252,
  `IasSystemdWatchdogManager.hpp:114`).
* Daemon: a termination signal between a reading of the reason and `sigsuspend()` is lost, and
  one that another signal replaces (SV:1547–1614); after a failed `daemon()` clients are
  served with a null handler (SV:1458–1466, 1543); a number of channels that does not fit
  16 bits becomes 65535 (CB:241–260); the
  service ends at the first failed connection (SV:152, 167) and never closes one
  (SV:160); an unknown command is answered with the previous response (SV:137);
  a stale ready file stays (SV:1085); `-k` before
  `-p` is overwritten by the profile; the client's `--channels` sets the clock id
  (CL:964) and its exit code is always an error (CL:1213)*; two of the reference
  profiles connect to local video ids they do not create, and the test tones of
  both example profiles have an unsupported format.

## Not modelled

The clock driver (a plug-in interface without state of its own), the MRP daemon
proxy (a stub), the diagnostic packets and logging, stream ids and other value
types, the GStreamer plug-ins, the demo and debug applications and tests; of the
shared ring the factory and the connection object, whose state is the name of a
segment. Sample conversion, packet formats and shaper registers are data that no
property needs; the ratio of the clock controller is floating point and an input.
"components" in `PROJECT.json` names, for a part that is only partly modelled,
what is left out.

## Plan

What could follow: `"room"` and `"warp"` replaced by a model of how long a transmit
stream takes to recover; `SetupAsOrdered` over the fold's own recursion, once the
prover can do induction over sequences.
