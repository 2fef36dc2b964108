--------------------------- MODULE StreamHandler ---------------------------
(***************************************************************************)
(* The stream handler as a process: main() of the socket application,      *)
(* which initialises, starts, suspends, resumes, stops and deletes the     *)
(* IasAvbStreamHandler; the thread of the socket server, which executes    *)
(* one client command at a time on the same object; the environment        *)
(* resources init() acquires stage by stage; the engines that are created  *)
(* on demand; the tables of network streams, local streams and derived     *)
(* clock domains; and the API mutex, which is off until                    *)
(* activateMutexHandling().                                                *)
(*                                                                         *)
(* A call of the API between its lock and its unlock is one step of the    *)
(* thread that makes it, except start() and stop(), which take one step    *)
(* per engine. Abstracted: the parameters of the streams (a stream may be  *)
(* refused at any time), memory exhaustion, logging, the queries and       *)
(* parameter calls that leave the tables alone (Query).                    *)
(***************************************************************************)
EXTENDS Integers, Sequences, FiniteSets, FiniteSetsExt

CONSTANTS
  NetIds,     \* network stream ids
  MaxLocal,   \* local stream ids are 0 .. MaxLocal, uint16_t in the code
  MaxDomain,  \* derived clock domains are 1 .. MaxDomain
  MaxStreams, \* bound on the network and local streams at a time
  Nil,        \* NULL
  Assume      \* scheduling assumptions, see CallAllowed

ASSUME HandlerConstants ==
  /\ MaxLocal \in Nat \ {0} /\ MaxDomain \in Nat /\ MaxStreams \in Nat
  /\ Assume \subseteq {"startup", "shutdown", "tones"}

Engines == {"tx", "rx", "alsa", "video"}
Threads == {"main", "ipc"}
LocalIds == 1 .. MaxLocal
Slots == {"tx", "rx"} \X NetIds

\* what init() acquires, in this order
Stages == <<"plugin", "environment", "dlt", "driver", "ring", "igb", "ptp", "domains", "watchdog">>
Resources == {Stages[k] : k \in DOMAIN Stages}

VARIABLES
  mainPc,     \* where main() is
  stage,      \* the stage init() is at
  startIpc,   \* main() was called without --noipc
  resuming,   \* start() was called to resume
  terminate,  \* shutdownReason holds a signal other than SIGUSR1 and SIGUSR2
  held,       \* resources acquired and not released
  mState,
  engine,     \* "none": NULL, "idle", "running"
  net,        \* network streams: mAvbStreams of both engines
  audio,      \* local audio streams: those of mAlsaEngine and mTestToneStreams
  video,      \* local video streams of mVideoStreamInterface
  nextLocal,  \* mNextLocalStreamId
  domains,    \* ids of the derived clock domains in mAvbClockDomains
  mutexOn,    \* mApiMutexEnable
  owner,      \* who holds mApiMtx
  inside,     \* threads inside a function of the API
  ipcPc       \* where the server thread is

tables == <<net, audio, video, nextLocal, domains>>
handlerVars == <<mState, engine, tables>>
mutexVars == <<mutexOn, owner, inside>>
mainVars == <<mainPc, stage, startIpc, resuming, terminate, held>>
vars == <<mainVars, handlerVars, mutexVars, ipcPc>>

NetRecords == [kind : {"audio", "video", "crs"}, local : 0 .. MaxLocal, domain : 0 .. MaxDomain]
AudioRecords == [type : {"alsa", "tone"}, dir : {"tx", "rx"}, client : Slots \cup {Nil}]
VideoRecords == [type : {"video"}, dir : {"tx", "rx"}, client : Slots \cup {Nil}]

\* NULL is no object and no thread
ASSUME NilIsNothing ==
  Nil \notin Slots /\ Nil \notin Threads /\ Nil \notin NetRecords /\ Nil \notin AudioRecords \cup VideoRecords

Network(k) == [kind |-> k, local |-> 0, domain |-> 0]
Local(t, d) == [type |-> t, dir |-> d, client |-> Nil]

NetworkStreams == {s \in Slots : net[s] # Nil}
AudioInUse == {i \in LocalIds : audio[i] # Nil}
VideoInUse == {i \in LocalIds : video[i] # Nil}
SpaceLeft == Cardinality(NetworkStreams) + Cardinality(AudioInUse) + Cardinality(VideoInUse) < MaxStreams
Alive == mainPc \notin {"deleted", "exit"}

----------------------------------------------------------------------------
(* Creating the engines and the network streams                            *)

\* mutant: an engine that is created late is left for the next start()
CreatedIdle(e) == IF engine[e] # "none" THEN engine ELSE [engine EXCEPT ![e] = "idle"]

\* an engine that does not exist yet is created, and started if the handler is
\* started; the video interface is always started
Created(e) ==
  IF engine[e] # "none" THEN engine
  ELSE [engine EXCEPT ![e] = IF mState = "Started" \/ e = "video" THEN "running" ELSE "idle"]

\* the engine cannot be created or started and is deleted again
EngineRefused(e) == engine[e] = "none" /\ UNCHANGED <<engine, tables>>

CreateTransmitEngine == engine' = Created("tx")
CreateReceiveEngine == engine' = Created("rx")

\* the id is in use or the stream cannot be initialised or activated: nothing but the engine stays
StreamRefused == UNCHANGED tables

NewStream(s, k) ==
  /\ net[s] = Nil
  /\ SpaceLeft
  /\ net' = [net EXCEPT ![s] = Network(k)]
  /\ UNCHANGED <<audio, video, nextLocal, domains>>

\* streams that are sent; whether a stream is active is TransmitSequencer's
Transmit(k, i) ==
  \/ EngineRefused("tx")
  \/ CreateTransmitEngine /\ (StreamRefused \/ NewStream(<<"tx", i>>, k))

CreateTransmitAudioStream(i) == Transmit("audio", i)
CreateTransmitVideoStream(i) == Transmit("video", i)
CreateTransmitClockReferenceStream(i) == Transmit("crs", i)

\* a derived clock domain gets the next free id and is hooked to the stream
DeriveClockDomain(s, nets) ==
  LET free == (1 .. MaxDomain) \ domains IN
  \/ UNCHANGED domains /\ net' = nets
  \/ /\ free # {} /\ nets[s].domain = 0
     /\ domains' = domains \cup {Min(free)}
     /\ net' = [nets EXCEPT ![s].domain = Min(free)]

\* the registry may make the stream the master of a clock recovery; the stream stays when
\* the clock domain or the clock controller is then refused
CreateReceiveAudioStream(i) ==
  LET s == <<"rx", i>> IN
  \/ EngineRefused("rx")
  \/ CreateReceiveEngine /\ StreamRefused
  \/ /\ CreateReceiveEngine
     /\ net[s] = Nil /\ SpaceLeft
     /\ DeriveClockDomain(s, [net EXCEPT ![s] = Network("audio")])
     /\ UNCHANGED <<audio, video, nextLocal>>

CreateReceiveVideoStream(i) ==
  \/ EngineRefused("rx")
  \/ CreateReceiveEngine /\ (StreamRefused \/ NewStream(<<"rx", i>>, "video"))

CreateReceiveClockReferenceStream(i) ==
  LET s == <<"rx", i>> IN
  \/ EngineRefused("rx")
  \/ CreateReceiveEngine /\ StreamRefused
  \/ /\ CreateReceiveEngine
     /\ net[s] = Nil /\ SpaceLeft
     /\ DeriveClockDomain(s, [net EXCEPT ![s] = Network("crs")])
     /\ UNCHANGED <<audio, video, nextLocal>>

DeriveClockDomainFromRxStream(i) ==
  /\ net[<<"rx", i>>] # Nil
  /\ DeriveClockDomain(<<"rx", i>>, net)
  /\ UNCHANGED <<engine, audio, video, nextLocal>>

----------------------------------------------------------------------------
(* Connections: a network stream points to its local stream and the local  *)
(* stream to its client                                                    *)

Unhooked(f, i) == IF i = 0 THEN f ELSE [f EXCEPT ![i].client = Nil]

\* the local streams that are left when stream s lets go of the one it has
AudioWithout(s) == IF net[s].kind = "audio" THEN Unhooked(audio, net[s].local) ELSE audio
VideoWithout(s) == IF net[s].kind = "video" THEN Unhooked(video, net[s].local) ELSE video

Disconnected(s) ==
  /\ net' = [net EXCEPT ![s].local = 0]
  /\ audio' = AudioWithout(s) /\ video' = VideoWithout(s)

DestroyStream(i) ==
  /\ \E s \in Slots :
       /\ s = IF net[<<"tx", i>>] # Nil THEN <<"tx", i>> ELSE <<"rx", i>>
       /\ net[s] # Nil
       /\ net' = [net EXCEPT ![s] = Nil]
       /\ audio' = AudioWithout(s) /\ video' = VideoWithout(s)
  /\ UNCHANGED <<engine, nextLocal, domains>>

\* mutant: the local stream the network stream had keeps its client
ConnectKeepsOld(s, i, locals, f) ==
  \/ net[s].local = i /\ UNCHANGED <<net, audio, video>>
  \/ /\ net[s].local # i /\ locals[i].client = Nil
     /\ net' = [net EXCEPT ![s].local = i]
     /\ audio' = IF f = "audio" THEN [audio EXCEPT ![i].client = s] ELSE audio
     /\ video' = IF f = "video" THEN [video EXCEPT ![i].client = s] ELSE video

\* connectTo() of an audio or a video stream: it first lets go of the local stream it has
ConnectTo(s, i, locals, f) ==
  \/ net[s].local = i /\ UNCHANGED <<net, audio, video>>
  \/ net[s].local # i /\ Disconnected(s)       \* parameters differ
  \/ net[s].local # i /\ locals[i].client # Nil /\ Disconnected(s)
  \/ /\ net[s].local # i /\ locals[i].client = Nil
     /\ net' = [net EXCEPT ![s].local = i]
     /\ audio' = IF f = "audio" THEN [AudioWithout(s) EXCEPT ![i].client = s] ELSE audio
     /\ video' = IF f = "video" THEN [VideoWithout(s) EXCEPT ![i].client = s] ELSE video

ConnectStreams(i, l) ==
  /\ \/ \E s \in Slots :
          /\ audio[l] # Nil /\ s = <<audio[l].dir, i>>
          /\ net[s] # Nil /\ net[s].kind = "audio"
          /\ ConnectTo(s, l, audio, "audio")
     \/ \E s \in Slots :
          /\ video[l] # Nil /\ s = <<video[l].dir, i>>
          /\ net[s] # Nil /\ net[s].kind = "video"
          /\ ConnectTo(s, l, video, "video")
  /\ UNCHANGED <<engine, nextLocal, domains>>

Connectable(s) == net[s] # Nil /\ net[s].kind # "crs"

DisconnectStreams(i) ==
  /\ \E s \in Slots :
       /\ s = IF Connectable(<<"tx", i>>) THEN <<"tx", i>> ELSE <<"rx", i>>
       /\ Connectable(s)
       /\ Disconnected(s)
  /\ UNCHANGED <<engine, nextLocal, domains>>

----------------------------------------------------------------------------
(* Local streams                                                           *)

IsLocalStreamIdInUse(i) == i \in AudioInUse \cup VideoInUse

\* the counter is a uint16_t that wraps, and skips 0 and the ids in use
GetNextLocalStreamId ==
  LET after(k) == (nextLocal + k) % (MaxLocal + 1)
      free == {k \in 0 .. MaxLocal : after(k) # 0 /\ ~IsLocalStreamIdInUse(after(k))}
  IN after(Min(free))

SomeIdFree == \E i \in LocalIds : ~IsLocalStreamIdInUse(i)

\* id 0 asks for the next id; the counter moves even when the stream is refused
LocalId(req, i, taken) ==
  \/ req # 0 /\ i = req /\ i \notin taken /\ UNCHANGED nextLocal
  \/ /\ req = 0 /\ SomeIdFree
     /\ i = GetNextLocalStreamId /\ nextLocal' = (i + 1) % (MaxLocal + 1)

CreateAlsaStream(req, d) ==
  \/ EngineRefused("alsa")
  \/ /\ engine' = Created("alsa")
     /\ \E i \in LocalIds :
          /\ LocalId(req, i, AudioInUse \cup VideoInUse)
          /\ \/ SpaceLeft /\ audio' = [audio EXCEPT ![i] = Local("alsa", d)]
             \/ UNCHANGED audio
     /\ UNCHANGED <<net, video, domains>>

\* an id that is asked for is looked up among the audio streams only
CreateTestToneStream(req) ==
  /\ \E i \in LocalIds :
       /\ LocalId(req, i, AudioInUse)
       /\ \/ SpaceLeft /\ audio' = [audio EXCEPT ![i] = Local("tone", "tx")]
          \/ UNCHANGED audio
  /\ UNCHANGED <<engine, net, video, domains>>

CreateLocalVideoStream(req, d) ==
  \/ EngineRefused("video")
  \/ /\ engine' = Created("video")
     /\ \E i \in LocalIds :
          /\ LocalId(req, i, AudioInUse \cup VideoInUse)
          /\ \/ SpaceLeft /\ engine'["video"] = "running" /\ video' = [video EXCEPT ![i] = Local("video", d)]
             \/ UNCHANGED video
     /\ UNCHANGED <<net, audio, domains>>

\* a connected stream is refused: it is its client's
DestroyLocalStream(i) ==
  /\ \/ /\ audio[i] # Nil /\ audio[i].client = Nil
        /\ audio' = [audio EXCEPT ![i] = Nil] /\ UNCHANGED video
     \/ /\ audio[i] = Nil /\ video[i] # Nil /\ video[i].client = Nil
        /\ video' = [video EXCEPT ![i] = Nil] /\ UNCHANGED audio
  /\ UNCHANGED <<engine, net, nextLocal, domains>>

\* GetAvbStreamInfo, GetLocalStreamInfo, SetStreamActive, SetChannelLayout, SetTestToneParams,
\* CreateLocalVideoStream and SuspendStreamhandler, which the server does not implement, and every command the handler refuses
Query == UNCHANGED <<engine, tables>>

----------------------------------------------------------------------------
(* What the code does not enforce and an entry of Assume grants:            *)
(* "startup": a client sends its first command after main() has switched    *)
(* the API mutex on; "shutdown": no command is under way or sent once       *)
(* main() deletes the handler; "tones": the configuration asks for no       *)
(* test tone id that a video stream has.                                    *)
CallAllowed ==
  /\ "startup" \in Assume => mutexOn
  /\ "shutdown" \in Assume => mainPc # "deleted"

ToneId == {r \in 0 .. MaxLocal : "tones" \in Assume => r \notin VideoInUse}

\* the commands of the socket server's table, each executed by one call of the API
StreamCommand(c) ==
  \/ c = "CreateTransmitAvbAudioStream" /\ \E i \in NetIds : CreateTransmitAudioStream(i)
  \/ c = "CreateReceiveAudioStream" /\ \E i \in NetIds : CreateReceiveAudioStream(i)
  \/ c = "DestroyStream" /\ \E i \in NetIds : DestroyStream(i)

ConnectionCommand(c) ==
  \/ c = "CreateAlsaStream" /\ \E d \in {"tx", "rx"} : CreateAlsaStream(0, d)
  \/ c = "DestroyLocalStream" /\ \E l \in LocalIds : DestroyLocalStream(l)
  \/ c = "ConnectStreams" /\ \E i \in NetIds, l \in LocalIds : ConnectStreams(i, l)
  \/ c = "DisconnectStreams" /\ \E i \in NetIds : DisconnectStreams(i)

VideoCommand(c) ==
  \/ c = "CreateTransmitAvbVideoStream" /\ \E i \in NetIds : CreateTransmitVideoStream(i)
  \/ c = "CreateReceiveVideoStream" /\ \E i \in NetIds : CreateReceiveVideoStream(i)
  \/ c = "CreateTestToneStream" /\ CreateTestToneStream(0)

Commands ==
  {"CreateTransmitAvbAudioStream", "CreateReceiveAudioStream", "DestroyStream",
   "CreateAlsaStream", "DestroyLocalStream", "ConnectStreams", "DisconnectStreams",
   "CreateTransmitAvbVideoStream", "CreateReceiveVideoStream", "CreateTestToneStream", "Query"}

Execute(c) == Query \/ StreamCommand(c) \/ ConnectionCommand(c) \/ VideoCommand(c)

----------------------------------------------------------------------------
(* The API mutex                                                           *)

CanLock == mutexOn => owner = Nil

LockApiMutex(t) ==
  /\ CanLock
  /\ owner' = IF mutexOn THEN t ELSE owner
  /\ inside' = inside \cup {t}
  /\ UNCHANGED mutexOn

\* whoever unlocks releases the mutex, if it is on by now
UnlockApiMutex(t) ==
  /\ owner' = IF mutexOn THEN Nil ELSE owner
  /\ inside' = inside \ {t}
  /\ UNCHANGED mutexOn

ActivateMutexHandling ==
  /\ mainPc = "activate"
  /\ owner = Nil
  /\ mutexOn' = startIpc
  /\ mainPc' = "wait"
  /\ UNCHANGED <<stage, startIpc, resuming, terminate, held, handlerVars, owner, inside, ipcPc>>

----------------------------------------------------------------------------
(* The thread of the socket server                                         *)

Running == mainPc # "exit"

\* a connection is accepted and its request read
HandleRead ==
  /\ Running /\ ipcPc = "listen"
  /\ CallAllowed
  /\ ipcPc' = "called"
  /\ UNCHANGED <<mainVars, handlerVars, mutexVars>>

\* accepting a connection or reading the request fails: nothing is accepted any more
ServerEnds ==
  /\ Running /\ ipcPc = "listen"
  /\ ipcPc' = "ended"
  /\ UNCHANGED <<mainVars, handlerVars, mutexVars>>

CallEnters ==
  /\ Running /\ ipcPc = "called" /\ LockApiMutex("ipc")
  /\ ipcPc' = "inside" /\ UNCHANGED <<mainVars, handlerVars>>

CallExecutes ==
  /\ Running /\ ipcPc = "inside"
  /\ IF mState = "Dead" THEN Query ELSE \E c \in Commands : Execute(c)
  /\ ipcPc' = "leaving" /\ UNCHANGED <<mState, mainVars, mutexVars>>

\* the response is written and the next connection awaited
CallLeaves ==
  /\ Running /\ ipcPc = "leaving" /\ UnlockApiMutex("ipc")
  /\ ipcPc' = "listen" /\ UNCHANGED <<mainVars, handlerVars>>

Server == HandleRead \/ ServerEnds \/ CallEnters \/ CallExecutes \/ CallLeaves

----------------------------------------------------------------------------
(* main(): initialisation                                                  *)

Main(from, to) == mainPc = from /\ mainPc' = to

\* init() acquires the resource of the next stage; the ring size is only set
Acquire(r) ==
  /\ Main("init", "init") /\ stage \in DOMAIN Stages /\ Stages[stage] = r
  /\ held' = held \cup ({r} \ {"ring"}) /\ stage' = stage + 1
  /\ UNCHANGED <<startIpc, resuming, terminate, handlerVars, mutexVars, ipcPc>>

LoadPlugin == Acquire("plugin")
CreateEnvironment == Acquire("environment")
RegisterDltContexts == Acquire("dlt")
LoadClockDriver == Acquire("driver")
SetTxRingSize == Acquire("ring")
CreateIgbDevice == Acquire("igb")
CreatePtpProxy == Acquire("ptp")
CreateClockDomains == Acquire("domains")
CreateWatchdog == Acquire("watchdog")

InitStage ==
  \/ LoadPlugin \/ CreateEnvironment \/ RegisterDltContexts \/ LoadClockDriver \/ SetTxRingSize
  \/ CreateIgbDevice \/ CreatePtpProxy \/ CreateClockDomains \/ CreateWatchdog

\* the destructor of the environment: proxy, device, clock driver, contexts, watchdog
EnvironmentResources == {"environment", "dlt", "driver", "igb", "ptp", "watchdog"}

\* cleanup() deletes the engines with their streams, the domains, the environment, the plug-in
Cleanup ==
  /\ engine' = [e \in Engines |-> "none"]
  /\ net' = [s \in Slots |-> Nil]
  /\ audio' = [i \in LocalIds |-> Nil] /\ video' = [i \in LocalIds |-> Nil]
  /\ domains' = {} /\ UNCHANGED nextLocal
  /\ held' = held \ (EnvironmentResources \cup {"domains", "plugin"})
  /\ mState' = "Dead"

InitFails ==
  /\ Main("init", "spawn") /\ stage <= Len(Stages)
  /\ Cleanup /\ stage' = 0
  /\ UNCHANGED <<startIpc, resuming, terminate, mutexVars, ipcPc>>

Initialized ==
  /\ Main("init", "setup") /\ stage = Len(Stages) + 1
  /\ mState' = "Initialized" /\ stage' = 0
  /\ UNCHANGED <<startIpc, resuming, terminate, held, engine, tables, mutexVars, ipcPc>>

\* the configuration's setup() calls the API; it may ask for local ids of its own
Setup ==
  /\ Main("setup", "setup")
  /\ \/ \E c \in Commands : StreamCommand(c) \/ ConnectionCommand(c) \/ VideoCommand(c)
     \/ \E i \in NetIds : \/ CreateTransmitClockReferenceStream(i)
                          \/ CreateReceiveClockReferenceStream(i)
                          \/ DeriveClockDomainFromRxStream(i)
     \/ \E r \in 0 .. MaxLocal, d \in {"tx", "rx"} :
          CreateAlsaStream(r, d) \/ CreateLocalVideoStream(r, d)
     \/ \E r \in ToneId : CreateTestToneStream(r)
  /\ UNCHANGED <<stage, startIpc, resuming, terminate, held, mState, mutexVars, ipcPc>>

SetupFails ==
  /\ Main("setup", "spawn") /\ Cleanup
  /\ UNCHANGED <<stage, startIpc, resuming, terminate, mutexVars, ipcPc>>

SetupEnds ==
  /\ Main("setup", "spawn")
  /\ UNCHANGED <<stage, startIpc, resuming, terminate, held, handlerVars, mutexVars, ipcPc>>

\* the server's thread is started and detached whether or not init() succeeded
Spawn ==
  /\ Main("spawn", "check") /\ ipcPc' = "listen"
  /\ UNCHANGED <<stage, startIpc, resuming, terminate, held, handlerVars, mutexVars>>

\* a signal that has arrived by now, or a failed init(), ends the start-up
CheckStartup ==
  /\ Main("check", IF mState = "Dead" \/ terminate THEN "delete" ELSE "start")
  /\ UNCHANGED <<stage, startIpc, resuming, terminate, held, handlerVars, mutexVars, ipcPc>>

----------------------------------------------------------------------------
(* start() and stop() of the handler, one step per engine                  *)

MainCall == UNCHANGED <<stage, startIpc, held, tables, ipcPc>>

\* start() of a handler that is started does nothing
StartEnters ==
  /\ Main("start", IF mState = "Started" THEN "startDone" ELSE "startTx") /\ LockApiMutex("main")
  /\ MainCall /\ UNCHANGED <<resuming, terminate, mState, engine>>

EngineStarts(from, e, to) ==
  /\ Main(from, to)
  /\ engine' = [engine EXCEPT ![e] = IF @ = "none" THEN @ ELSE "running"]
  /\ MainCall /\ UNCHANGED <<resuming, terminate, mState, mutexVars>>

\* the transmit engine's sequencers, the receive engine's worker, the ALSA workers
StartTransmit == EngineStarts("startTx", "tx", "startRx")
StartReceive == EngineStarts("startRx", "rx", "startAlsa")
StartAlsa == EngineStarts("startAlsa", "alsa", "startDone")

\* resuming, the device, the PTP proxy or the clock driver fails; or an engine fails.
\* stop(false), called with the mutex held, does nothing: the handler is not started
StartFails ==
  /\ \/ mainPc = "startTx" /\ (engine["tx"] # "none" \/ resuming)
     \/ mainPc = "startRx" /\ engine["rx"] # "none"
  /\ CanLock
  /\ mainPc' = "stop" /\ UnlockApiMutex("main")
  /\ MainCall /\ UNCHANGED <<resuming, terminate, mState, engine>>

StartLeaves ==
  /\ Main("startDone", IF resuming THEN "wait" ELSE "activate")
  /\ mState' = "Started" /\ UnlockApiMutex("main")
  /\ resuming' = FALSE
  /\ MainCall /\ UNCHANGED <<terminate, engine>>

\* stop() of a handler that is not started does nothing
StopEnters ==
  /\ mainPc \in {"stop", "suspend"} /\ LockApiMutex("main")
  /\ mainPc' = IF mState = "Started" THEN "stopAlsa" ELSE "stopped"
  /\ resuming' = (mainPc = "suspend")
  /\ engine' = IF mState = "Started" /\ mainPc = "stop" /\ engine["video"] # "none"
               THEN [engine EXCEPT !["video"] = "idle"] ELSE engine
  /\ MainCall /\ UNCHANGED <<terminate, mState>>

EngineStops(from, e, to) ==
  /\ Main(from, to)
  /\ engine' = [engine EXCEPT ![e] = IF @ = "none" THEN @ ELSE "idle"]
  /\ MainCall /\ UNCHANGED <<resuming, terminate, mutexVars>>

StopAlsa == EngineStops("stopAlsa", "alsa", "stopTx") /\ UNCHANGED mState
StopTransmit == EngineStops("stopTx", "tx", "stopRx") /\ UNCHANGED mState
\* suspending ends with the initialisation of the clock driver, which may fail
StopReceive ==
  /\ \E to \in IF resuming THEN {"stopped", "failed"} ELSE {"stopped"} : EngineStops("stopRx", "rx", to)
  /\ mState' = "Initialized"

\* suspended, main() waits for the next signal; stopped for good, it deletes the handler
StopLeaves ==
  /\ mainPc \in {"stopped", "failed"} /\ UnlockApiMutex("main")
  /\ mainPc' = IF mainPc = "failed" THEN "stop" ELSE IF resuming THEN "wait" ELSE "delete"
  /\ resuming' = FALSE
  /\ MainCall /\ UNCHANGED <<terminate, mState, engine>>

----------------------------------------------------------------------------
(* main(): signals and the end                                             *)

\* mutant: suspending and resuming are not refused while the server runs
SignalAlways(s) ==
  /\ mainPc = "wait"
  /\ mainPc' = IF s = "TERM" THEN "stop" ELSE IF s = "USR1" THEN "suspend" ELSE "start"
  /\ resuming' = (s = "USR2")
  /\ UNCHANGED <<terminate, stage, startIpc, held, handlerVars, mutexVars, ipcPc>>

\* handleSignal() only writes shutdownReason; main() reads it when it checks the start-up and
\* when sigsuspend() returns, and a signal that arrives in between changes nothing
Signal(s) ==
  /\ \/ /\ mainPc \in {"spawn", "check"}
        /\ terminate' = (s = "TERM")
        /\ UNCHANGED <<mainPc, resuming>>
     \/ /\ mainPc = "wait"
        /\ mainPc' = IF s = "TERM" THEN "stop"
                     ELSE IF startIpc THEN "wait"
                     ELSE IF s = "USR1" THEN "suspend" ELSE "start"
        /\ resuming' = (s = "USR2" /\ ~startIpc)
        /\ UNCHANGED terminate
  /\ UNCHANGED <<stage, startIpc, held, handlerVars, mutexVars, ipcPc>>

\* the handler is deleted under the server's thread, which is detached
Delete ==
  /\ Main("delete", "deleted")
  /\ "shutdown" \in Assume => ipcPc \in {"listen", "ended"}
  /\ Cleanup
  /\ UNCHANGED <<stage, startIpc, resuming, terminate, mutexVars, ipcPc>>

Exit ==
  /\ Main("deleted", "exit")
  /\ UNCHANGED <<stage, startIpc, resuming, terminate, held, handlerVars, mutexVars, ipcPc>>

Ended == mainPc = "exit" /\ UNCHANGED vars

MainThread ==
  \/ InitStage \/ InitFails \/ Initialized \/ Setup \/ SetupFails \/ SetupEnds
  \/ Spawn \/ CheckStartup \/ ActivateMutexHandling
  \/ StartEnters \/ StartTransmit \/ StartReceive \/ StartAlsa \/ StartFails \/ StartLeaves
  \/ StopEnters \/ StopAlsa \/ StopTransmit \/ StopReceive \/ StopLeaves \/ Delete \/ Exit

Init ==
  /\ mainPc = "init" /\ stage = 1 /\ startIpc \in BOOLEAN /\ resuming = FALSE /\ terminate = FALSE
  /\ held = {}
  /\ mState = "Dead" /\ engine = [e \in Engines |-> "none"]
  /\ net = [s \in Slots |-> Nil]
  /\ audio = [i \in LocalIds |-> Nil] /\ video = [i \in LocalIds |-> Nil]
  /\ nextLocal = 1 /\ domains = {}
  /\ mutexOn = FALSE /\ owner = Nil /\ inside = {}
  /\ ipcPc = "off"

Next == MainThread \/ Server \/ (\E s \in {"TERM", "USR1", "USR2"} : Signal(s)) \/ Ended

Spec == Init /\ [][Next]_vars

----------------------------------------------------------------------------
(* Properties                                                              *)

Stopped == {"init", "setup", "spawn", "check", "start", "delete"}

\* types of the variables
TypeOK ==
  /\ mainPc \in Stopped \cup {"startTx", "startRx", "startAlsa", "startDone", "activate", "wait", "stop",
        "suspend", "stopAlsa", "stopTx", "stopRx", "stopped", "failed", "deleted", "exit"}
  /\ stage \in 0 .. Len(Stages) + 1 /\ startIpc \in BOOLEAN /\ resuming \in BOOLEAN
  /\ terminate \in BOOLEAN /\ held \subseteq Resources
  /\ mState \in {"Dead", "Initialized", "Started"}
  /\ engine \in [Engines -> {"none", "idle", "running"}]
  /\ net \in [Slots -> NetRecords \cup {Nil}]
  /\ audio \in [LocalIds -> AudioRecords \cup {Nil}] /\ video \in [LocalIds -> VideoRecords \cup {Nil}]
  /\ nextLocal \in 0 .. MaxLocal /\ domains \subseteq 1 .. MaxDomain
  /\ mutexOn \in BOOLEAN /\ owner \in Threads \cup {Nil} /\ inside \subseteq Threads
  /\ ipcPc \in {"off", "listen", "called", "inside", "leaving", "ended"}

\* main() outside start() and stop(): a started handler has no engine that was created and
\* never started, and a handler that is not started has none that runs, unless start() has
\* failed (mainPc = "stop"): isStarted() is what every lazy creation relies on. What init()
\* acquired is released on every path to the end of the process, and no engine, stream or clock
\* domain outlives the handler.
EnginesFollowState ==
  /\ TypeOK
  /\ \A e \in {"tx", "rx", "alsa"} :
       /\ mainPc \in {"activate", "wait"} /\ mState = "Started" => engine[e] # "idle"
       /\ mState # "Started" /\ mainPc \in (Stopped \ {"delete"}) \cup {"wait"} => engine[e] # "running"
  /\ ~Alive => /\ held = {} /\ domains = {} /\ NetworkStreams = {}
               /\ AudioInUse \cup VideoInUse = {} /\ \A e \in Engines : engine[e] = "none"

\* a network stream and its local stream point at each other, whatever sequence of connects,
\* disconnects and destroys has run: nobody holds a pointer to a deleted stream. And a local id
\* names one stream, also when the id counter has wrapped around
ConnectionsMatch ==
  /\ AudioInUse \cap VideoInUse = {}
  /\ \A s \in NetworkStreams : net[s].local # 0 =>
       LET l == IF net[s].kind = "audio" THEN audio[net[s].local] ELSE video[net[s].local] IN
       l # Nil /\ l.client = s /\ l.dir = s[1] /\ net[s].kind # "crs"
  /\ \A i \in AudioInUse : audio[i].client # Nil => net[audio[i].client] # Nil /\ net[audio[i].client].local = i
  /\ \A i \in VideoInUse : video[i].client # Nil => net[video[i].client] # Nil /\ net[video[i].client].local = i

\* start() calls stop() when an engine fails, and stop() locks the API mutex, which is not
\* recursive: start() must not own it. It is switched on after the only start() that runs with
\* a server, and a handler with a server is never suspended and resumed. This holds whenever the
\* clients call, also before the mutex is on and while the handler is deleted.
StartOwnsNoMutex == mainPc \in {"startTx", "startRx", "startAlsa"} => owner # "main"
=============================================================================
