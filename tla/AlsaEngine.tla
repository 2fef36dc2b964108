----------------------------- MODULE AlsaEngine -----------------------------
(***************************************************************************)
(* IasAlsaEngine: the ALSA streams of the stream handler and the worker    *)
(* threads that serve them. Streams of one clock domain whose periods are  *)
(* multiples of a worker's period share that worker; a worker is created   *)
(* for the first and deleted with the last of its streams. The module      *)
(* models the engine's operations as they wait for locks and threads,      *)
(* the cycle of IasAlsaWorkerThread, the thread an IasAlsaHwDeviceHandler  *)
(* has besides, and the workers' watchdogs (module Watchdog).              *)
(*                                                                         *)
(* A stream's period is in units of the sample frequency, its name, layout *)
(* and buffer sizes are left out; what copyJob moves is in AlsaStream.     *)
(***************************************************************************)
EXTENDS Watchdog, Sequences, SequencesExt

CONSTANTS
  Ids,        \* ids of local streams; the API facade never hands out one twice
  Domains,    \* clock domains
  Periods,    \* periods streams may have
  BasePeriod, \* alsa.baseperiod
  Assume      \* restrictions on the environment: see Assumed

Workers == Clients  \* a worker is supervised by the watchdog of the same name

ASSUME EngineConstants ==
  Ids \subseteq Nat /\ Periods \subseteq Nat \ {0} /\ BasePeriod \in Nat \ {0}
  /\ Assume \subseteq {"start", "diagnosis", "restart", "connected"}

VARIABLES
  engine,  \* [init, started]: mIsInitialized, mIsStarted
  stream,  \* stream[id]: the stream with that id, NoStream if there is none
  hw,      \* hw[id]: the thread of the HW device handler with that id
  worker,  \* worker[w]: the worker thread object
  list,    \* mWorkerThreads
  api,     \* where the thread in the engine is, with what it works on
  crashed  \* a deleted object has been used: undefined behaviour

engineVars == <<engine, stream, hw, worker, list, api, crashed>>
vars == <<engineVars, wdVars>>

NoStream == [kind |-> "none", dom |-> "none", period |-> 0, connected |-> FALSE, active |-> FALSE]

\* streams: mAlsaStreams; keep: mKeepRunning; thread: IasThread's state, "alive" with the
\* running flag set, "leaving" before afterRun(), "gone" until it is joined; pc and todo:
\* where run() is; first: initInterval; failed: history, the thread has ended by itself
NoWorker == [dom |-> "none", period |-> 0, streams |-> <<>>, keep |-> FALSE, thread |-> "none",
             pc |-> "top", todo |-> <<>>, first |-> TRUE, failed |-> FALSE]

Idle == [pc |-> "idle", op |-> "none", id |-> 0, w |-> 0, todo |-> <<>>]

\* What is assumed of the environment. start: pthread_create does not fail for a
\* stream created while the engine runs; diagnosis: no stream comes or goes while
\* its worker counts a deviation; restart: a worker that has ended by itself is out of
\* afterRun() when it is started again; connected: cleanup() finds no connected stream.
Assumed(a) == a \in Assume

Init ==
  /\ engine = [init |-> FALSE, started |-> FALSE]
  /\ stream = [id \in Ids |-> NoStream]
  /\ hw = [id \in Ids |-> "off"]
  /\ worker = [w \in Workers |-> NoWorker]
  /\ list = <<>> /\ api = Idle /\ crashed = FALSE
  /\ InitWatchdog

Streams == {id \in Ids : stream[id].kind # "none"}

\* process() holds the worker's mLock
Locked(w) == worker[w].pc \in {"copy", "hung"}

InDiagnosis(w) == Assumed("diagnosis") /\ worker[w].pc = "diagnose"

----------------------------------------------------------------------------
(* Operations of the engine. One thread is in the engine at a time: mLock  *)
(* and, around it, the mutex of the API.                                   *)

InitEngine ==
  /\ api = Idle /\ ~engine.init
  /\ engine' = [engine EXCEPT !.init = TRUE]
  /\ UNCHANGED <<stream, hw, worker, list, api, crashed, wdVars>>

\* checkParameter(): the period is a multiple of the base period
Multiple(period, base) == period \div base >= 1 /\ period % base = 0

Matches(w, dom, period) == worker[w].dom = dom /\ Multiple(period, worker[w].period)

\* the first worker of the list the stream fits
MatchingWorker(dom, period) ==
  LET fits == {i \in 1 .. Len(list) : Matches(list[i], dom, period)}
  IN IF fits = {} THEN 0 ELSE list[CHOOSE i \in fits : \A j \in fits : i <= j]

NewStream(kind, dom, period) == [NoStream EXCEPT !.kind = kind, !.dom = dom, !.period = period]

NewWorker(id, dom, period) ==
  [NoWorker EXCEPT !.dom = dom, !.streams = <<id>>,
                   !.period = IF Multiple(period, BasePeriod) THEN BasePeriod ELSE period]

\* createAlsaStream() finds a worker and will add the stream
CreateForWorker(id, kind, dom, period) ==
  LET w == MatchingWorker(dom, period) IN
  /\ api = Idle /\ engine.init /\ id \notin Streams
  /\ w # 0
  /\ stream' = [stream EXCEPT ![id] = NewStream(kind, dom, period)]
  /\ api' = [Idle EXCEPT !.pc = "add", !.op = "create", !.id = id, !.w = w]
  /\ UNCHANGED <<engine, hw, worker, list, crashed, wdVars>>

\* start() of a HW device handler, which may fail and is then only logged
HwStarted(id) == hw' = [hw EXCEPT ![id] = "on"] \/ hw' = hw
Created(id) == IF stream[id].kind = "hw" THEN HwStarted(id) ELSE hw' = hw

\* mutant: the stream is taken for served whether the thread runs or not
AddedAsActive(w) == TRUE

AddedActive(w) == worker[w].thread = "alive"

\* addAlsaStream()
AddAlsaStream ==
  LET w == api.w IN
  /\ api.pc = "add" /\ ~Locked(w) /\ ~InDiagnosis(w)
  /\ worker' = [worker EXCEPT ![w].streams = <<api.id>> \o @]
  /\ stream' = [stream EXCEPT ![api.id].active = AddedActive(w)]
  /\ Created(api.id)
  /\ api' = Idle
  /\ UNCHANGED <<engine, list, crashed, wdVars>>

\* createAlsaStream() creates a worker for the stream, with its watchdog, and starts it
\* if the engine is started
CreateWithWorker(id, kind, dom, period) ==
  \E w \in Workers :
    /\ api = Idle /\ engine.init /\ id \notin Streams
    /\ MatchingWorker(dom, period) = 0
    /\ w \notin Range(list)
    /\ \A v \in Workers \ Range(list) : w <= v
    /\ stream' = [stream EXCEPT ![id] = NewStream(kind, dom, period)]
    /\ worker' = [worker EXCEPT ![w] = NewWorker(id, dom, period)]
    /\ list' = Append(list, w)
    /\ CreateWatchdog(w)
    /\ IF engine.started
       THEN /\ api' = [Idle EXCEPT !.pc = "start", !.op = "create", !.id = id, !.w = w]
            /\ hw' = hw
       ELSE /\ api' = Idle
            /\ IF kind = "hw" THEN HwStarted(id) ELSE hw' = hw
    /\ UNCHANGED <<engine, crashed>>

\* the operation goes on with the next worker, or is done
NextWorker(pc) ==
  IF api.todo = <<>> THEN Idle
  ELSE [api EXCEPT !.pc = pc, !.w = Head(api.todo), !.todo = Tail(api.todo)]

AllWorkers(pc, op) ==
  IF list = <<>> THEN Idle
  ELSE [Idle EXCEPT !.pc = pc, !.op = op, !.w = Head(list), !.todo = Tail(list)]

\* start() of the engine, which the API facade calls for an engine that is not started
StartEngine ==
  /\ api = Idle /\ engine.init /\ ~engine.started
  /\ api' = AllWorkers("start", "start")
  /\ engine' = [engine EXCEPT !.started = (list = <<>>)]
  /\ UNCHANGED <<stream, hw, worker, list, crashed, wdVars>>

\* start() of the worker up to IasThread::start(); its thread does not run then
StartWorker ==
  LET w == api.w IN
  /\ api.pc = "start"
  /\ Assumed("restart") => worker[w].thread # "leaving"
  /\ worker' = [worker EXCEPT ![w].keep = TRUE]
  /\ api' = [api EXCEPT !.pc = "create thread"]
  /\ UNCHANGED <<engine, stream, hw, list, crashed, wdVars>>

SetWorkerActive(w, active) ==
  [id \in Ids |-> IF id \in Range(worker[w].streams) /\ id \in Streams
                  THEN [stream[id] EXCEPT !.active = active] ELSE stream[id]]

Started == IF api.op = "start" /\ api.todo = <<>> THEN [engine EXCEPT !.started = TRUE] ELSE engine

\* IasThread::start() joins a thread that has ended by itself and creates a new one
ThreadStarts ==
  LET w == api.w IN
  /\ api.pc = "create thread" /\ worker[w].thread \in {"none", "gone"}
  /\ worker' = [worker EXCEPT ![w].thread = "alive", ![w].pc = "top", ![w].first = TRUE,
                              ![w].failed = FALSE]
  /\ stream' = SetWorkerActive(w, TRUE)
  /\ IF api.op = "create" THEN Created(api.id) ELSE hw' = hw
  /\ engine' = Started
  /\ api' = NextWorker("start")
  /\ UNCHANGED <<list, crashed, wdVars>>

\* no thread can be created: start() of the engine goes on, createAlsaStream() deletes
\* the stream, which its worker keeps, and starts the device handler it no longer has
ThreadFails ==
  LET w == api.w IN
  /\ api.pc = "create thread" /\ worker[w].thread \in {"none", "gone"}
  /\ Assumed("start") => api.op = "start"
  /\ worker' = [worker EXCEPT ![w].thread = "none"]
  /\ stream' = IF api.op = "create" THEN [stream EXCEPT ![api.id] = NoStream] ELSE stream
  /\ crashed' = (api.op = "create" /\ stream[api.id].kind = "hw")
  /\ engine' = Started
  /\ api' = NextWorker("start")
  /\ UNCHANGED <<hw, list, wdVars>>

\* stop() of the engine, which the API facade calls for an engine that is started
StopEngine ==
  /\ api = Idle /\ engine.init /\ engine.started
  /\ api' = AllWorkers("stop", "stop")
  /\ engine' = [engine EXCEPT !.started = (list # <<>>)]
  /\ UNCHANGED <<stream, hw, worker, list, crashed, wdVars>>

\* what follows when worker api.w has been stopped
AfterStop ==
  CASE api.op = "stop" -> NextWorker("stop")
    [] api.op = "cleanup" -> IF api.todo = <<>> THEN [Idle EXCEPT !.pc = "next", !.op = "cleanup"]
                             ELSE NextWorker("stop")
    [] OTHER -> [api EXCEPT !.pc = "delete"]

Stopped == IF api.op = "stop" /\ api.todo = <<>> THEN [engine EXCEPT !.started = FALSE] ELSE engine

\* mutant: stop() leaves mKeepRunning set
ShutDownKeeps(w) == worker[w].keep

\* shutDown(), which IasThread::stop() calls
ShutDown(w) == FALSE

\* stop() of the worker finds its thread running
StopWorker ==
  LET w == api.w IN
  /\ api.pc = "stop" /\ ~Locked(w) /\ worker[w].thread = "alive"
  /\ stream' = SetWorkerActive(w, FALSE)
  /\ worker' = [worker EXCEPT ![w].keep = ShutDown(w)]
  /\ api' = [api EXCEPT !.pc = "join"]
  /\ UNCHANGED <<engine, hw, list, crashed, wdVars>>

\* or not running, and does not wait for it
StopIdleWorker ==
  LET w == api.w IN
  /\ api.pc = "stop" /\ ~Locked(w) /\ worker[w].thread # "alive"
  /\ stream' = SetWorkerActive(w, FALSE)
  /\ engine' = Stopped
  /\ api' = AfterStop
  /\ UNCHANGED <<hw, worker, list, crashed, wdVars>>

Joinable(w) == worker[w].thread = "gone"

Join ==
  /\ api.pc = "join" /\ Joinable(api.w)
  /\ worker' = [worker EXCEPT ![api.w].thread = IF @ = "gone" THEN "none" ELSE @]
  /\ engine' = Stopped
  /\ api' = AfterStop
  /\ UNCHANGED <<stream, hw, list, crashed, wdVars>>

WorkerOf(id) == CHOOSE w \in Workers : id \in Range(worker[w].streams)

\* destroyAlsaStream() of a stream that is not connected; a connected one is refused
DestroyAlsaStream(id) ==
  /\ api = Idle /\ engine.init /\ id \in Streams /\ ~stream[id].connected
  /\ api' = [Idle EXCEPT !.pc = "remove", !.op = "destroy", !.id = id, !.w = WorkerOf(id)]
  /\ UNCHANGED <<engine, stream, hw, worker, list, crashed, wdVars>>

RemoveStream(w, id) == RemoveFirst(worker[w].streams, id)

\* mutant: a worker without streams is kept
LastIsKept(streams) == FALSE

LastStream(streams) == streams = <<>>

\* removeAlsaStream(); the last stream takes the worker with it
RemoveAlsaStream ==
  LET w == api.w
      left == RemoveStream(w, api.id)
  IN /\ api.pc = "remove" /\ ~Locked(w) /\ ~InDiagnosis(w)
     /\ worker' = [worker EXCEPT ![w].streams = left]
     /\ api' = [api EXCEPT !.pc = IF LastStream(left) THEN "stop" ELSE "drop"]
     /\ UNCHANGED <<engine, stream, hw, list, crashed, wdVars>>

\* the worker's cleanup(): its thread is joined, its watchdog destroyed
DeleteWorker ==
  LET w == api.w IN
  /\ api.pc = "delete" /\ worker[w].thread \in {"none", "gone"}
  /\ worker' = [worker EXCEPT ![w] = NoWorker]
  /\ list' = RemoveFirst(list, w)
  /\ DestroyWatchdog(w)
  /\ IF api.op = "cleanup"
     THEN /\ api' = NextWorker("delete")
          /\ engine' = IF api.todo = <<>> THEN [init |-> FALSE, started |-> FALSE] ELSE engine
     ELSE /\ api' = [api EXCEPT !.pc = "drop"]
          /\ engine' = engine
  /\ UNCHANGED <<stream, hw, crashed>>

AfterDrop == IF api.op = "purge" THEN [Idle EXCEPT !.pc = "next", !.op = "cleanup"] ELSE Idle

\* the stream is deleted
DropStream ==
  /\ api.pc = "drop" /\ hw[api.id] # "on"
  /\ stream' = [stream EXCEPT ![api.id] = NoStream]
  /\ hw' = [hw EXCEPT ![api.id] = "off"]
  /\ api' = AfterDrop
  /\ UNCHANGED <<engine, worker, list, crashed, wdVars>>

\* the destructor of a HW device handler stops its thread first
DropStopsHw ==
  /\ api.pc = "drop" /\ hw[api.id] = "on"
  /\ hw' = [hw EXCEPT ![api.id] = "stopping"]
  /\ api' = [api EXCEPT !.pc = "drop join"]
  /\ UNCHANGED <<engine, stream, worker, list, crashed, wdVars>>

DropJoins ==
  /\ api.pc = "drop join" /\ hw[api.id] = "gone"
  /\ stream' = [stream EXCEPT ![api.id] = NoStream]
  /\ hw' = [hw EXCEPT ![api.id] = "off"]
  /\ api' = AfterDrop
  /\ UNCHANGED <<engine, worker, list, crashed, wdVars>>

\* cleanup() stops the workers first
Cleanup ==
  /\ api = Idle /\ engine.init
  /\ Assumed("connected") => \A id \in Streams : ~stream[id].connected
  /\ api' = IF list = <<>> THEN [Idle EXCEPT !.pc = "next", !.op = "cleanup"]
            ELSE AllWorkers("stop", "cleanup")
  /\ UNCHANGED <<engine, stream, hw, worker, list, crashed, wdVars>>

\* the stream cleanup() destroys next: virtual devices first, the smallest id first
FirstOf(S) == CHOOSE id \in S : \A other \in S : id <= other
NextToDestroy ==
  LET virtual == {id \in Streams : stream[id].kind = "virtual"}
  IN IF virtual # {} THEN FirstOf(virtual) ELSE FirstOf(Streams)

Destroyable == Streams # {} /\ ~stream[NextToDestroy].connected

CleanupDestroys ==
  /\ api.pc = "next" /\ Destroyable
  /\ api' = [Idle EXCEPT !.pc = "remove", !.op = "purge", !.id = NextToDestroy,
                         !.w = WorkerOf(NextToDestroy)]
  /\ UNCHANGED <<engine, stream, hw, worker, list, crashed, wdVars>>

\* nothing is left, or the next stream is still connected: the maps are cleared, then the
\* workers that are left are deleted
CleanupClears ==
  /\ api.pc = "next" /\ ~Destroyable
  /\ stream' = [id \in Ids |-> NoStream]
  /\ api' = AllWorkers("delete", "cleanup")
  /\ engine' = IF list = <<>> THEN [init |-> FALSE, started |-> FALSE] ELSE engine
  /\ UNCHANGED <<hw, worker, list, crashed, wdVars>>

\* an AVB stream is connected to the local stream, or disconnected from it
SetConnected(id, connected) ==
  /\ api = Idle /\ id \in Streams /\ stream[id].connected # connected
  /\ stream' = [stream EXCEPT ![id].connected = connected]
  /\ UNCHANGED <<engine, hw, worker, list, api, crashed, wdVars>>

----------------------------------------------------------------------------
(* The worker's thread: run() of IasAlsaWorkerThread                       *)

At(w, pc) == worker[w].thread = "alive" /\ worker[w].pc = pc

\* the loop ends
RunEnds(w) ==
  /\ At(w, "top") /\ ~worker[w].keep
  /\ UnregisterWatchdog(w)
  /\ worker' = [worker EXCEPT ![w].thread = "leaving"]
  /\ UNCHANGED <<engine, stream, hw, list, api, crashed>>

\* the system clock cannot be read: the thread ends by itself
ClockFails(w) ==
  /\ At(w, "top") /\ worker[w].keep
  /\ UnregisterWatchdog(w)
  /\ worker' = [worker EXCEPT ![w].keep = FALSE, ![w].thread = "leaving", ![w].failed = TRUE]
  /\ UNCHANGED <<engine, stream, hw, list, api, crashed>>

\* the sleep interval is initialised: the first cycle, the thread slept too long, the
\* master's count went back, the time base changed
CycleInitialises(w) ==
  /\ At(w, "top") /\ worker[w].keep
  /\ worker' = [worker EXCEPT ![w].pc = "process", ![w].first = FALSE]
  /\ UNCHANGED <<engine, stream, hw, list, api, crashed, wdVars>>

\* any other cycle resets the watchdog; with the deviation from the master out of
\* bounds the streams' diagnostics are counted up
CycleAdjusts(w) ==
  /\ At(w, "top") /\ worker[w].keep /\ ~worker[w].first
  /\ ResetWatchdog(w)
  /\ \/ worker' = [worker EXCEPT ![w].pc = "process"]
     \/ worker' = [worker EXCEPT ![w].pc = "diagnose", ![w].first = TRUE,
                                 ![w].todo = worker[w].streams]
  /\ UNCHANGED <<engine, stream, hw, list, api, crashed>>

\* the loop over mAlsaStreams, without the lock: an insertion or removal invalidates the iterator
Diagnose(w) ==
  /\ At(w, "diagnose")
  /\ crashed' = (worker[w].todo # worker[w].streams \/ ~(Range(worker[w].todo) \subseteq Streams))
  /\ worker' = [worker EXCEPT ![w].pc = "process", ![w].todo = <<>>]
  /\ UNCHANGED <<engine, stream, hw, list, api, wdVars>>

\* process() takes the lock
ProcessEnters(w) ==
  /\ At(w, "process")
  /\ worker' = [worker EXCEPT ![w].pc = "copy", ![w].todo = worker[w].streams]
  /\ UNCHANGED <<engine, stream, hw, list, api, crashed, wdVars>>

\* copyJob() and updateBufferStatus() of the next stream
CopyJob(w) ==
  /\ At(w, "copy") /\ worker[w].todo # <<>>
  /\ crashed' = (Head(worker[w].todo) \notin Streams)
  /\ worker' = [worker EXCEPT ![w].todo = Tail(@)]
  /\ UNCHANGED <<engine, stream, hw, list, api, wdVars>>

\* the lock is released, the thread sleeps until its next cycle
ProcessLeaves(w) ==
  /\ At(w, "copy") /\ worker[w].todo = <<>>
  /\ worker' = [worker EXCEPT ![w].pc = "top"]
  /\ UNCHANGED <<engine, stream, hw, list, api, crashed, wdVars>>

\* the thread does not come back from a copy job: what the watchdog is for
Hang(w) ==
  /\ At(w, "copy") /\ worker[w].todo # <<>>
  /\ worker' = [worker EXCEPT ![w].pc = "hung", ![w].todo = <<>>]
  /\ UNCHANGED <<engine, stream, hw, list, api, crashed, wdVars>>

\* afterRun(), with the running flag cleared already
AfterRun(w) ==
  /\ worker[w].thread = "leaving"
  /\ worker' = [worker EXCEPT ![w].keep = FALSE, ![w].thread = "gone"]
  /\ UNCHANGED <<engine, stream, hw, list, api, crashed, wdVars>>

\* run() of IasAlsaHandlerWorkerThread ends: it was told to, or an access to a ring failed
HwEnds(id) ==
  /\ hw[id] \in {"on", "stopping"}
  /\ hw' = [hw EXCEPT ![id] = "gone"]
  /\ UNCHANGED <<engine, stream, worker, list, api, crashed, wdVars>>

----------------------------------------------------------------------------
ApiStep ==
  \/ AddAlsaStream \/ StartWorker \/ ThreadStarts \/ ThreadFails
  \/ StopWorker \/ StopIdleWorker \/ Join
  \/ RemoveAlsaStream \/ DeleteWorker \/ DropStream \/ DropStopsHw \/ DropJoins
  \/ CleanupDestroys \/ CleanupClears

ApiCall ==
  \/ InitEngine \/ StartEngine \/ StopEngine \/ Cleanup
  \/ \E id \in Ids : \E kind \in {"virtual", "hw"} : \E dom \in Domains : \E period \in Periods :
       CreateForWorker(id, kind, dom, period) \/ CreateWithWorker(id, kind, dom, period)
  \/ \E id \in Ids : DestroyAlsaStream(id)
  \/ \E id \in Ids : \E connected \in BOOLEAN : SetConnected(id, connected)

WorkerStep(w) ==
  \/ RunEnds(w) \/ CycleInitialises(w) \/ CycleAdjusts(w) \/ Diagnose(w)
  \/ ProcessEnters(w) \/ CopyJob(w) \/ ProcessLeaves(w) \/ AfterRun(w)

Next ==
  /\ ~killed /\ ~crashed
  /\ \/ ApiStep \/ ApiCall
     \/ \E w \in Workers : WorkerStep(w) \/ ClockFails(w) \/ Hang(w)
     \/ \E id \in Ids : HwEnds(id)
     \/ (NotifyTimedOut \/ Tick) /\ UNCHANGED engineVars

Spec == Init /\ [][Next]_vars

\* Threads and a call in progress go on, std::mutex lets the API in between two cycles,
\* time passes; the HW device's thread is woken by its device or a time-out. Nothing
\* obliges anybody to call, a clock to fail or a thread to hang.
Running == ~killed /\ ~crashed
Fairness ==
  /\ \A w \in Workers : WF_vars(Running /\ WorkerStep(w))
  /\ SF_vars(Running /\ ApiStep)
  /\ \A id \in Ids : WF_vars(Running /\ hw[id] = "stopping" /\ HwEnds(id))
  /\ WF_vars(Running /\ (NotifyTimedOut \/ Tick) /\ UNCHANGED engineVars)

FairSpec == Spec /\ Fairness

----------------------------------------------------------------------------
(* Properties *)

TypeOK ==
  /\ WatchdogTypeOK
  /\ engine \in [init : BOOLEAN, started : BOOLEAN]
  /\ \A id \in Ids : stream[id].kind \in {"none", "virtual", "hw"}
  /\ hw \in [Ids -> {"off", "on", "stopping", "gone"}]
  /\ \A w \in Workers : /\ worker[w].streams \in Seq(Ids)
                        /\ worker[w].thread \in {"none", "alive", "leaving", "gone"}
  /\ Range(list) \subseteq Workers

\* Between two calls every stream is served by exactly one worker, of its clock
\* domain and with a period that divides its own, every worker has a stream, and
\* nothing runs that is not in the engine's list. cleanup() leaves no worker, no thread of a
\* device and no watchdog behind. So no worker serves a stream that has been deleted and nothing is
\* done with a handler that does not exist, whenever streams are created and destroyed while
\* workers are in their cycle.
ListsExact ==
  /\ TypeOK
  /\ ~crashed
  /\ api = Idle =>
       /\ \A id \in Ids :
            /\ id \in Streams => \E w \in Range(list) : /\ id \in Range(worker[w].streams)
                                                        /\ Matches(w, stream[id].dom, stream[id].period)
            /\ Cardinality({w \in Workers : id \in Range(worker[w].streams)})
                 = IF id \in Streams THEN 1 ELSE 0
       /\ \A w \in Workers : IF w \in Range(list) THEN worker[w].streams # <<>> ELSE worker[w] = NoWorker
  /\ ~engine.init => /\ list = <<>> /\ interfaces = {} /\ \A w \in Workers : worker[w] = NoWorker
                     /\ \A id \in Ids : hw[id] = "off"

\* Between two calls the streams that are told that their worker is active are those of workers
\* whose thread is in its loop and will stay there, except for a thread that ended by itself. If the
\* engine is not started no thread of a worker is in its loop.
ActiveMeansServed ==
  api = Idle =>
    /\ \A id \in Streams : LET w == WorkerOf(id) IN
         stream[id].active => (worker[w].thread = "alive" /\ worker[w].keep) \/ worker[w].failed
    /\ ~engine.started => \A w \in Workers : worker[w].thread # "alive"

Hung == \E w \in Workers : worker[w].pc = "hung"

\* Every call of the engine returns, whatever the workers do and wherever they are when it is
\* made, unless a worker hangs or systemd ends the process.
CallsReturn == api # Idle ~> (api = Idle \/ Hung \/ ~Running)

\* With the supervision enabled, a process with a worker that hangs is ended.
HungIsKilled == enabled /\ Hung ~> killed
============================================================================
