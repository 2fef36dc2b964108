------------------------- MODULE TransmitSequencer -------------------------
(***************************************************************************)
(* Activation of AVB transmit streams: the API calls of the transmit       *)
(* engine (IasAvbTransmitEngine, serialised by the API mutex of the stream *)
(* handler) and the worker thread of one sequencer                         *)
(* (IasAvbTransmitSequencer) that sends the streams' packets.              *)
(*                                                                         *)
(* The API changes mActiveStreams under mLock and asks the worker, by      *)
(* incrementing mRequestCount, to copy it into the worker's own mSequence; *)
(* the worker answers by incrementing mResponseCount. Only the difference  *)
(* of the two counters is ever used: it is the variable outstanding.       *)
(*                                                                         *)
(* A stream's packets are counted: free in its pool, queued in the driver, *)
(* or held by the sequence (at most one). Packets a video stream keeps in  *)
(* its local video buffer are left out: they count as free.                *)
(*                                                                         *)
(* A call that the code rejects (an unknown stream, no bandwidth left)      *)
(* changes nothing and is no step here.                                    *)
(*                                                                         *)
(* Abstracted: launch times and the order of mSequence (the worker may     *)
(* serve any stream of it, a fetched packet may be due or not), link state *)
(* and PTP epoch (they may change at any time), the shaper registers,      *)
(* mCurrentMaxIntervalFrames (it moves as mCurrentBandwidth does).         *)
(***************************************************************************)
EXTENDS Integers, FiniteSetsExt

CONSTANTS
  Streams,         \* transmit streams of this sequencer's class
  NoStream,        \* NULL
  Bandwidth,       \* getTSpec().getRequiredBandwidth() of each stream
  TxMaxBandwidth,  \* mConfig.txMaxBandwidth
  PoolSize,        \* mPoolSize of a stream's packet pool
  XmitResults,     \* what igb_xmit may return
  MaxResetCount,   \* mConfig.txWindowMaxResetCount
  MaxOutstanding,  \* bound: the API starts no call beyond so many requests
  MaxErrors,       \* bound: packets doubled or lost in the streams that exist
  AtomicToggle,    \* TRUE: see Settled
  AtomicFlags      \* TRUE: see FlagsSettled

ASSUME TransmitConstants ==
  /\ NoStream \notin Streams
  /\ Bandwidth \in [Streams -> Nat]
  /\ TxMaxBandwidth \in Nat
  /\ PoolSize \in Nat \ {0}
  /\ XmitResults \subseteq {"ok", "again", "fatal", "nospace"}
  /\ MaxResetCount \in Nat /\ MaxOutstanding \in Nat /\ MaxErrors \in Nat
  /\ AtomicToggle \in BOOLEAN /\ AtomicFlags \in BOOLEAN

VARIABLES
  mAvbStreams,       \* the streams that exist
  mActive,           \* IasAvbStream::mActive
  mActiveStreams,
  mCurrentBandwidth,
  mRunning,          \* of the engine
  outstanding,       \* mRequestCount - mResponseCount
  mThreadControl,    \* set of "restart", "end"
  apiPc, apiStream,  \* the API call under way and its stream
  apiDestroys,       \* it is destroyAvbStream
  workerPc,          \* "off": the thread is not running
  workerStream,      \* stream of serviceStream, or being toggled
  toReset,           \* streams the restart has still to reset
  resetCnt,          \* of serviceStream: how often it has reset its stream
  flags,             \* register: mThreadControl as loaded by |=
  mSequence,         \* streams of mSequence
  packet,            \* StreamData::packet: "none", "data" or "dummy"
  free, queued,      \* packets in the pool, in the driver
  doubled, lost      \* history: packets returned although they are kept, dropped without return

engineVars == <<mAvbStreams, mCurrentBandwidth, mRunning>>
apiVars == <<apiPc, apiStream, apiDestroys>>
workerVars == <<workerPc, workerStream, toReset, resetCnt, flags>>
errorVars == <<doubled, lost>>
packetVars == <<packet, free, queued, errorVars>>
sharedVars == <<mActive, mActiveStreams, outstanding, mThreadControl>>
vars == <<engineVars, apiVars, workerVars, packetVars, sharedVars, mSequence>>

----------------------------------------------------------------------------
\* the worker holds mLock while it resets the streams after a restart
MLockFree == workerPc # "reset" /\ ~(workerPc = "toggle" /\ toReset # {})

\* The assumption AtomicToggle names: no API call reads mActive between the
\* worker's deactivate() and activate() of a stream it resets.
Settled == AtomicToggle => workerPc # "toggle"

\* The assumption AtomicFlags names: shutDown does not write mThreadControl
\* between the load and the store of the worker's unlocked |=.
FlagsSettled == AtomicFlags => workerPc # "store"

Room == outstanding <= MaxOutstanding

\* packets doubled or lost so far
Errors == MapThenSumSet(LAMBDA s : doubled[s] + lost[s], Streams)

\* doReturnPacket, k times: size of the free stack of n packets afterwards
Returned(n, k) == IF n + k <= PoolSize + 1 THEN n + k ELSE PoolSize + 1

\* mutant of HeldReturned: dummy packets are forgotten
HeldDataReturned(S) ==
  [s \in Streams |-> IF s \in S /\ packet[s] = "data" THEN Returned(free[s], 1) ELSE free[s]]

\* packets held by the streams in S go back to their pools
HeldReturned(S) ==
  [s \in Streams |-> IF s \in S /\ packet[s] # "none" THEN Returned(free[s], 1) ELSE free[s]]

\* reclaimPackets: the driver hands back what it has sent, left[s] packets stay there
Reclaim(left) ==
  /\ \A s \in Streams : left[s] <= queued[s]
  /\ queued' = left
  /\ free' = [s \in Streams |-> Returned(free[s], queued[s] - left[s])]

\* igb_clean's choices
Leftovers == [Streams -> 0..PoolSize]

Init ==
  /\ mAvbStreams = {} /\ mActiveStreams = {} /\ mSequence = {}
  /\ mActive = [s \in Streams |-> FALSE]
  /\ mCurrentBandwidth = 0 /\ mRunning = FALSE
  /\ outstanding = 0 /\ mThreadControl = {}
  /\ apiPc = "idle" /\ apiStream = NoStream /\ apiDestroys = FALSE
  /\ workerPc = "off" /\ workerStream = NoStream
  /\ toReset = {} /\ resetCnt = 0 /\ flags = {}
  /\ packet = [s \in Streams |-> "none"]
  /\ free = [s \in Streams |-> 0] /\ queued = [s \in Streams |-> 0]
  /\ doubled = [s \in Streams |-> 0] /\ lost = [s \in Streams |-> 0]

----------------------------------------------------------------------------
(* The API thread: creating, activating, deactivating, destroying a stream *)

\* createTransmitAudioStream and its siblings, as far as the sequencer goes
CreateStream(s) ==
  /\ apiPc = "idle" /\ s \notin mAvbStreams
  /\ mAvbStreams' = mAvbStreams \union {s}
  /\ free' = [free EXCEPT ![s] = PoolSize]
  /\ UNCHANGED <<mCurrentBandwidth, mRunning, apiVars, workerVars, packet, queued,
                 errorVars, sharedVars, mSequence>>

\* the first half of addStreamToTransmitList: the bandwidth, if there is enough
Reserve(s) ==
  /\ mCurrentBandwidth + Bandwidth[s] <= TxMaxBandwidth
  /\ mCurrentBandwidth' = mCurrentBandwidth + Bandwidth[s]

\* activateAvbStream of an inactive stream, as far as the bandwidth is reserved
ActivateAvbStream(s) ==
  /\ apiPc = "idle" /\ Settled /\ Room
  /\ s \in mAvbStreams /\ ~mActive[s]
  /\ Reserve(s)
  /\ apiPc' = "insert" /\ apiStream' = s
  /\ UNCHANGED <<mAvbStreams, mRunning, apiDestroys, workerVars, packetVars,
                 sharedVars, mSequence>>

\* mActiveStreams.insert under mLock: a new stream, or one that is restored
InsertStream ==
  /\ apiPc = "insert" /\ MLockFree
  /\ mActiveStreams' = mActiveStreams \union {apiStream}
  /\ apiPc' = "requestInsert"
  /\ UNCHANGED <<engineVars, apiStream, apiDestroys, workerVars, packetVars, mActive,
                 outstanding, mThreadControl, mSequence>>

RequestInsert ==
  /\ apiPc = "requestInsert"
  /\ outstanding' = outstanding + 1
  /\ apiPc' = "activate"
  /\ UNCHANGED <<engineVars, apiStream, apiDestroys, workerVars, packetVars, mActive,
                 mActiveStreams, mThreadControl, mSequence>>

\* stream->activate() and the end of activateAvbStream, or of a
\* deactivateAvbStream that failed
FinishActivate ==
  /\ apiPc = "activate"
  /\ mActive' = [mActive EXCEPT ![apiStream] = TRUE]
  /\ apiPc' = "idle" /\ apiStream' = NoStream /\ apiDestroys' = FALSE
  /\ UNCHANGED <<engineVars, workerVars, packetVars, mActiveStreams, outstanding,
                 mThreadControl, mSequence>>

\* deactivateAvbStream, or destroyAvbStream, of an active stream: stream->deactivate()
DeactivateAvbStream(s, destroy) ==
  /\ apiPc = "idle" /\ Settled /\ Room
  /\ s \in mAvbStreams /\ mActive[s]
  /\ mActive' = [mActive EXCEPT ![s] = FALSE]
  /\ apiPc' = "erase" /\ apiStream' = s /\ apiDestroys' = destroy
  /\ UNCHANGED <<engineVars, workerVars, packetVars, mActiveStreams, outstanding,
                 mThreadControl, mSequence>>

\* removeStreamFromTransmitList: mActiveStreams.erase under mLock ...
EraseStream ==
  /\ apiPc = "erase" /\ MLockFree
  /\ mActiveStreams' = mActiveStreams \ {apiStream}
  /\ apiPc' = "requestErase"
  /\ UNCHANGED <<engineVars, apiStream, apiDestroys, workerVars, packetVars, mActive,
                 outstanding, mThreadControl, mSequence>>

RequestErase ==
  /\ apiPc = "requestErase"
  /\ outstanding' = outstanding + 1
  /\ apiPc' = "check"
  /\ UNCHANGED <<engineVars, apiStream, apiDestroys, workerVars, packetVars, mActive,
                 mActiveStreams, mThreadControl, mSequence>>

\* ... mTransmitThread->isRunning() ...
CheckRunning ==
  /\ apiPc = "check"
  /\ apiPc' = IF workerPc = "off" THEN "removed" ELSE "wait"
  /\ UNCHANGED <<engineVars, apiStream, apiDestroys, workerVars, packetVars, sharedVars,
                 mSequence>>

\* mutant of WaitResponse: a timeout counts as a response
WaitUnchecked ==
  /\ apiPc = "wait"
  /\ apiPc' = "removed"
  /\ UNCHANGED <<engineVars, apiStream, apiDestroys, workerVars, packetVars, sharedVars,
                 mSequence>>

\* mutant of WaitResponse: the bandwidth is released although the stream is put back
WaitReleases ==
  /\ apiPc = "wait"
  /\ apiPc' = IF outstanding = 0 THEN "removed" ELSE "insert"
  /\ mCurrentBandwidth' = IF outstanding = 0 THEN mCurrentBandwidth
                                             ELSE mCurrentBandwidth - Bandwidth[apiStream]
  /\ UNCHANGED <<mAvbStreams, mRunning, apiStream, apiDestroys, workerVars, packetVars,
                 sharedVars, mSequence>>

\* ... and the poll for the response; after a second the stream is put back
WaitResponse ==
  /\ apiPc = "wait"
  /\ apiPc' = IF outstanding = 0 THEN "removed" ELSE "insert"
  /\ UNCHANGED <<engineVars, apiStream, apiDestroys, workerVars, packetVars, sharedVars,
                 mSequence>>

\* the end of removeStreamFromTransmitList
Release(s) == mCurrentBandwidth' = mCurrentBandwidth - Bandwidth[s]

\* delete avbStream; packets the driver still has are lost with the pool
Delete(s) ==
  /\ mAvbStreams' = mAvbStreams \ {s}
  /\ free' = [free EXCEPT ![s] = 0]
  /\ queued' = [queued EXCEPT ![s] = 0]
  /\ doubled' = [doubled EXCEPT ![s] = 0] /\ lost' = [lost EXCEPT ![s] = 0]

\* the stream is off the list: the end of deactivateAvbStream, with the second
\* deactivate() of "defect#230217", then that of destroyAvbStream
FinishRemove ==
  /\ apiPc = "removed"
  /\ Release(apiStream)
  /\ mActive' = [mActive EXCEPT ![apiStream] = FALSE]
  /\ IF apiDestroys THEN Delete(apiStream)
                     ELSE UNCHANGED <<mAvbStreams, free, queued, errorVars>>
  /\ apiPc' = "idle" /\ apiStream' = NoStream /\ apiDestroys' = FALSE
  /\ UNCHANGED <<mRunning, workerVars, packet, mActiveStreams, outstanding,
                 mThreadControl, mSequence>>

\* destroyAvbStream of a stream that is not active
DestroyInactive(s) ==
  /\ apiPc = "idle" /\ Settled
  /\ s \in mAvbStreams /\ ~mActive[s]
  /\ Delete(s)
  /\ UNCHANGED <<mCurrentBandwidth, mRunning, apiVars, workerVars, packet, sharedVars,
                 mSequence>>

----------------------------------------------------------------------------
(* The API thread: starting and stopping the engine *)

\* the thread is started, or cannot be (the request is counted all the same)
Start(succeeds) ==
  /\ apiPc = "idle" /\ ~mRunning /\ Room
  /\ workerPc' = IF succeeds THEN "started" ELSE workerPc
  /\ mRunning' = succeeds
  /\ apiPc' = "requestStart"
  /\ UNCHANGED <<mAvbStreams, mCurrentBandwidth, apiStream, apiDestroys, workerStream,
                 toReset, resetCnt, flags, packetVars, sharedVars, mSequence>>

RequestStart ==
  /\ apiPc = "requestStart"
  /\ outstanding' = outstanding + 1
  /\ apiPc' = "idle"
  /\ UNCHANGED <<engineVars, apiStream, apiDestroys, workerVars, packetVars, mActive,
                 mActiveStreams, mThreadControl, mSequence>>

\* a thread that has ended by itself is not stopped
Stop ==
  /\ apiPc = "idle" /\ mRunning
  /\ IF workerPc = "off" THEN mRunning' = FALSE /\ UNCHANGED apiPc
                         ELSE apiPc' = "stop" /\ UNCHANGED mRunning
  /\ UNCHANGED <<mAvbStreams, mCurrentBandwidth, apiStream, apiDestroys, workerVars,
                 packetVars, sharedVars, mSequence>>

ShutDown ==
  /\ apiPc = "stop" /\ MLockFree /\ FlagsSettled
  /\ mThreadControl' = {"end"}
  /\ apiPc' = "join"
  /\ UNCHANGED <<engineVars, apiStream, apiDestroys, workerVars, packetVars, mActive,
                 mActiveStreams, outstanding, mSequence>>

\* pthread_join, then every active stream is deactivated and activated again
Join ==
  /\ apiPc = "join" /\ workerPc = "off"
  /\ mActive' = [s \in Streams |-> s \in mActiveStreams \/ mActive[s]]
  /\ mRunning' = FALSE
  /\ apiPc' = "idle"
  /\ UNCHANGED <<mAvbStreams, mCurrentBandwidth, apiStream, apiDestroys, workerVars,
                 packetVars, mActiveStreams, outstanding, mThreadControl, mSequence>>

----------------------------------------------------------------------------
(* The worker thread: its loop *)

BeforeRun ==
  /\ workerPc = "started"
  /\ mThreadControl' = {}
  /\ workerPc' = "entered"
  /\ UNCHANGED <<engineVars, apiVars, workerStream, toReset, resetCnt, flags,
                 packetVars, mActive, mActiveStreams, outstanding, mSequence>>

\* mutant of EnterRun: the stopping flag is not looked at
EnterRunAnyway ==
  /\ workerPc = "entered"
  /\ workerPc' = "outer"
  /\ UNCHANGED <<engineVars, apiVars, workerStream, toReset, resetCnt, flags, packetVars, sharedVars,
                 mSequence>>

\* IasThread::run looks at its stopping flag, which stop() set before shutDown
EnterRun ==
  /\ workerPc = "entered"
  /\ workerPc' = IF apiPc \in {"stop", "join"} THEN "off" ELSE "outer"
  /\ UNCHANGED <<engineVars, apiVars, workerStream, toReset, resetCnt, flags, packetVars, sharedVars,
                 mSequence>>

\* the condition of the outer loop
OuterLoop ==
  /\ workerPc = "outer"
  /\ workerPc' = IF "end" \in mThreadControl THEN "off" ELSE "head"
  /\ UNCHANGED <<engineVars, apiVars, workerStream, toReset, resetCnt, flags,
                 packetVars, sharedVars, mSequence>>

\* mThreadControl is looked at again: a restart is acknowledged under mLock, which
\* leaves the end that shutDown may have asked for in between
CheckRestart ==
  /\ workerPc = "head"
  /\ IF mThreadControl # {}
     THEN /\ workerPc' = "reset"
          /\ mThreadControl' = mThreadControl \ {"restart"}
          /\ toReset' = mActiveStreams
     ELSE workerPc' = "inner" /\ UNCHANGED <<mThreadControl, toReset>>
  /\ UNCHANGED <<engineVars, apiVars, workerStream, resetCnt, flags, packetVars,
                 mActive, mActiveStreams, outstanding, mSequence>>

\* stream->deactivate() of the next stream to reset
ResetStream(s) ==
  /\ workerPc = "reset" /\ s \in toReset
  /\ mActive' = [mActive EXCEPT ![s] = FALSE]
  /\ workerPc' = "toggle" /\ workerStream' = s
  /\ UNCHANGED <<engineVars, apiVars, toReset, resetCnt, flags, packetVars,
                 mActiveStreams, outstanding, mThreadControl, mSequence>>

\* stream->activate() of the stream being reset
ReactivateStream ==
  /\ workerPc = "toggle" /\ toReset # {}
  /\ mActive' = [mActive EXCEPT ![workerStream] = TRUE]
  /\ toReset' = toReset \ {workerStream}
  /\ workerPc' = "reset" /\ workerStream' = NoStream
  /\ UNCHANGED <<engineVars, apiVars, resetCnt, flags, packetVars,
                 mActiveStreams, outstanding, mThreadControl, mSequence>>

\* mutant of FinishReset: the response counter is not ticked back
FinishResetSilently ==
  /\ workerPc = "reset" /\ toReset = {}
  /\ workerPc' = "inner"
  /\ UNCHANGED <<engineVars, apiVars, workerStream, toReset, resetCnt, flags, packetVars, sharedVars,
                 mSequence>>

\* all streams are reset: mResponseCount--, mLock.unlock()
FinishReset ==
  /\ workerPc = "reset" /\ toReset = {}
  /\ outstanding' = outstanding + 1
  /\ workerPc' = "inner"
  /\ UNCHANGED <<engineVars, apiVars, workerStream, toReset, resetCnt, flags, packetVars, mActive,
                 mActiveStreams, mThreadControl, mSequence>>

InnerLoop ==
  /\ workerPc = "inner"
  /\ workerPc' = IF mThreadControl = {} THEN "update" ELSE "exit"
  /\ UNCHANGED <<engineVars, apiVars, workerStream, toReset, resetCnt, flags,
                 packetVars, sharedVars, mSequence>>

\* one round of updateSequence: mActiveStreams is copied under mLock, the
\* packets of the streams that are gone are returned
UpdateSequence ==
  /\ workerPc = "update" /\ outstanding > 0
  /\ mSequence' = mActiveStreams
  /\ free' = HeldReturned(mSequence \ mActiveStreams)
  /\ packet' = [s \in Streams |-> IF s \in mSequence \ mActiveStreams THEN "none" ELSE packet[s]]
  /\ workerPc' = "respond"
  /\ UNCHANGED <<engineVars, apiVars, workerStream, toReset, resetCnt, flags, queued,
                 errorVars, sharedVars>>

\* mResponseCount++, after mLock was released
Respond ==
  /\ workerPc = "respond"
  /\ outstanding' = outstanding - 1
  /\ workerPc' = "update"
  /\ UNCHANGED <<engineVars, apiVars, workerStream, toReset, resetCnt, flags, packetVars,
                 mActive, mActiveStreams, mThreadControl, mSequence>>

\* updateSequence is done; the link is down
LinkDown(left) ==
  /\ workerPc = "update" /\ outstanding <= 0
  /\ Reclaim(left)
  /\ workerPc' = "inner"
  /\ UNCHANGED <<engineVars, apiVars, workerStream, toReset, resetCnt, flags, packet,
                 errorVars, sharedVars, mSequence>>

\* ... or it just came up ("flag"), or it was up and a window begins
LinkUp(changed) ==
  /\ workerPc = "update" /\ outstanding <= 0
  /\ workerPc' = IF changed THEN "flag" ELSE "service"
  /\ UNCHANGED <<engineVars, apiVars, workerStream, toReset, resetCnt, flags, packetVars,
                 sharedVars, mSequence>>

\* mThreadControl |= cFlagRestartThread: the load ...
LoadFlags ==
  /\ workerPc = "flag"
  /\ flags' = mThreadControl
  /\ workerPc' = "store"
  /\ UNCHANGED <<engineVars, apiVars, workerStream, toReset, resetCnt, packetVars,
                 sharedVars, mSequence>>

\* ... and the store, after which serviceStream or the inner loop goes on
StoreFlags ==
  /\ workerPc = "store"
  /\ mThreadControl' = flags \union {"restart"}
  /\ flags' = {}
  /\ workerPc' = IF workerStream # NoStream THEN "fetch" ELSE "inner"
  /\ UNCHANGED <<engineVars, apiVars, workerStream, toReset, resetCnt, packetVars,
                 mActive, mActiveStreams, outstanding, mSequence>>

\* the watchdog cannot be registered: the worker ends itself
WorkerFails ==
  /\ workerPc = "service" /\ mSequence # {} /\ mThreadControl = {}
  /\ mThreadControl' = {"end"}
  /\ UNCHANGED <<engineVars, apiVars, workerVars, packetVars, mActive, mActiveStreams,
                 outstanding, mSequence>>

\* the window is over: sleep and reclaim
EndWindow(left) ==
  /\ workerPc = "service"
  /\ Reclaim(left)
  /\ workerPc' = "inner"
  /\ UNCHANGED <<engineVars, apiVars, workerStream, toReset, resetCnt, flags, packet,
                 errorVars, sharedVars, mSequence>>

\* the window is over and the PTP epoch has changed
TimeWarp ==
  /\ workerPc = "service"
  /\ workerPc' = "flag"
  /\ UNCHANGED <<engineVars, apiVars, workerStream, toReset, resetCnt, flags, packetVars,
                 sharedVars, mSequence>>

\* the inner loop is left: all packets go back and mSequence is cleared
ExitInner(left) ==
  /\ workerPc = "exit"
  /\ \A s \in Streams : left[s] <= queued[s]
  /\ queued' = left
  /\ free' = [s \in Streams |-> Returned(HeldReturned(mSequence)[s], queued[s] - left[s])]
  /\ packet' = [s \in Streams |-> IF s \in mSequence THEN "none" ELSE packet[s]]
  /\ mSequence' = {}
  /\ workerPc' = "outer"
  /\ UNCHANGED <<engineVars, apiVars, workerStream, toReset, resetCnt, flags, errorVars,
                 sharedVars>>

----------------------------------------------------------------------------
(* The worker thread: serviceStream *)

Serving(s) == workerPc = "service" /\ mThreadControl = {} /\ s \in mSequence

\* a stream without a packet, or with a dummy that is due and is disposed of
ServiceEmpty(s) ==
  /\ Serving(s) /\ packet[s] # "data"
  /\ free' = HeldReturned({s})
  /\ packet' = [packet EXCEPT ![s] = "none"]
  /\ workerPc' = "fetch" /\ workerStream' = s
  /\ UNCHANGED <<engineVars, apiVars, toReset, resetCnt, flags, queued, errorVars, sharedVars,
                 mSequence>>

\* A packet that is due is given to igb_xmit. After a fatal error it is returned to the
\* pool and kept as well; if the driver has no descriptor left, the next fetch drops it,
\* after a restart is requested unless the shaper is being debugged.
Send(s, result) ==
  /\ Serving(s) /\ packet[s] = "data"
  /\ result \in {"fatal", "nospace"} => Errors < MaxErrors
  /\ free' = IF result = "fatal" THEN HeldReturned({s}) ELSE free
  /\ doubled' = IF result = "fatal" THEN [doubled EXCEPT ![s] = @ + 1] ELSE doubled
  /\ queued' = IF result = "ok" THEN [queued EXCEPT ![s] = @ + 1] ELSE queued
  /\ packet' = IF result = "ok" THEN [packet EXCEPT ![s] = "none"] ELSE packet
  /\ \/ result = "ok" /\ workerPc' = "fetch"
     \/ result = "nospace" /\ workerPc' \in {"flag", "fetch"}
     \/ result \in {"again", "fatal"} /\ workerPc' = "service"
  /\ workerStream' = IF result \in {"ok", "nospace"} THEN s ELSE NoStream
  /\ UNCHANGED <<engineVars, apiVars, toReset, resetCnt, flags, lost, sharedVars, mSequence>>

\* preparePacket's result overwrites what current.packet still holds
Overwrites ==
  /\ lost' = [lost EXCEPT ![workerStream] =
                IF packet[workerStream] = "none" THEN @ ELSE @ + 1]
  /\ UNCHANGED doubled

\* preparePacket has no packet: the pool is empty or the stream has no data
FetchDry ==
  /\ workerPc = "fetch"
  /\ packet' = [packet EXCEPT ![workerStream] = "none"]
  /\ Overwrites
  /\ workerPc' = "service" /\ workerStream' = NoStream /\ resetCnt' = 0
  /\ UNCHANGED <<engineVars, apiVars, toReset, flags, free, queued, sharedVars,
                 mSequence>>

\* a packet the sequence keeps, for this window or a later one
FetchPacket(kind) ==
  /\ workerPc = "fetch" /\ free[workerStream] > 0
  /\ packet' = [packet EXCEPT ![workerStream] = kind]
  /\ free' = [free EXCEPT ![workerStream] = @ - 1]
  /\ Overwrites
  /\ workerPc' = "service" /\ workerStream' = NoStream /\ resetCnt' = 0
  /\ UNCHANGED <<engineVars, apiVars, toReset, flags, queued, sharedVars, mSequence>>

\* a packet far off the window goes back to the pool and the stream is reset,
\* stream->deactivate() first
FetchReset ==
  /\ workerPc = "fetch" /\ free[workerStream] > 0
  /\ packet' = [packet EXCEPT ![workerStream] = "none"]
  /\ Overwrites
  /\ mActive' = [mActive EXCEPT ![workerStream] = FALSE]
  /\ workerPc' = "toggle"
  /\ UNCHANGED <<engineVars, apiVars, workerStream, toReset, resetCnt, flags, free, queued,
                 mActiveStreams, outstanding, mThreadControl, mSequence>>

\* ++resetCnt <= maxResetCnt
MayRetry == resetCnt < MaxResetCount

\* ... then stream->activate(); another packet is fetched unless the stream was
\* reset too often, or too many packets were dropped
FinishToggle(retry) ==
  /\ workerPc = "toggle" /\ toReset = {}
  /\ retry => MayRetry
  /\ mActive' = [mActive EXCEPT ![workerStream] = TRUE]
  /\ resetCnt' = IF retry THEN resetCnt + 1 ELSE 0
  /\ workerPc' = IF retry THEN "fetch" ELSE "service"
  /\ workerStream' = IF retry THEN workerStream ELSE NoStream
  /\ UNCHANGED <<engineVars, apiVars, toReset, flags, packetVars,
                 mActiveStreams, outstanding, mThreadControl, mSequence>>

----------------------------------------------------------------------------
Call ==
  \/ \E s \in Streams :
       \/ CreateStream(s) \/ ActivateAvbStream(s) \/ DestroyInactive(s)
       \/ \E destroy \in BOOLEAN : DeactivateAvbStream(s, destroy)
  \/ \E succeeds \in BOOLEAN : Start(succeeds)
  \/ Stop

ApiStep ==
  \/ InsertStream \/ RequestInsert \/ FinishActivate
  \/ EraseStream \/ RequestErase \/ CheckRunning \/ WaitResponse \/ FinishRemove
  \/ RequestStart \/ ShutDown \/ Join

WorkerStep ==
  \/ BeforeRun \/ EnterRun \/ OuterLoop \/ CheckRestart \/ FinishReset
  \/ \E s \in Streams : ResetStream(s) \/ ServiceEmpty(s)
  \/ ReactivateStream \/ \E retry \in BOOLEAN : FinishToggle(retry)
  \/ InnerLoop \/ UpdateSequence \/ Respond
  \/ \E changed \in BOOLEAN : LinkUp(changed)
  \/ \E left \in Leftovers : LinkDown(left) \/ EndWindow(left) \/ ExitInner(left)
  \/ LoadFlags \/ StoreFlags \/ TimeWarp \/ WorkerFails
  \/ \E s \in Streams, result \in XmitResults : Send(s, result)
  \/ FetchDry \/ FetchReset
  \/ \E kind \in {"data", "dummy"} : FetchPacket(kind)

Next == Call \/ ApiStep \/ WorkerStep

Spec == Init /\ [][Next]_vars

\* A call under way goes on, and gets mLock although the worker takes it again
\* and again (it is free while the worker sleeps); the worker runs; a window
\* ends, because launch times advance with every packet fetched.
Fairness ==
  /\ SF_vars(ApiStep) /\ WF_vars(WorkerStep)
  /\ SF_vars(\E left \in Leftovers : EndWindow(left))

FairSpec == Spec /\ Fairness

----------------------------------------------------------------------------
(* Properties *)

\* The shape of the state.
TypeOK ==
  /\ mAvbStreams \subseteq Streams /\ mActiveStreams \subseteq Streams
  /\ mSequence \subseteq Streams /\ toReset \subseteq Streams
  /\ mActive \in [Streams -> BOOLEAN]
  /\ resetCnt \in 0..MaxResetCount
  /\ mCurrentBandwidth \in Int /\ mRunning \in BOOLEAN /\ outstanding \in Nat
  /\ mThreadControl \subseteq {"restart", "end"} /\ flags \subseteq {"restart", "end"}
  /\ apiPc \in {"idle", "insert", "requestInsert", "activate", "erase", "requestErase",
                "check", "wait", "removed", "requestStart", "stop", "join"}
  /\ apiStream \in Streams \union {NoStream} /\ apiDestroys \in BOOLEAN
  /\ workerPc \in {"off", "started", "entered", "outer", "head", "reset", "toggle", "inner", "update",
                   "respond", "flag", "store", "service", "fetch", "exit"}
  /\ workerStream \in Streams \union {NoStream}
  /\ packet \in [Streams -> {"none", "data", "dummy"}]
  /\ free \in [Streams -> 0..(PoolSize + 1)]
  /\ queued \in [Streams -> Nat]
  /\ doubled \in [Streams -> Nat] /\ lost \in [Streams -> Nat]

\* "client might destroy stream once sequencer responded to the request": a
\* stream the worker may still touch exists.
NoDestroyedStream == mSequence \union mActiveStreams \subseteq mAvbStreams

\* Between two API calls mActive says which streams are in mActiveStreams,
\* although the worker deactivates and activates streams on its own: the calls
\* decide by mActive what there is to do ("defect#230217").
FlagsConsistent ==
  apiPc = "idle" /\ workerPc # "toggle" =>
    \A s \in Streams : mActive[s] <=> s \in mActiveStreams

\* Between two API calls the reserved bandwidth is that of the active streams.
BandwidthExact ==
  apiPc = "idle" =>
    mCurrentBandwidth = MapThenSumSet(LAMBDA s : Bandwidth[s], mActiveStreams)

\* where packets of a stream are: in its pool, in the driver, held by the sequence
Places(s) == free[s] + queued[s] + (IF packet[s] = "none" THEN 0 ELSE 1)

\* Every packet of a stream is in one place: through resets, restarts, removals and dummies
\* none is returned twice and none is forgotten. serviceStream breaks this in two cases only,
\* and by one packet each time: it keeps the packet it returns after a fatal error of
\* igb_xmit, and it fetches over the one the driver had no descriptor for.
PacketsConserved ==
  \A s \in mAvbStreams :
    /\ Places(s) >= PoolSize - lost[s]
    /\ Places(s) <= PoolSize - lost[s] + doubled[s]

\* The stop of the engine comes to an end: shutDown is not forgotten by a
\* thread that is just starting, restarting or going to sleep.
StopEnds == apiPc = "stop" ~> apiPc = "idle"

\* A stream that stays active gets into the sequence of a thread that keeps
\* running, also after a restart has cleared the sequence.
ActiveIsServed ==
  \A s \in Streams :
    (s \in mActiveStreams /\ workerPc # "off") ~>
      (s \in mSequence \/ s \notin mActiveStreams \/ workerPc = "off")
============================================================================
