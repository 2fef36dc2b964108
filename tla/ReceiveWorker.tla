--------------------------- MODULE ReceiveWorker ---------------------------
(***************************************************************************)
(* The worker of the receive engine and the buffers it shares with the     *)
(* network device (the build with DIRECT_RX_DMA). start() fills the        *)
(* device's ring with the buffers of a new pool and sets the filter; the   *)
(* worker takes a filled buffer, dispatches the packet in it and hands the *)
(* buffer back; stop() joins the worker, switches the device's queue off   *)
(* and frees the pool. The device writes packets on its own. A resume of   *)
(* the handler that fails leaves the engine as it is, started or not, so   *)
(* that the next one may find its worker running.                          *)
(*                                                                         *)
(* Which stream a packet belongs to and what the stream does with it is    *)
(* ReceiveEngine's. Abstracted: the contents of the packets, the raw       *)
(* socket, times (a cycle may find the idle time or the timeout check due  *)
(* at any time), scheduling parameters, counters and logging.              *)
(***************************************************************************)
EXTENDS Integers, Sequences, SequencesExt, FiniteSets

CONSTANTS
  RxPoolSize,  \* cReceivePoolSize
  RxMaxPools,  \* bound on the pools that are created
  RxBurst,     \* packets that arrive while the worker drains the ring, see DeviceReceives
  NoPacket     \* NULL

ASSUME ReceiverConstants ==
  /\ RxPoolSize \in Nat \ {0} /\ RxMaxPools \in Nat \ {0} /\ RxBurst \in Nat
  /\ NoPacket \notin (1 .. RxMaxPools) \X (1 .. RxPoolSize)

VARIABLES
  rxCall,      \* where the thread that starts, stops and deletes the engine is
  rxThen,      \* where stopIgbReceiveEngine() returns to
  rxPool,      \* mRcvPacketPool, 0: NULL; pools are numbered
  rxPools,     \* how many pools there have been
  mPacketList,
  rxRing,      \* empty buffers in the device's ring
  rxFilled,    \* buffers with a packet, in the order of their arrival
  rxQueue,     \* RXDCTL: the queue is enabled
  rxFilter,    \* the flex filter routes AVTP packets to the queue
  rxen,        \* RCTL.RXEN
  recover,     \* mRecoverIgbReceiver
  rxBurst,     \* packets that have arrived since the worker began to drain the ring
  rxWork,      \* where the worker is; "none": no thread, "ended": run() has returned
  rxPacket,    \* packet, the worker's local variable
  rxEnd,       \* mEndThread
  rxDog,       \* mWatchdog: "none", "off", "on" when it is registered
  link,        \* isLinkUp()
  again        \* the device was last initialised under a running worker

rxDevice == <<rxRing, rxFilled, rxQueue, rxFilter, rxen>>
rxOwner == <<rxCall, rxThen, rxPool, rxPools, mPacketList>>
rxLocals == <<rxWork, rxPacket, rxDog>>
rxVars == <<rxOwner, rxDevice, rxBurst, recover, rxLocals, rxEnd, link, again>>

Buffers(p) == {p} \X (1 .. RxPoolSize)
LiveBuffers == IF rxPool = 0 THEN {} ELSE Buffers(rxPool)
OfDevice == rxRing \cup ToSet(rxFilled)
IsRunning == rxWork \notin {"none", "ended"}

----------------------------------------------------------------------------
(* start(), stop(), the destructor                                         *)

RxCall(from, to) == rxCall = from /\ rxCall' = to
RxPoolKept == UNCHANGED <<rxPool, rxPools, mPacketList>>
RxOwnerOnly == UNCHANGED <<rxBurst, recover, rxLocals, link, again>>

\* a pool is left from a worker that ended by itself, or is in use by one that runs: the start
\* fails, and frees that pool
StartFindsPool ==
  /\ RxCall("idle", "disable") /\ rxPool # 0
  /\ rxThen' = "failed"
  /\ UNCHANGED <<rxDevice, rxEnd>> /\ RxPoolKept /\ RxOwnerOnly

\* k buffers of a new pool reach the ring; all of them have to, and the filter has to be set
StartIgbReceiveEngine(k, filterSet) ==
  /\ rxCall = "idle" /\ rxPool = 0 /\ rxPools < RxMaxPools
  /\ LET p == rxPools + 1
         handed == {p} \X (1 .. k)
         done == k = RxPoolSize /\ filterSet
     IN /\ rxPool' = p /\ rxPools' = p
        /\ mPacketList' = handed /\ rxRing' = rxRing \cup handed
        /\ rxFilter' = done
        /\ rxCall' = IF done THEN "thread" ELSE "disable"
  /\ rxThen' = "failed"
  /\ UNCHANGED <<rxFilled, rxQueue, rxen, rxEnd>> /\ RxOwnerOnly

\* IasThread::start(), which leaves a thread that runs alone and joins one whose run() has returned
StartReceiveThread ==
  /\ RxCall("thread", "started")
  /\ IF IsRunning THEN UNCHANGED <<rxWork, rxPacket>> ELSE rxWork' = "before" /\ rxPacket' = NoPacket
  /\ UNCHANGED <<rxThen, rxDevice, rxBurst, recover, rxDog, rxEnd, link, again>> /\ RxPoolKept

StartThreadFails ==
  /\ RxCall("thread", "disable") /\ ~IsRunning /\ rxThen' = "failed"
  /\ UNCHANGED <<rxDevice, rxEnd>> /\ RxPoolKept /\ RxOwnerOnly

\* the handler's start fails before it gets to this engine
OtherStartFails ==
  /\ RxCall("idle", "failed")
  /\ UNCHANGED <<rxThen, rxDevice, rxEnd>> /\ RxPoolKept /\ RxOwnerOnly

\* the stopping flag of the thread is set, then shutDown() called, then the worker joined;
\* a worker that has ended by itself keeps the pool
StopEngine ==
  /\ RxCall("started", IF IsRunning THEN "shutDown" ELSE "stopped") /\ rxThen' = "stopped"
  /\ UNCHANGED <<rxDevice, rxEnd>> /\ RxPoolKept /\ RxOwnerOnly

\* the destructor, of an engine in any state between two calls
DeleteEngine ==
  /\ rxCall \in {"started", "stopped", "failed"}
  /\ rxCall' = IF IsRunning THEN "shutDown" ELSE "disable"
  /\ rxThen' = "deleted"
  /\ UNCHANGED <<rxDevice, rxEnd>> /\ RxPoolKept /\ RxOwnerOnly

ShutDownReceiver ==
  /\ RxCall("shutDown", "join") /\ rxEnd' = TRUE
  /\ UNCHANGED <<rxThen, rxDevice>> /\ RxPoolKept /\ RxOwnerOnly

JoinReceiver ==
  /\ RxCall("join", "disable") /\ rxWork = "ended" /\ rxWork' = "none"
  /\ UNCHANGED <<rxThen, rxDevice, rxBurst, recover, rxPacket, rxDog, rxEnd, link, again>> /\ RxPoolKept

\* stopIgbReceiveEngine(): the filter and the queue first, then the pool; the ring is left as it is
DisableQueue ==
  /\ RxCall("disable", "free")
  /\ rxFilter' = FALSE /\ rxQueue' = FALSE
  /\ UNCHANGED <<rxThen, rxRing, rxFilled, rxen, rxEnd>> /\ RxPoolKept /\ RxOwnerOnly

FreePool ==
  /\ rxCall = "free" /\ rxCall' = rxThen
  /\ mPacketList' = {} /\ rxPool' = 0
  /\ UNCHANGED <<rxThen, rxPools, rxDevice, rxEnd>> /\ RxOwnerOnly

\* resuming, the handler initialises the device before it starts the engine again, of which it
\* knows only that its own last start has failed or that it has stopped it
ResumeDevice ==
  /\ rxCall \in {"stopped", "failed", "started"} /\ rxCall' = "idle"
  /\ rxRing' = {} /\ rxFilled' = <<>> /\ rxQueue' = TRUE
  /\ again' = IsRunning
  /\ UNCHANGED <<rxThen, rxFilter, rxen, rxEnd, rxBurst, recover, rxLocals, link>> /\ RxPoolKept

----------------------------------------------------------------------------
(* The worker: beforeRun() and run()                                       *)

RxWork(from, to) == rxWork = from /\ rxWork' = to
RxWorkerOnly == UNCHANGED <<rxOwner, rxBurst, recover, link, again>>
RxDeviceKept == UNCHANGED rxDevice

\* stop() may come before, between or after these two
ReceiverBeforeRun ==
  /\ RxWork("before", "check") /\ rxEnd' = FALSE
  /\ UNCHANGED <<rxPacket, rxDog>> /\ RxDeviceKept /\ RxWorkerOnly

ReceiverCheckState ==
  /\ RxWork("check", IF rxCall \in {"shutDown", "join"} THEN "ended" ELSE "loop")
  /\ UNCHANGED <<rxPacket, rxDog, rxEnd>> /\ RxDeviceKept /\ RxWorkerOnly

\* while (!mEndThread); at its end the worker unregisters its watchdog
ReceiverLoop ==
  /\ RxWork("loop", IF rxEnd THEN "ended" ELSE "link")
  /\ rxDog' = IF rxEnd /\ rxDog = "on" THEN "off" ELSE rxDog
  /\ UNCHANGED <<rxPacket, rxEnd>> /\ RxDeviceKept /\ RxWorkerOnly

\* mutant: a worker that waits for the link does not look at mEndThread
AwaitLinkOnly ==
  /\ RxWork("link", IF link THEN "cycle" ELSE "link")
  /\ rxDog' = IF ~link /\ rxDog = "on" THEN "off" ELSE rxDog
  /\ UNCHANGED <<rxPacket, rxEnd>> /\ RxDeviceKept /\ RxWorkerOnly

\* without link the worker sleeps, with its watchdog unregistered
AwaitLink ==
  /\ RxWork("link", IF link \/ rxEnd THEN "cycle" ELSE "link")
  /\ rxDog' = IF ~link /\ ~rxEnd /\ rxDog = "on" THEN "off" ELSE rxDog
  /\ UNCHANGED <<rxPacket, rxEnd>> /\ RxDeviceKept /\ RxWorkerOnly

\* the watchdog is registered when it is not, and reset; a failure ends the worker
ResetWatchdog ==
  \/ rxDog' = (IF rxDog = "none" THEN "none" ELSE "on") /\ UNCHANGED rxEnd
  \/ rxDog = "off" /\ rxEnd' = TRUE /\ UNCHANGED rxDog

\* the idle time is over, or the timeout check is due: all streams are told, nothing is received
IdleCycle ==
  /\ RxWork("cycle", "loop") /\ ResetWatchdog
  /\ UNCHANGED rxPacket /\ RxDeviceKept /\ RxWorkerOnly

ReceiveCycle ==
  /\ RxWork("cycle", "drain") /\ rxBurst' = 0
  /\ UNCHANGED <<rxPacket, rxDog, rxEnd, rxOwner, recover, link, again>> /\ RxDeviceKept

\* the loop is left with errno as it is: anything but EAGAIN ends the worker
LeaveDrain == RxWork("drain", "loop") /\ rxEnd' \in {rxEnd, TRUE} /\ UNCHANGED rxDog

\* mutant: a buffer whose refresh fails is forgotten
RefreshForgets ==
  /\ rxPacket # NoPacket
  /\ \/ /\ rxRing' = rxRing \cup {rxPacket} /\ rxPacket' = NoPacket
        /\ UNCHANGED <<rxWork, rxDog, rxEnd>>
     \/ LeaveDrain /\ rxPacket' = NoPacket /\ UNCHANGED rxRing
  /\ rxWork = "drain"
  /\ UNCHANGED <<rxFilled, rxQueue, rxFilter, rxen>> /\ RxWorkerOnly

\* the buffer of the last packet goes back to the ring; if it does not, it is kept for the next cycle
RefreshBuffer ==
  /\ rxPacket # NoPacket
  /\ \/ /\ rxRing' = rxRing \cup {rxPacket} /\ rxPacket' = NoPacket
        /\ UNCHANGED <<rxWork, rxDog, rxEnd>>
     \/ LeaveDrain /\ UNCHANGED <<rxRing, rxPacket>>
  /\ rxWork = "drain"
  /\ UNCHANGED <<rxFilled, rxQueue, rxFilter, rxen>> /\ RxWorkerOnly

TakePacket ==
  /\ RxWork("drain", "dispatch") /\ rxPacket = NoPacket /\ rxFilled # <<>>
  /\ rxPacket' = Head(rxFilled) /\ rxFilled' = Tail(rxFilled)
  /\ UNCHANGED <<rxRing, rxQueue, rxFilter, rxen, rxDog, rxEnd>> /\ RxWorkerOnly

\* nothing has arrived: the receiver may have been switched off behind the worker's back
NothingArrived ==
  /\ rxPacket = NoPacket /\ rxFilled = <<>> /\ LeaveDrain
  /\ rxen' = (rxen \/ recover)
  /\ UNCHANGED <<rxPacket, rxRing, rxFilled, rxQueue, rxFilter>> /\ RxWorkerOnly

\* the packet is dispatched; only one that leaves its stream valid resets the watchdog
DispatchReceived ==
  /\ RxWork("dispatch", "drain")
  /\ ResetWatchdog \/ UNCHANGED <<rxDog, rxEnd>>
  /\ UNCHANGED rxPacket /\ RxDeviceKept /\ RxWorkerOnly

----------------------------------------------------------------------------
(* The device, the link and other programs                                 *)

Receiving == rxQueue /\ rxFilter /\ rxen

\* the loop that drains the ring does not look at mEndThread and holds the engine's lock: it only
\* ends because the worker is faster than the network, RxBurst packets at a time
DeviceReceives ==
  /\ Receiving /\ link
  /\ LET draining == rxWork \in {"drain", "dispatch"} IN
     /\ draining => rxBurst < RxBurst
     /\ rxBurst' = IF draining THEN rxBurst + 1 ELSE 0
  /\ \E b \in rxRing : rxRing' = rxRing \ {b} /\ rxFilled' = Append(rxFilled, b)
  /\ UNCHANGED <<rxOwner, rxQueue, rxFilter, rxen, recover, rxLocals, rxEnd, link, again>>

LinkChanges == link' = ~link /\ UNCHANGED <<rxOwner, rxDevice, rxBurst, recover, rxLocals, rxEnd, again>>

RxenLost == rxen /\ rxen' = FALSE
  /\ UNCHANGED <<rxOwner, rxRing, rxFilled, rxQueue, rxFilter, rxBurst, recover, rxLocals, rxEnd, link, again>>

\* the handler of a fatal signal switches the device off, whatever the engine is doing
EmergencyShutdown ==
  /\ rxQueue /\ rxCall # "deleted"
  /\ rxFilter' = FALSE /\ rxQueue' = FALSE
  /\ UNCHANGED <<rxOwner, rxRing, rxFilled, rxen, rxBurst, recover, rxLocals, rxEnd, link, again>>

----------------------------------------------------------------------------
RxInit ==
  /\ rxCall = "idle" /\ rxThen = "failed" /\ rxPool = 0 /\ rxPools = 0 /\ mPacketList = {}
  /\ rxRing = {} /\ rxFilled = <<>> /\ rxQueue = TRUE /\ rxFilter = FALSE
  /\ rxen \in BOOLEAN /\ rxBurst = 0 /\ recover \in BOOLEAN
  /\ rxWork = "none" /\ rxPacket = NoPacket /\ rxEnd = FALSE
  /\ rxDog \in {"none", "off"} /\ link \in BOOLEAN
  /\ again = FALSE

RxReturns ==
  \/ StartReceiveThread \/ StartThreadFails \/ ShutDownReceiver \/ JoinReceiver \/ DisableQueue \/ FreePool

RxEngine ==
  \/ StartFindsPool \/ (\E k \in 0 .. RxPoolSize, f \in BOOLEAN : StartIgbReceiveEngine(k, f))
  \/ OtherStartFails \/ StopEngine \/ DeleteEngine \/ ResumeDevice

RxWorker ==
  \/ ReceiverBeforeRun \/ ReceiverCheckState \/ ReceiverLoop \/ AwaitLink \/ IdleCycle \/ ReceiveCycle
  \/ RefreshBuffer \/ TakePacket \/ NothingArrived \/ DispatchReceived

RxNext ==
  \/ RxReturns \/ RxEngine \/ RxWorker
  \/ DeviceReceives \/ LinkChanges \/ RxenLost \/ EmergencyShutdown

RxSpec == RxInit /\ [][RxNext]_rxVars

----------------------------------------------------------------------------
(* Properties                                                              *)

RxTypeOK ==
  /\ rxCall \in {"idle", "thread", "started", "shutDown", "join", "disable", "free", "stopped", "failed", "deleted"}
  /\ rxThen \in {"stopped", "failed", "deleted"} /\ rxPool \in 0 .. RxMaxPools /\ rxPools \in 0 .. RxMaxPools
  /\ rxWork \in {"none", "before", "check", "loop", "link", "cycle", "drain", "dispatch", "ended"}
  /\ rxDog \in {"none", "off", "on"} /\ rxBurst \in 0 .. RxBurst
  /\ {rxQueue, rxFilter, rxen, recover, rxEnd, link, again} \subseteq BOOLEAN

\* The device never writes to, and the worker never reads, a buffer of a pool that has been freed,
\* in spite of buffers that stay in the ring over stop(), of a worker that is joined from any point
\* and of starts that fail anywhere; no buffer is lost between the ring and the worker's hands, so
\* that the ring never dries up. Only a resume that finds the worker running breaks this, which
\* takes an earlier one that has failed in an engine started later: the start that follows frees
\* the pool under the worker, or gives it buffers the worker's own come among. Not even then is a
\* worker that has ended still watched, or the process would be killed.
\* (start, startIgbReceiveEngine, stopIgbReceiveEngine, run)
ReceiveBuffersKept ==
  /\ RxTypeOK
  /\ ~again =>
       /\ Receiving => OfDevice \subseteq LiveBuffers
       /\ IsRunning => rxPacket \in LiveBuffers \cup {NoPacket}
       /\ IsRunning => LiveBuffers \subseteq OfDevice \cup {rxPacket} /\ mPacketList = LiveBuffers
       /\ IsRunning => rxPool # 0
  /\ ~IsRunning => rxDog # "on"

\* A received packet is dispatched unless the link is lost or the worker ends; a receiver that
\* another program has switched off comes back; and stop() and the destructor return, wherever the
\* worker is, with or without link. The buffers of a pool are interchangeable, so one stands for all
ReceiverServes ==
  /\ <<1, 1>> \in ToSet(rxFilled) ~> (<<1, 1>> \notin ToSet(rxFilled) \/ ~link \/ ~IsRunning)
  /\ (~rxen /\ recover) ~> (rxen \/ ~link \/ ~IsRunning)
  /\ rxCall \in {"shutDown", "join"} ~> rxCall \notin {"shutDown", "join"}
=============================================================================
