-------------------------- MODULE ClockController --------------------------
(***************************************************************************)
(* Media clock recovery: an IasAvbClockController compares a master with a *)
(* slave clock domain in a worker of its own. The module models the life   *)
(* of a controller (init, cleanup, destructor), the protocol of IasThread  *)
(* between the thread that starts and stops and the worker, the IasSignal  *)
(* the worker waits for, the lock states of the two domains and the        *)
(* notifications their threads deliver to the controller.                  *)
(*                                                                         *)
(* Abstracted: the rate ratios, counts and the filter, which are floating  *)
(* point (whether a value is within a threshold is an input), and the      *)
(* correction written to the clock driver.                                 *)
(***************************************************************************)
EXTENDS Integers

CONSTANT
  LockCountMax  \* consecutive good rates before the phase is locked

ASSUME ControllerConstants == LockCountMax \in Nat

Domains == {"master", "slave"}
Flags == {"IsStarting", "Started", "Running", "IsStopping"}

VARIABLES
  api,       \* where the thread that owns the controller is
  then,      \* where IasThread::stop() returns to
  old,       \* oldThreadState in IasThread::stop()
  worker,    \* where the worker is; "gone": there is none
  flags,     \* mThreadState
  end,       \* mEndThread
  pending,   \* mNumSignalsPending of mSignal
  hooked,    \* domains mMaster and mSlave point to
  lock,      \* mLockState of the controller
  newLock,   \* what the worker is about to store there, "Keep": nothing
  lockCount,
  client,    \* client[d]: mClient of domain d is the controller
  domain,    \* domain[d]: mLockState of domain d; an initial state behaves as unlocked
  updater,   \* where the thread that updates domain d is
  fresh,     \* the count of d has changed since the worker read it
  crashed    \* a NULL domain or a freed controller has been used: undefined behaviour

threadVars == <<api, then, old, worker, flags>>
ctlVars == <<lock, newLock, lockCount>>
domVars == <<domain, updater, fresh>>
vars == <<threadVars, end, pending, hooked, ctlVars, client, domVars, crashed>>

Exists == api # "none"

----------------------------------------------------------------------------
(* IasSignal: at most one signal is pending                                *)

SignalFails == pending = 1
SignalRaised == pending' = 1
SignalTaken == pending = 1 /\ pending' = 0

----------------------------------------------------------------------------
(* The owner of the controller: setClockRecoveryParams(), cleanup()        *)

Api(from, to) == ~crashed /\ api = from /\ api' = to
OwnerOnly == UNCHANGED <<worker, ctlVars, domVars, crashed>>

\* the caller hands over a master and a slave that exist
New ==
  /\ Api("none", "init")
  /\ UNCHANGED <<then, old, flags, end, pending, hooked, client>> /\ OwnerOnly

\* without a clock driver nothing is registered
InitWithoutDriver ==
  /\ Api("init", "cleanup")
  /\ UNCHANGED <<then, old, flags, end, pending, hooked, client>> /\ OwnerOnly

\* the slave, or the master, has a client already
InitInUse ==
  /\ Api("init", "cleanup")
  /\ hooked' = Domains
  /\ \E registered \in BOOLEAN : client' = [client EXCEPT !["slave"] = registered]
  /\ UNCHANGED <<then, old, flags, end, pending>> /\ OwnerOnly

InitRegisters ==
  /\ Api("init", "start")
  /\ hooked' = Domains /\ client' = [d \in Domains |-> TRUE]
  /\ UNCHANGED <<then, old, flags, end, pending>> /\ OwnerOnly

\* IasThread::start(true): the state is swapped from invalid to starting
StartEnters ==
  /\ Api("start", "create") /\ flags = {}
  /\ flags' = {"IsStarting"}
  /\ UNCHANGED <<then, old, end, pending, hooked, client>> /\ OwnerOnly

\* Started is set before the thread exists
StartCreates ==
  /\ Api("create", "barrier") /\ worker' = "new"
  /\ flags' = flags \cup {"Started"}
  /\ UNCHANGED <<then, old, end, pending, hooked, client, ctlVars, domVars, crashed>>

\* pthread_create fails; the stop() start() then calls is refused
CreateFails ==
  /\ Api("create", "cleanup")
  /\ flags' = flags \ {"IsStarting", "Started"}
  /\ UNCHANGED <<then, old, end, pending, hooked, client>> /\ OwnerOnly

StartLeaves ==
  /\ Api("started", "alive")
  /\ flags' = flags \ {"IsStarting"}
  /\ UNCHANGED <<then, old, end, pending, hooked, client>> /\ OwnerOnly

Destroy ==
  /\ Api("alive", "cleanup")
  /\ UNCHANGED <<then, old, flags, end, pending, hooked, client>> /\ OwnerOnly

CleanupStops ==
  /\ Api("cleanup", IF "Running" \in flags THEN "stop" ELSE "unhookSlave")
  /\ then' = "unhookSlave"
  /\ UNCHANGED <<old, flags, end, pending, hooked, client>> /\ OwnerOnly

CleanupUnhooks(d, from, to) ==
  /\ Api(from, to)
  /\ hooked' = hooked \ {d} /\ client' = [client EXCEPT ![d] = FALSE]
  /\ UNCHANGED <<then, old, flags, end, pending>> /\ OwnerOnly

\* ~IasThread stops a thread whose state is not invalid
ThreadDestructor ==
  /\ Api("threadDtor", IF flags = {} THEN "delete" ELSE "stop")
  /\ then' = "delete"
  /\ UNCHANGED <<old, flags, end, pending, hooked, client>> /\ OwnerOnly

\* what the constructor sets
Cleared ==
  /\ then' = "unhookSlave" /\ old' = {} /\ flags' = {} /\ end' = FALSE /\ pending' = 0
  /\ lock' = "Init" /\ newLock' = "Keep" /\ lockCount' = 0

\* the object is freed, also when its thread could not be stopped, and also under a domain
\* that has read mClient and is about to call it
Deleted ==
  /\ Api("delete", "none") /\ Cleared
  /\ crashed' = (worker # "gone" \/ \E d \in Domains : updater[d] \in {"notify", "notifyLock"})
  /\ UNCHANGED <<worker, hooked, client, domVars>>

----------------------------------------------------------------------------
(* IasThread::stop()                                                       *)

StopEnters ==
  /\ Api("stop", IF "Running" \in flags THEN "shutDown" ELSE "join")
  /\ old' = flags /\ flags' = flags \cup {"IsStopping"}
  /\ UNCHANGED <<then, end, pending, hooked, client>> /\ OwnerOnly

ShutDown ==
  /\ Api("shutDown", "wake") /\ end' = TRUE
  /\ UNCHANGED <<then, old, flags, pending, hooked, client>> /\ OwnerOnly

ShutDownWakes ==
  /\ Api("wake", "join") /\ ~SignalFails /\ SignalRaised
  /\ UNCHANGED <<then, old, flags, end, hooked, client>> /\ OwnerOnly

\* a signal is pending already: shutDown() reports a failure, and stop() does not join
ShutDownFails ==
  /\ Api("wake", then) /\ SignalFails
  /\ flags' = flags \ {"IsStopping"} /\ old' = {}
  /\ UNCHANGED <<then, end, pending, hooked, client>> /\ OwnerOnly

\* pthread_join returns and the state is invalid again
Join ==
  /\ Api("join", then)
  /\ "Started" \in old => worker = "gone"
  /\ flags' = {} /\ old' = {}
  /\ UNCHANGED <<then, end, pending, hooked, client>> /\ OwnerOnly

Owner ==
  \/ InitWithoutDriver \/ InitInUse \/ InitRegisters \/ StartEnters \/ StartCreates \/ CreateFails \/ StartLeaves
  \/ CleanupStops
  \/ CleanupUnhooks("slave", "unhookSlave", "unhookMaster")
  \/ CleanupUnhooks("master", "unhookMaster", "threadDtor")
  \/ ThreadDestructor \/ Deleted
  \/ StopEnters \/ ShutDown \/ ShutDownWakes \/ ShutDownFails \/ Join

----------------------------------------------------------------------------
(* IasThread::run()                                                        *)

Step(from, to) == ~crashed /\ worker = from /\ worker' = to
WorkerOnly == UNCHANGED <<then, old, hooked, client, domain, updater>>

RunEnters ==
  /\ Step("new", "barrier") /\ flags' = flags \cup {"Running"}
  /\ UNCHANGED <<api, end, pending, ctlVars, fresh, crashed>> /\ WorkerOnly

\* both sides leave the barrier once both have arrived
Barrier ==
  /\ Api("barrier", "started") /\ Step("barrier", "beforeRun")
  /\ UNCHANGED <<flags, end, pending, ctlVars, fresh, crashed>> /\ WorkerOnly

BeforeRun ==
  /\ Step("beforeRun", "check") /\ end' = FALSE
  /\ UNCHANGED <<api, flags, pending, ctlVars, fresh, crashed>> /\ WorkerOnly

\* mutant: the state is not looked at after beforeRun()
RunsAnyway ==
  /\ Step("check", "loop")
  /\ UNCHANGED <<api, flags, end, pending, ctlVars, fresh, crashed>> /\ WorkerOnly

\* a stop() that came before run() is seen here: beforeRun() has wiped its end flag
CheckState ==
  /\ Step("check", IF "IsStopping" \in flags \/ "Running" \notin flags THEN "afterRun" ELSE "loop")
  /\ UNCHANGED <<api, flags, end, pending, ctlVars, fresh, crashed>> /\ WorkerOnly

AfterRun ==
  /\ Step("afterRun", "gone") /\ flags' = flags \ {"Running"}
  /\ UNCHANGED <<api, end, pending, ctlVars, fresh, crashed>> /\ WorkerOnly

----------------------------------------------------------------------------
(* IasAvbClockController::run()                                            *)

Loop ==
  /\ Step("loop", IF end THEN "afterRun" ELSE "wait")
  /\ UNCHANGED <<api, flags, end, pending, ctlVars, fresh, crashed>> /\ WorkerOnly

Wait ==
  /\ Step("wait", IF end THEN "loop" ELSE "measure") /\ SignalTaken
  /\ UNCHANGED <<api, flags, end, ctlVars, fresh, crashed>> /\ WorkerOnly

\* mutant: only the slave's progress is looked at
MeasuredSlave == IF fresh["slave"] THEN lock ELSE "Unlocked"

\* a domain that has not counted since the last time unlocks the controller
Measured == IF \A d \in Domains : fresh[d] THEN lock ELSE "Unlocked"

\* both counts are read; slave time that runs backwards asks the master to start over, which
\* SetFilter may do at any time
Measure ==
  /\ Step("measure", "switch")
  /\ lock' = Measured
  /\ fresh' = [d \in Domains |-> FALSE]
  /\ crashed' = (hooked # Domains)
  /\ UNCHANGED <<api, flags, end, pending, newLock, lockCount>> /\ WorkerOnly

\* lock state and count that follow from lock l; whether the rates agree (near), the phase is
\* right (small) or lost (large) are inputs
Decided(l, near, small, large) ==
  CASE l = "Init" -> <<"Unlocked", lockCount>>
    [] l = "Unlocked" -> IF domain["master"] = "Locked" THEN <<"LockingRate", 0>> ELSE <<l, lockCount>>
    [] l = "LockingRate" ->
         IF ~near THEN <<l, 0>>
         ELSE IF lockCount + 1 > LockCountMax THEN <<"LockingPhase", 0>> ELSE <<l, lockCount + 1>>
    [] l \in {"LockingPhase", "Locked"} ->
         IF large THEN <<"LockingRate", 0>>
         ELSE <<IF small THEN "Locked" ELSE l, lockCount>>

Switch ==
  /\ Step("switch", "store")
  /\ \E near, small, large \in BOOLEAN :
       /\ ~(small /\ large)
       /\ newLock' = IF Decided(lock, near, small, large)[1] = lock THEN "Keep"
                     ELSE Decided(lock, near, small, large)[1]
       /\ lockCount' = Decided(lock, near, small, large)[2]
  /\ crashed' = (hooked # Domains)
  /\ UNCHANGED <<api, flags, end, pending, lock, fresh>> /\ WorkerOnly

\* the state is only stored when it changes; a notification in between is overwritten. Then
\* the correction goes to the driver and the worker sleeps
Store ==
  /\ Step("store", "loop")
  /\ lock' = IF newLock = "Keep" THEN lock ELSE newLock
  /\ newLock' = "Keep"
  /\ UNCHANGED <<api, flags, end, pending, lockCount, fresh, crashed>> /\ WorkerOnly

Worker ==
  \/ RunEnters \/ BeforeRun \/ CheckState \/ AfterRun
  \/ Loop \/ Wait \/ Measure \/ Switch \/ Store

----------------------------------------------------------------------------
(* The threads that update the clock domains: a receive worker for the     *)
(* master, the capture thread of the hardware clock for the slave          *)

Updater(d, from, to) == ~crashed /\ updater[d] = from /\ updater' = [updater EXCEPT ![d] = to]
DomainOnly == UNCHANGED <<threadVars, end, hooked, newLock, lockCount, client, crashed>>

\* the lock state after an update: the ratio is within both bounds (in1, in2) or not
Judged(l, in1, in2) ==
  IF l = "Locked" THEN (IF in2 THEN l ELSE "Unlocked")
  ELSE IF in1 /\ in2 THEN "Locked" ELSE "Locking"

\* the end of updateRateRatio(): a lock won or lost is told to the client there is by now
JudgeLock(d, from) ==
  \E in1, in2 \in BOOLEAN :
    LET l == Judged(domain[d], in1, in2)
        changed == (l = "Locked") # (domain[d] = "Locked") IN
    /\ Updater(d, from, IF changed /\ client[d] THEN "notifyLock" ELSE "idle")
    /\ domain' = [domain EXCEPT ![d] = l]

\* the count goes on, and updateRateRatio() finds a client to notify or none
UpdateRateRatio(d) ==
  /\ fresh' = [fresh EXCEPT ![d] = TRUE]
  /\ IF client[d] THEN Updater(d, "idle", "notify") /\ UNCHANGED domain ELSE JudgeLock(d, "idle")
  /\ UNCHANGED <<pending, lock>> /\ DomainOnly

NotifyUpdateRatio(d) ==
  /\ JudgeLock(d, "notify")
  /\ IF d = "slave" /\ d \in hooked THEN SignalRaised ELSE UNCHANGED pending
  /\ UNCHANGED <<fresh, lock>> /\ DomainOnly

\* setFilter() by a reset, on the controller's request or not, or by an invalidation
SetFilter(d) ==
  /\ domain[d] \in {"Locking", "Locked"}
  /\ Updater(d, "idle", IF client[d] THEN "notifyLock" ELSE "idle")
  /\ domain' = [domain EXCEPT ![d] = "Unlocked"]
  /\ UNCHANGED <<fresh, pending, lock>> /\ DomainOnly

NotifyUpdateLockState(d) ==
  /\ Updater(d, "notifyLock", "idle")
  /\ lock' = IF hooked = Domains /\ domain[d] # "Locked" /\ lock \in {"LockingRate", "LockingPhase", "Locked"}
             THEN "Unlocked" ELSE lock
  /\ UNCHANGED <<domain, fresh, pending>> /\ DomainOnly

Notifying(d) == NotifyUpdateRatio(d) \/ NotifyUpdateLockState(d)

----------------------------------------------------------------------------
Init ==
  /\ api = "none" /\ then = "unhookSlave" /\ old = {} /\ worker = "gone" /\ flags = {}
  /\ end = FALSE /\ pending = 0 /\ hooked = {}
  /\ lock = "Init" /\ newLock = "Keep" /\ lockCount = 0
  /\ client = [d \in Domains |-> FALSE]
  /\ domain = [d \in Domains |-> "Unlocked"] /\ updater = [d \in Domains |-> "idle"]
  /\ fresh = [d \in Domains |-> FALSE]
  /\ crashed = FALSE

Next ==
  \/ New \/ Destroy \/ Owner \/ Barrier \/ Worker
  \/ \E d \in Domains : UpdateRateRatio(d) \/ SetFilter(d) \/ Notifying(d)

Spec == Init /\ [][Next]_vars

\* the threads are scheduled and the capture thread goes on updating the slave; nothing
\* obliges the owner to create or destroy a controller or the master to be updated
FairSpec ==
  /\ Spec
  /\ WF_vars(Owner) /\ WF_vars(Barrier) /\ WF_vars(Worker)
  /\ \A d \in Domains : WF_vars(Notifying(d))
  /\ WF_vars(UpdateRateRatio("slave"))

----------------------------------------------------------------------------
(* Properties                                                              *)

\* types of the variables
TypeOK ==
  /\ api \in {"none", "init", "start", "create", "barrier", "started", "alive", "cleanup", "stop", "shutDown",
        "wake", "join", "unhookSlave", "unhookMaster", "threadDtor", "delete"}
  /\ then \in {"unhookSlave", "delete"} /\ old \subseteq Flags /\ flags \subseteq Flags
  /\ worker \in {"gone", "new", "barrier", "beforeRun", "check", "afterRun", "loop", "wait",
        "measure", "switch", "store"}
  /\ end \in BOOLEAN /\ pending \in 0 .. 1 /\ hooked \subseteq Domains
  /\ lock \in {"Init", "Unlocked", "LockingRate", "LockingPhase", "Locked"}
  /\ newLock \in {"Keep", "Unlocked", "LockingRate", "LockingPhase", "Locked"}
  /\ lockCount \in 0 .. LockCountMax
  /\ client \in [Domains -> BOOLEAN] /\ fresh \in [Domains -> BOOLEAN]
  /\ domain \in [Domains -> {"Unlocked", "Locking", "Locked"}]
  /\ updater \in [Domains -> {"idle", "notify", "notifyLock"}]
  /\ crashed \in BOOLEAN

\* a thread state that says invalid is true: once stop() has returned without an error, or
\* start() with one, no worker exists, however the end flag, the wiping of it in beforeRun(),
\* the barrier and the running flag interleave. And the running flag that cleanup() relies on is
\* set from the return of start() until the worker has been told to end: cleanup() never skips
\* the stop of a worker that may still run
FlagsFollowThread ==
  /\ TypeOK
  /\ Exists /\ flags = {} => worker = "gone"
  /\ api \in {"alive", "cleanup"} /\ worker # "gone" => "Running" \in flags

\* pthread_join in IasThread::stop() returns: the worker cannot miss the end flag, be it asleep
\* in mSignal.wait(), before run() or in the middle of a cycle
StopReturns == (api = "join") ~> (api # "join" \/ crashed)

\* a controller whose master has stopped counting for good gives up the phase lock and does not
\* take it again, whatever the lock states of the domains say
StoppedMasterUnlocks ==
  <>[](~fresh["master"] /\ updater["master"] = "idle" /\ api = "alive")
    => <>[](lock \in {"Init", "Unlocked", "LockingRate"})
=============================================================================
