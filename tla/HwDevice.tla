----------------------------- MODULE HwDevice -----------------------------
(***************************************************************************)
(* An ALSA hardware device (IasAlsaHwDeviceHandler) with the thread that   *)
(* converts its sample rate (IasAlsaHandlerWorkerThread). The thread moves *)
(* frames between the device and the ASRC ring; at the other end of the    *)
(* ring the copyJob of the ALSA worker moves them from or to the local     *)
(* audio buffers. A sink is read from the ring, a source is written to it; *)
(* the code treats both alike by counting the frames that are available on *)
(* its own side, and so does the model.                                    *)
(*                                                                         *)
(* The ring, the device and the converter are libraries: the ring grants   *)
(* any part of what is available, the device delivers any number of        *)
(* frames, times out or fails, the converter uses up its input or fills    *)
(* its output. Times are not modelled: the virtual frames, which stand for *)
(* the time since the last access of the other end, may be any number.     *)
(* Abstracted: sample formats and values, the ratio controller, what       *)
(* copyJob does with the local buffers (see AlsaStream), logging.          *)
(***************************************************************************)
EXTENDS Integers, FiniteSets

CONSTANTS
  Period,      \* periodSize, in frames
  NumPeriods,  \* numPeriodsAsrcBuffer
  Startup,     \* periods both buffers have to transfer in the start-up phase
  Assume       \* see Quiet

ASSUME HwConstants ==
  /\ Period \in Nat \ {0} /\ NumPeriods \in Nat \ {0} /\ Startup \in Nat
  /\ Assume \subseteq {"paced"}

VARIABLES
  type,     \* mDeviceType
  api,      \* the engine's call: "none", "created", "ready", "start", "alive", "join", "deleted"
  held,     \* what the handler has acquired
  running,  \* mThreadIsRunning
  thread,   \* where the thread is
  level,    \* frames in the ring
  avail,    \* asrcBufferNumFramesAvailable
  device,   \* deviceBufferNumFramesAvailable, then the frames still to transfer
  cntD, cntA, finished, active,  \* the thread's locals
  copy,     \* frames granted to the copyJob under way, -1 outside
  aborted   \* an assertion has failed

hwLocals == <<cntD, cntA, finished, active>>
hwVars == <<type, api, held, running, thread, level, avail, device, hwLocals, copy, aborted>>

Length == NumPeriods * Period
Target == (Length + Period) \div 2
Lesser(a, b) == IF a <= b THEN a ELSE b
NoCopy == -1

(* What the code does not enforce and "paced" grants: the other end begins and *)
(* ends no access between the thread's reset of the ring and the end of the    *)
(* loop that fills it, which takes far less than a period.                     *)
Quiet(a, cond) == a \in Assume => cond

\* frames available at the thread's end and at the other one; moving n frames at either end
Mine == IF type = "sink" THEN level ELSE Length - level
Other == Length - Mine
MovedHere(n) == IF type = "sink" THEN level - n ELSE level + n
MovedThere(n) == IF type = "sink" THEN level + n ELSE level - n
Granted(n, available) == IF available = 0 THEN {0} ELSE 1 .. Lesser(n, available)

Live == ~aborted
Step(from, to) == Live /\ thread = from /\ thread' = to

----------------------------------------------------------------------------
(* The handler, called by the ALSA engine. *)

\* the worker thread's own init(); initHandler() asserts that it succeeds
CreateWorker == held' = {"mirror", "asrc", "worker"} /\ api' = "start"

\* initHandler(): output, mirror ring, ASRC ring, worker thread; any may fail, and what has
\* been acquired is kept until the destructor
InitHandler ==
  /\ Live /\ api = "created"
  /\ \/ /\ held' \in {{}, {"mirror"}, {"mirror", "asrc"}} /\ api' = "ready"
     \/ CreateWorker
  /\ UNCHANGED <<type, running, thread, level, avail, device, hwLocals, copy, aborted>>

\* start() up to the ring: the device is opened and takes the hardware and software parameters
OpenDevice ==
  /\ Live /\ api = "start" /\ "pcm" \notin held
  /\ \/ held' = held \cup {"pcm"} /\ api' = api
     \/ held' = held /\ api' = "alive"
  /\ UNCHANGED <<type, running, thread, level, avail, device, hwLocals, copy, aborted>>

\* set_hwparams, set_swparams or setDeviceHandle has failed: the device stays open
StartFails ==
  /\ Live /\ api = "start" /\ "pcm" \in held
  /\ api' = "alive"
  /\ UNCHANGED <<type, held, running, thread, level, avail, device, hwLocals, copy, aborted>>

\* the rest of start(): the ring is reset and the thread is started
StartThread ==
  /\ Live /\ api = "start" /\ "pcm" \in held
  /\ level' = 0 /\ running' = TRUE /\ thread' = "enter" /\ api' = "alive"
  /\ UNCHANGED <<type, held, avail, device, hwLocals, copy, aborted>>

\* mutant: the flag is left as it is
ShutDownKeeps ==
  /\ Live /\ api \in {"ready", "alive"} /\ copy = NoCopy
  /\ api' = "join"
  /\ UNCHANGED <<type, held, running, thread, level, avail, device, hwLocals, copy, aborted>>

\* the destructor calls stop(), which tells the thread to end ...
ShutDown ==
  /\ Live /\ api \in {"ready", "alive"} /\ copy = NoCopy
  /\ running' = FALSE /\ api' = "join"
  /\ UNCHANGED <<type, held, thread, level, avail, device, hwLocals, copy, aborted>>

\* ... joins it, closes the device, and deletes the thread object and the mirror ring
Delete ==
  /\ Live /\ api = "join" /\ thread = "off"
  /\ held' = held \ {"pcm", "worker", "mirror"} /\ api' = "deleted"
  /\ UNCHANGED <<type, running, thread, level, avail, device, hwLocals, copy, aborted>>

----------------------------------------------------------------------------
(* copyJob in the ALSA worker, from the moment the stream is assigned to it. *)

Assigned == api \in {"start", "alive"}

CopyBegin ==
  /\ Live /\ Assigned /\ "asrc" \in held /\ copy = NoCopy
  /\ Quiet("paced", thread \notin {"prefill", "refill"})
  /\ copy' \in Granted(Period, Other)
  /\ UNCHANGED <<type, api, held, running, thread, level, avail, device, hwLocals, aborted>>

CopyEnd ==
  /\ Live /\ copy # NoCopy
  /\ Quiet("paced", thread \notin {"prefill", "refill"})
  /\ level' = MovedThere(copy) /\ copy' = NoCopy
  /\ UNCHANGED <<type, api, held, running, thread, avail, device, hwLocals, aborted>>

----------------------------------------------------------------------------
(* The thread. *)

ThreadOnly == UNCHANGED <<type, api, held, running, copy>>

\* bufferAdjustFrames: frames are skipped, or zeros inserted; asserts that there are enough
Adjust(n) ==
  /\ aborted' = (n > Mine)
  /\ level' = IF n > Mine THEN level ELSE MovedHere(n)

Enter ==
  /\ Step("enter", "prefill")
  /\ level' = 0 /\ cntD' = 0 /\ cntA' = 0 /\ finished' = FALSE /\ active' = FALSE
  /\ UNCHANGED <<avail, device, aborted>> /\ ThreadOnly

\* one turn of the loop that fills the ring until there is less than the target
FillTurn(from, to) ==
  LET full == Mine >= Target IN
  /\ Live /\ thread = from
  /\ avail' = IF Mine >= Period THEN Mine - Period ELSE Mine
  /\ thread' = IF avail' >= Target THEN from ELSE to
  /\ IF full THEN Adjust(Period) ELSE UNCHANGED <<level, aborted>>
  /\ cntA' = IF full /\ from = "refill" THEN Lesser(cntA + 1, Startup + 1) ELSE cntA
  /\ UNCHANGED <<device, cntD, finished, active>> /\ ThreadOnly

Prefill == FillTurn("prefill", "loop")
Refill == FillTurn("refill", "measure")

EndOfRun ==
  /\ Step("loop", "off") /\ ~running
  /\ UNCHANGED <<level, avail, device, hwLocals, aborted>> /\ ThreadOnly

\* updateAvailable of the device delivers, or times out
DeviceAvailable ==
  /\ Step("loop", "asrc") /\ running
  /\ device' \in {0, Period}
  /\ cntD' = Lesser(cntD + 1, Startup)
  /\ UNCHANGED <<level, avail, cntA, finished, active, aborted>> /\ ThreadOnly

\* the device fails, here or when its buffer is accessed: run() returns, and nobody is told
DeviceFails ==
  /\ \/ Step("loop", "off") /\ running
     \/ Step("transfer", "off")
  /\ UNCHANGED <<level, avail, device, hwLocals, aborted>> /\ ThreadOnly

RingAvailable ==
  /\ Step("asrc", "measure") /\ Mine >= Period
  /\ avail' = Mine /\ cntA' = Lesser(cntA + 1, Startup + 1)
  /\ UNCHANGED <<level, device, cntD, finished, active, aborted>> /\ ThreadOnly

\* the other end has stalled: back to the start-up phase, with an empty ring
FallBack ==
  /\ Step("asrc", "refill") /\ Mine < Period
  /\ level' = 0 /\ cntD' = 0 /\ cntA' = 0 /\ finished' = FALSE
  /\ UNCHANGED <<avail, device, active, aborted>> /\ ThreadOnly

\* mutant: any difference of the time stamps is used
LimitUnchecked == Length + Period

\* numVirtualFramesValid admits at most a period and a quarter
UpperLimit == Period + Period \div 4

\* the end of the start-up phase adjusts the ring to the target level; then it is decided
\* whether frames are transferred
Measure ==
  /\ Live /\ thread = "measure"
  /\ \E virtual \in -1 .. Length + Period, spike \in BOOLEAN :
       LET valid == virtual \in 0 .. UpperLimit /\ ~spike
           ends  == ~finished /\ cntA > Startup /\ cntD >= Startup /\ valid
           surplus == IF ends /\ avail + virtual > Target THEN avail + virtual - Target ELSE 0
       IN /\ finished' = (finished \/ ends)
          /\ Adjust(surplus)
          /\ avail' = avail - surplus
          /\ active' = (finished' \/ avail' >= Target)
  /\ thread' = IF device >= Period THEN "transfer" ELSE "loop"
  /\ UNCHANGED <<device, cntD, cntA>> /\ ThreadOnly

\* what the converter makes of n frames of the ring and d of the device
Converted(n, d) ==
  {c \in (0 .. n) \X (0 .. d) : (c[1] = n \/ c[2] = d) /\ c[1] - c[2] \in -1 .. 1}

\* one turn of the transfer loop, until the period of the device is complete or the ring is
\* used up; the rest of the period is padded or skipped
Transfer ==
  /\ Live /\ thread = "transfer"
  /\ \E n \in Granted(Period, Mine) :
       \E c \in IF active THEN Converted(n, device) ELSE {<<0, 0>>} :
         /\ level' = MovedHere(c[1])
         /\ IF n = 0 \/ ~active \/ c[2] = device
              THEN thread' = "loop" /\ device' = 0
              ELSE thread' = thread /\ device' = device - c[2]
  /\ UNCHANGED <<avail, hwLocals, aborted>> /\ ThreadOnly

----------------------------------------------------------------------------
HwInit ==
  /\ type \in {"sink", "source"}
  /\ api = "created" /\ held = {} /\ running = FALSE /\ thread = "off"
  /\ level = 0 /\ avail = 0 /\ device = 0
  /\ cntD = 0 /\ cntA = 0 /\ finished = FALSE /\ active = FALSE
  /\ copy = NoCopy /\ aborted = FALSE

Engine == InitHandler \/ OpenDevice \/ StartFails \/ StartThread \/ ShutDown \/ Delete
Copy == CopyBegin \/ CopyEnd
Thread ==
  \/ Enter \/ Prefill \/ Refill \/ EndOfRun \/ DeviceAvailable \/ DeviceFails
  \/ RingAvailable \/ FallBack \/ Measure \/ Transfer

HwNext == Engine \/ Copy \/ Thread

HwSpec == HwInit /\ [][HwNext]_hwVars

----------------------------------------------------------------------------
(* Properties. *)

HwTypeOK ==
  /\ type \in {"sink", "source"}
  /\ api \in {"created", "ready", "start", "alive", "join", "deleted"}
  /\ held \subseteq {"mirror", "asrc", "worker", "pcm"} /\ running \in BOOLEAN
  /\ thread \in {"off", "enter", "prefill", "loop", "asrc", "refill", "measure", "transfer"}
  /\ level \in 0 .. Length /\ avail \in 0 .. Length /\ device \in 0 .. Period
  /\ cntD \in 0 .. Startup /\ cntA \in 0 .. Startup + 1
  /\ finished \in BOOLEAN /\ active \in BOOLEAN
  /\ copy \in NoCopy .. Period /\ aborted \in BOOLEAN

\* The thread never adjusts the ring by more frames than there are, although the number comes
\* from a count taken earlier and an estimate of the time since: bufferAdjustFrames asserts it.
\* The ring never holds less than nothing nor more than its length, and while the thread runs
\* the device is open and the rings exist.
AdjustFits ==
  /\ HwTypeOK
  /\ ~aborted
  /\ thread # "off" => {"mirror", "asrc", "worker", "pcm"} \subseteq held

\* The destructor returns, wherever the thread is: it sees mThreadIsRunning in each cycle, and
\* none of its loops depends on the other end of the ring.
StopReturns == (api = "join") ~> (api = "deleted" \/ aborted)
=============================================================================
