----------------------------- MODULE AlsaStream -----------------------------
(***************************************************************************)
(* An ALSA stream with time-aware buffers between its AVB stream and the   *)
(* shared memory of an ALSA client: IasLocalAudioStream with descriptors,  *)
(* IasAlsaVirtualDeviceStream, IasAvbAudioShmProvider and the halves of    *)
(* IasAvbAudioStream that move samples. Rings hold one sequence of samples *)
(* per channel, a queue of descriptors says when which sample is due.      *)
(*                                                                         *)
(* A sample is represented by its time, counted in samples; the delays     *)
(* that are added to all times are left out. The descriptor queue's mutex  *)
(* covers a whole packet and a whole copy job, so each is one action. The  *)
(* mode without descriptors and alsa.sync.rx.read.start are left out.      *)
(***************************************************************************)
EXTENDS Integers, Sequences, FiniteSets

CONSTANTS
  NumChannels, \* mNumChannels
  Period,      \* mPeriodSz, and the frames of one copy job
  Packet,      \* samples per packet and channel
  Total,       \* usable size of a ring, mTotalSize - 1
  Threshold,   \* mReadThreshold
  ShmPeriods,  \* periods in the client's shared memory
  Prefill,     \* mAlsaPrefill, in periods
  SmartX,      \* mIsClientSmartX
  Hard,        \* TRUE: mode hard, FALSE: mode fail-safe
  Validation,  \* mValidationThreshold
  MaxDump,     \* bound on mDumpCount, 10 in the code
  MaxDummy,    \* bound on mDummySamplesSent, 1000 in the code
  Young,       \* the first second of samples
  MaxTime, MaxIndex, \* bounds of the model
  Ahead,       \* how far times of packets lie ahead
  Assume       \* what is assumed of the environment, see ReceivePacket, ConnectStream, CopyJobTx

ASSUME AlsaConstants ==
  /\ {NumChannels, Period, Packet, Total, ShmPeriods, Validation} \subseteq Nat \ {0}
  /\ {Threshold, Prefill, MaxDump, MaxDummy, Young, MaxTime, MaxIndex, Ahead} \subseteq Nat
  /\ Total >= 3 * Period /\ Threshold <= Total /\ Prefill \in 1 .. ShmPeriods
  /\ SmartX \in BOOLEAN /\ Hard \in BOOLEAN
  /\ Assume \subseteq {"reconnect", "drained", "start", "room", "warp"}

VARIABLES
  dir,      \* "rx" from the network, "tx" to it
  buf,      \* rings, read indices, read-ready flags, descriptors and reset request
  pend,     \* mPendingDesc and what is remembered for it, rx
  client,   \* mClientState
  running,  \* mWorkerRunning
  valid,    \* mStreamStateInternal is valid, rx
  count,    \* mValidationCount, rx
  sender,   \* what the transmitting AVB stream keeps
  shm,      \* fill, mBufferState, mAlsaPrefilledSz, mBufRstContCnt, and whether readOffset # 0
  worker,   \* where the ALSA worker thread is
  now,      \* local time, and the reference time of the transmitting stream
  media,    \* time of the next sample from the network or the client
  epoch,    \* the PTP epoch is newer than mLastPtpEpoch
  inverted, \* an underrun was signalled while the buffers were locked
  owed      \* dummy samples sent less samples dumped for them

alsaVars == <<dir, buf, pend, client, running, valid, count, sender, shm, worker, now, media, epoch,
          inverted, owed>>

Channels == 1 .. NumChannels
Optimal == Total \div 2
Lesser(a, b) == IF a < b THEN a ELSE b
LeastOf(S) == CHOOSE x \in S : \A y \in S : x <= y

----------------------------------------------------------------------------
(* Rings and descriptors                                                   *)

Empty(req) ==
  [ring |-> [c \in Channels |-> <<>>], rd |-> [c \in Channels |-> 0],
   ready |-> [c \in Channels |-> FALSE], desc |-> <<>>, req |-> req]

\* reset(0) of all rings, and of the descriptor queue
Flushed(b) == Empty(TRUE)

FillOf(b, c) == Len(b.ring[c])
Written(b, c) == b.rd[c] + FillOf(b, c)

RingWrite(b, c, samples) ==
  LET n == Lesser(Len(samples), Total - FillOf(b, c)) IN
  [b EXCEPT !.ring[c] = @ \o SubSeq(samples, 1, n),
            !.ready[c] = @ \/ FillOf(b, c) + n >= Threshold]

RingRead(b, c, n) ==
  LET k == Lesser(n, FillOf(b, c)) IN
  [b EXCEPT !.ring[c] = SubSeq(@, k + 1, Len(@)), !.rd[c] = @ + k]

\* descriptors whose samples have all been read are dequeued
Consumed(b) ==
  LET end(d) == d.index + d.count
      keep == {i \in 1 .. Len(b.desc) : end(b.desc[i]) > b.rd[NumChannels]}
  IN [b EXCEPT !.desc = IF keep = {} THEN <<>> ELSE SubSeq(@, LeastOf(keep), Len(@))]

\* mDescQ holds one descriptor more than there are periods in a ring
QueueSize == (Total + Period - 1) \div Period + 1

Enqueue(b, d) ==
  [b EXCEPT !.desc = Append(IF Len(@) >= QueueSize THEN Tail(@) ELSE @, d)]

Covers(d, i) == d.index <= i /\ i < d.index + d.count

\* readLocalAudioBuffer(): the buffers after it
ReadLocal(b, c, n) ==
  IF ~b.ready[c] \/ b.desc = <<>> THEN b
  ELSE LET after == RingRead(b, c, n) IN
       IF c # NumChannels THEN after
       ELSE IF Covers(Head(b.desc), b.rd[c]) THEN Consumed(after)
       ELSE [after EXCEPT !.desc = Tail(@)]

\* samples it has read; none of a buffer that is ready is an underrun
ReadCount(b, c, n) ==
  IF ~b.ready[c] \/ b.desc = <<>> THEN 0 ELSE Lesser(n, FillOf(b, c))

Starves(b, c, n) == b.ready[c] /\ ReadCount(b, c, n) = 0

\* the same for all channels, one after the other
ReadAll(b, n) ==
  LET after[c \in 0 .. NumChannels] == IF c = 0 THEN b ELSE ReadLocal(after[c - 1], c, n[c])
  IN after[NumChannels]

\* resetBuffers(): what is above the optimal fill level is discarded with its descriptors
Surplus(b) == [c \in Channels |-> IF FillOf(b, c) > Optimal THEN FillOf(b, c) - Optimal ELSE 0]
ResetBuffers(b) == ReadAll(b, Surplus(b))
ResetStarves(b) == \E c \in Channels : Surplus(b)[c] > 0 /\ Starves(b, c, Surplus(b)[c])

NoPending == [time |-> 0, index |-> 0, count |-> 0, samples |-> 0, lastCnt |-> 0, lastTime |-> 0]

----------------------------------------------------------------------------
(* From the network: readFromAvbPacket() under the AVB stream's mLock       *)

\* mutant: a descriptor that waits for its time gets the packet's
TimeOfPacket(p, ts) == ts

\* the time of a pending descriptor, interpolated between the packet its first samples came
\* with and this one
PendingTime(p, ts) ==
  IF p.count = 0 THEN ts
  ELSE IF ts > p.lastTime /\ p.lastCnt > p.count
  THEN p.lastTime + ((ts - p.lastTime) * (p.lastCnt - p.count)) \div p.lastCnt
  ELSE p.lastTime

\* the pending descriptor p after n samples of a packet with time ts, as the last channel sees it
Collected(p, b, n, ts) ==
  IF p.time # 0 THEN [p EXCEPT !.count = @ + n, !.samples = @ + Packet]
  ELSE [p EXCEPT !.time = PendingTime(p, ts), !.lastTime = ts,
                 !.index = IF p.count = 0 THEN Written(b, NumChannels) - n ELSE @,
                 !.count = @ + n, !.samples = @ + Packet]

\* a complete one is enqueued, and what the packet has more starts the next
Completed(p, b, ts) ==
  LET more == p.samples - Period IN
  IF more < 0 THEN p
  ELSE IF more = 0 THEN [NoPending EXCEPT !.lastTime = p.lastTime]
  ELSE [time |-> 0, index |-> Written(b, NumChannels) - more, count |-> more,
        samples |-> more, lastCnt |-> Packet, lastTime |-> ts]

\* mutant: channel by channel, and the overrun is noticed when a write falls short
OverrunNoticedLate(b) == FALSE

\* an overrun is seen before the first channel is written
OverrunAhead(b) == Packet > Total - FillOf(b, 1)

\* writeLocalAudioBuffer() for all channels
WriteLocal(b0, p0, active, ts) ==
  LET over == active /\ OverrunAhead(b0)
      b1 == IF over THEN ResetBuffers(b0) ELSE b0
      p == IF b1.req THEN NoPending ELSE p0
      b2 == [b1 EXCEPT !.req = FALSE]
      samples == [i \in 1 .. Packet |-> ts + i - 1]
      written(b, c) == Lesser(Packet, Total - FillOf(b, c))
      \* a write that falls short in spite of that resets all rings once more
      next(b, c) ==
        LET w == RingWrite(b, c, samples) IN
        IF active /\ written(b, c) # Packet THEN ResetBuffers(w) ELSE w
      after[c \in 0 .. NumChannels] == IF c = 0 THEN b2 ELSE next(after[c - 1], c)
      last == after[NumChannels - 1]
      n == written(last, NumChannels)
      b3 == after[NumChannels]
      q == Collected(p, b3, n, ts)
      full == q.samples >= Period
      d == [time |-> q.time, index |-> q.index, count |-> Period]
  IN IF n = 0 \/ (active /\ n # Packet) THEN [buf |-> b3, pend |-> p]
     ELSE [buf |-> IF full THEN Enqueue(b3, d) ELSE b3, pend |-> Completed(q, b3, ts)]

\* Assumed ("drained"): an idle client, for which nobody minds an overrun, leaves room;
\* ("start") a client is not activated when a descriptor waits for the time of this packet
ReceivePacket ==
  /\ "drained" \in Assume /\ client = "idle" => Packet <= Total - FillOf(buf, 1)
  /\ "start" \in Assume /\ valid /\ count = 1 /\ client = "idle" =>
       buf.req \/ pend.count = 0 \/ pend.time # 0
  /\ dir = "rx" /\ media + Packet <= MaxTime + Ahead /\ media <= now + Ahead
  /\ Written(buf, 1) + Packet <= MaxIndex
  /\ valid' = TRUE /\ count' = IF count > 0 THEN count - 1 ELSE 0
  /\ media' = media + Packet
  /\ LET starts == count = 1 /\ client = "idle"
         b1 == IF starts THEN ResetBuffers(buf) ELSE buf
         b2 == IF ~valid /\ client # "none" THEN Flushed(b1) ELSE b1
         active == starts \/ client = "active"
         p1 == IF starts THEN [pend EXCEPT !.lastTime = 0] ELSE pend
     IN /\ client' = IF starts THEN "active" ELSE client
        /\ inverted' = (inverted \/ (starts /\ ResetStarves(buf))
                                 \/ (active /\ Packet > Total - FillOf(b2, 1) /\ ResetStarves(b2)))
        /\ LET w == IF client # "none" /\ running THEN WriteLocal(b2, p1, active, media)
                    ELSE [buf |-> b2, pend |-> p1]
           IN buf' = w.buf /\ pend' = w.pend
  /\ UNCHANGED <<dir, running, sender, shm, worker, now, epoch, owed>>

\* packets are lost or invalid: the stream starts over, at a later time
Interrupted ==
  /\ dir = "rx" /\ valid
  /\ valid' = FALSE /\ count' = Validation
  /\ client' = IF client = "active" THEN "idle" ELSE client
  /\ \E t \in {media + 1, now + Ahead} : t >= media /\ t + Packet <= MaxTime + Ahead /\ media' = t
  /\ UNCHANGED <<dir, buf, pend, running, sender, shm, worker, now, epoch, inverted, owed>>

----------------------------------------------------------------------------
(* The copy job of a receive stream: copyJob() of IasAvbAudioShmProvider    *)

\* the shared memory, in periods
Free == shm.fill < ShmPeriods

\* the prefilling of the shared memory: state, periods prefilled, and periods to write
Prefilling ==
  CASE shm.state = "idle" ->
         IF shm.fill = 0 \/ shm.offset # 0
         THEN [state |-> "prefilling", done |-> shm.done + IF Free THEN 1 ELSE 0,
               write |-> IF Free THEN 1 ELSE 0]
         ELSE [state |-> "idle", done |-> shm.done, write |-> 0]
    [] shm.state = "prefilling" ->
         IF shm.done >= Prefill
         THEN [state |-> "running", done |-> 0, write |-> IF Free THEN 1 ELSE 0]
         ELSE [state |-> "prefilling", done |-> shm.done + IF Free THEN 1 ELSE 0,
               write |-> IF Free THEN 1 ELSE 0]
    [] shm.state = "running" ->
         [state |-> "running", done |-> shm.done, write |-> IF Free THEN 1 ELSE 0]

\* resetShmBuffer(): emptied, and filled with that many periods of zeros
Refilled(state, periods) == [fill |-> periods, state |-> state, done |-> 0, offset |-> 0]

\* a full shared memory is emptied and prefilled anew, for a SmartX client
CopiedShm ==
  LET p == Prefilling IN
  IF p.state = "running" /\ p.write = 0 /\ SmartX THEN Refilled("idle", 1)
  ELSE [fill |-> shm.fill + p.write, state |-> p.state, done |-> p.done, offset |-> shm.offset]

Distance(a, b) == IF a < b THEN b - a ELSE a - b

\* samples are due, or there are too many of them in fail-safe mode
ToBePresented(b) ==
  /\ b.ready[1] /\ b.desc # <<>>
  /\ \/ Head(b.desc).time <= now
     \/ Written(b, 1) >= Young /\ Threshold <= FillOf(b, 1) /\ ~Hard

\* a new epoch, or a time that cannot be right, empties the buffers
ResetRequested(b) ==
  epoch \/ (b.ready[1] /\ b.desc # <<>> /\ Hard /\ Distance(now, Head(b.desc).time) > Total)

\* one channel: samples without descriptor are skipped, those of the first one are read
Presented(b, c, d, present) ==
  LET skipped == IF b.rd[c] < d.index THEN RingRead(b, c, d.index - b.rd[c]) ELSE b
      left == d.count - (skipped.rd[c] - d.index)
      n == IF left \in 0 .. Period THEN left ELSE Period
      after == IF present THEN RingRead(skipped, c, n) ELSE skipped
  IN IF present /\ c = NumChannels THEN Consumed(after) ELSE after

CopiedRx(b) ==
  LET d == Head(b.desc)
      after[c \in 0 .. NumChannels] ==
        IF c = 0 THEN b ELSE Presented(after[c - 1], c, d, ToBePresented(b))
  IN IF ResetRequested(b) THEN Flushed(b)
     ELSE IF b.ready[1] /\ b.desc # <<>> THEN after[NumChannels] ELSE b

CopyJobRx ==
  /\ dir = "rx" /\ worker = "idle"
  /\ shm' = CopiedShm
  /\ IF client = "none" THEN UNCHANGED <<buf, epoch>> ELSE buf' = CopiedRx(buf) /\ epoch' = FALSE
  /\ worker' = "status"
  /\ UNCHANGED <<dir, pend, client, running, valid, count, sender, now, media, inverted, owed>>

\* the client reads a period, or writes one
ClientAccess ==
  /\ IF dir = "rx"
     THEN shm.fill > 0 /\ shm' = [shm EXCEPT !.fill = @ - 1, !.offset = (@ + 1) % ShmPeriods]
     ELSE Free /\ shm' = [shm EXCEPT !.fill = @ + 1]
  /\ UNCHANGED <<dir, buf, pend, client, running, valid, count, sender, worker, now, media, epoch,
                 inverted, owed>>

\* the client's control messages: ipcThread()
IpcStartStop ==
  /\ dir = "rx"
  /\ \E state \in {"running", "idle"} : shm' = Refilled(state, Prefill)
  /\ UNCHANGED <<dir, buf, pend, client, running, valid, count, sender, worker, now, media, epoch,
                 inverted, owed>>

----------------------------------------------------------------------------
(* To the network                                                          *)

\* the copy job of a transmit stream, with the time of the worker's cycle or, without a
\* reference clock, none: silence replaces what the client has not written in time
CopiedTx(b, ts) ==
  LET samples == [i \in 1 .. Period |-> ts + i - 1]
      n == Lesser(Period, Total - FillOf(b, 1))
      w == [c \in Channels |-> RingWrite(b, c, samples)]
      b1 == [b EXCEPT !.ring = [c \in Channels |-> w[c].ring[c]],
                      !.ready = [c \in Channels |-> w[c].ready[c]]]
  IN IF epoch THEN Flushed(b)
     ELSE IF ts = 0 THEN b
     ELSE IF n = 0 THEN b1 ELSE Enqueue(b1, [time |-> ts, index |-> Written(b, 1), count |-> n])

\* Assumed ("room"): there is room for all of a period, or for nothing; ("warp") the buffers
\* are not emptied while dummy samples have still to be compensated for
CopyJobTx ==
  /\ "room" \in Assume => FillOf(buf, 1) + Period <= Total \/ FillOf(buf, 1) = Total
  /\ "warp" \in Assume => ~epoch \/ sender.dummy = 0
  /\ dir = "tx" /\ worker = "idle" /\ media <= now
  /\ Written(buf, 1) + Period <= MaxIndex
  /\ shm' = [shm EXCEPT !.fill = IF @ = 0 THEN 0 ELSE @ - 1]
  /\ media' = media + Period
  /\ IF client = "none" THEN UNCHANGED <<buf, epoch>>
     ELSE (\E ts \in {0, media} : buf' = CopiedTx(buf, ts)) /\ epoch' = FALSE
  /\ worker' = "status"
  /\ UNCHANGED <<dir, pend, client, running, valid, count, sender, now, inverted, owed>>

\* dumpFromLocalAudioBuffer(): at most what all rings hold
Dumpable(b, n) == LeastOf({n} \cup {FillOf(b, c) : c \in Channels})
Dumped(b, n) == IF Dumpable(b, n) = 0 THEN b ELSE ReadAll(b, [c \in Channels |-> Dumpable(b, n)])

\* getCurrentTimestamp(): of the next sample, 0 if there is none
CurrentTimestamp(b) ==
  IF b.desc = <<>> THEN 0
  ELSE LET d == Head(b.desc)
           sent == b.rd[1] - d.index
           y == b.desc[2]
       IN IF Len(b.desc) > 1 /\ y.time > d.time /\ y.index > d.index
          THEN d.time + ((y.time - d.time) * sent) \div (y.index - d.index)
          ELSE d.time + sent

Behind(b, ref) == CurrentTimestamp(b) # 0 /\ CurrentTimestamp(b) < ref

\* samples that are late already are discarded before the first is read, a packet at a time;
\* the size of a packet is handed over by reference and comes back smaller
Aligned(b, size, ref) ==
  LET after[k \in 0 .. Total] ==
        IF k = 0 THEN [b |-> b, size |-> size]
        ELSE LET a == after[k - 1] IN
             IF ~Behind(a.b, ref) THEN a
             ELSE [b |-> Dumped(a.b, a.size), size |-> Dumpable(a.b, a.size)]
  IN after[Total]

NewSender(size, active) ==
  [size |-> size, dummy |-> 0, dumps |-> 0, wait |-> TRUE, reads |-> 0, ref |-> 0, active |-> active]

\* samples that were replaced by dummies are discarded when they come after all
DumpFor(b) == IF sender.dummy = 0 THEN 0 ELSE Dumpable(b, sender.dummy)

\* mDumpCount, and one more when a dump leaves too many dummy samples: the packet is marked then,
\* and nothing is sent before the transmit engine has reset the stream
DumpsAfter(d, left) ==
  IF d = 0 THEN sender.dumps ELSE IF left > MaxDummy THEN MaxDump + 1 ELSE sender.dumps + 1

Broken == sender.dumps > MaxDump

\* writeToAvbPacket()
SendPacket ==
  /\ dir = "tx" /\ sender.active /\ ~Broken
  /\ LET ref == IF sender.ref = 0 THEN now + 1 ELSE sender.ref
         d == DumpFor(buf)
         b1 == IF d = 0 THEN buf ELSE ReadAll(buf, [c \in Channels |-> d])
         dummy == sender.dummy - d
         ready == b1.ready[1]
         a == IF ready /\ sender.reads = 0 THEN Aligned(b1, sender.size, ref)
              ELSE [b |-> b1, size |-> sender.size]
         reading == dummy = 0 /\ ready
         n == IF reading THEN ReadCount(a.b, 1, a.size) ELSE 0
         b2 == IF reading THEN ReadAll(a.b, [c \in Channels |-> a.size]) ELSE a.b
         sent == IF n = 0 THEN a.size ELSE n
         more == IF ready /\ n = 0 THEN a.size ELSE 0
     IN /\ ref <= now + Ahead /\ ref + a.size <= MaxTime + Ahead
        /\ IF client = "none"
           THEN /\ sender' = [sender EXCEPT !.ref = ref + sender.size]
                /\ UNCHANGED <<buf, owed>>
           ELSE /\ buf' = b2
                /\ sender' = [sender EXCEPT !.size = a.size, !.dummy = dummy + more,
                                !.dumps = DumpsAfter(d, dummy),
                                !.wait = IF more > 0 THEN TRUE ELSE IF n > 0 THEN FALSE ELSE @,
                                !.reads = @ + n, !.ref = ref + sent]
                /\ owed' = owed + more - (b1.rd[1] - buf.rd[1])
  /\ UNCHANGED <<dir, pend, client, running, valid, count, shm, worker, now, media, epoch, inverted>>

\* activationChanged(): the transmit engine activates, resets or deactivates the stream
ActivationChanged ==
  /\ dir = "tx"
  /\ \E active \in BOOLEAN :
       /\ sender' = IF active THEN NewSender(sender.size, TRUE) ELSE [sender EXCEPT !.active = FALSE]
       /\ owed' = IF active THEN 0 ELSE owed
       /\ client' = IF client = "none" THEN client ELSE IF active THEN "active" ELSE "idle"
       /\ buf' = IF active /\ client = "idle" THEN Flushed(buf) ELSE buf
  /\ UNCHANGED <<dir, pend, running, valid, count, shm, worker, now, media, epoch, inverted>>

----------------------------------------------------------------------------
(* The worker thread, connections and the clock                             *)

\* updateBufferStatus() looks without a lock
UpdateBufferStatus ==
  /\ worker = "status"
  /\ worker' = IF client = "active" /\ FillOf(buf, 1) = 0 THEN "signal" ELSE "idle"
  /\ UNCHANGED <<dir, buf, pend, client, running, valid, count, sender, shm, now, media, epoch,
                 inverted, owed>>

\* signalDiscontinuity(): a receive stream has run dry; others take no notice
SignalUnderrun ==
  /\ worker = "signal" /\ worker' = "idle"
  /\ client' = IF dir = "rx" /\ client = "active" THEN "idle" ELSE client
  /\ UNCHANGED <<dir, buf, pend, running, valid, count, sender, shm, now, media, epoch, inverted, owed>>

\* start(): the thread runs before the streams know
WorkerStarts ==
  /\ \/ worker = "off" /\ worker' = "idle" /\ running' = running
     \/ worker # "off" /\ ~running /\ running' = TRUE /\ worker' = worker
  /\ UNCHANGED <<dir, buf, pend, client, valid, count, sender, shm, now, media, epoch, inverted, owed>>

\* stop(): the streams are told first, between two cycles
WorkerStops ==
  /\ worker = "idle"
  /\ \/ running /\ running' = FALSE /\ worker' = worker
        /\ buf' = IF dir = "rx" THEN Flushed(buf) ELSE buf
     \/ ~running /\ worker' = "off" /\ UNCHANGED <<running, buf>>
  /\ UNCHANGED <<dir, pend, client, valid, count, sender, shm, now, media, epoch, inverted, owed>>

\* connectTo(): the read threshold of a transmit stream may grow, which empties the rings.
\* Assumed ("reconnect"): a receive stream is not connected again in the middle of a descriptor
ConnectStream ==
  /\ client = "none"
  /\ "reconnect" \in Assume => dir = "tx" \/ ~valid \/ pend.count = 0
  /\ client' = IF dir = "tx" /\ sender.active THEN "active" ELSE "idle"
  /\ buf' \in IF dir = "tx" THEN {buf, Flushed(buf)} ELSE {buf}
  /\ sender' = [NewSender(sender.size, sender.active) EXCEPT !.wait = sender.wait] /\ owed' = 0
  /\ UNCHANGED <<dir, pend, running, valid, count, shm, worker, now, media, epoch, inverted>>

Disconnect ==
  /\ client # "none" /\ client' = "none"
  /\ UNCHANGED <<dir, buf, pend, running, valid, count, sender, shm, worker, now, media, epoch,
                 inverted, owed>>

Tick ==
  /\ now < MaxTime /\ now' = now + 1
  /\ UNCHANGED <<dir, buf, pend, client, running, valid, count, sender, shm, worker, media, epoch,
                 inverted, owed>>

NewEpoch ==
  /\ ~epoch /\ epoch' = TRUE
  /\ UNCHANGED <<dir, buf, pend, client, running, valid, count, sender, shm, worker, now, media,
                 inverted, owed>>

LocalInit ==
  /\ dir \in {"rx", "tx"}
  /\ buf = Empty(FALSE) /\ pend = NoPending
  /\ client = "none" /\ running = FALSE

\* init() of the provider: a receive device is prefilled and waits for its client
ShmInit == shm = IF dir = "rx" THEN Refilled("idle", Prefill) ELSE Refilled("running", 0)

AlsaInit ==
  /\ LocalInit /\ ShmInit
  /\ worker = "off"
  /\ valid = FALSE /\ count = Validation
  /\ sender = NewSender(Packet, FALSE)
  /\ now = 1 /\ media = 1 /\ epoch = FALSE /\ inverted = FALSE /\ owed = 0

AlsaNext ==
  \/ ReceivePacket \/ Interrupted \/ CopyJobRx \/ ClientAccess \/ IpcStartStop
  \/ CopyJobTx \/ SendPacket \/ ActivationChanged
  \/ UpdateBufferStatus \/ SignalUnderrun \/ WorkerStarts \/ WorkerStops
  \/ ConnectStream \/ Disconnect \/ Tick \/ NewEpoch

AlsaSpec == AlsaInit /\ [][AlsaNext]_alsaVars

----------------------------------------------------------------------------
(* Properties                                                              *)

\* types of the variables
AlsaTypeOK ==
  /\ \A c \in Channels : FillOf(buf, c) \in 0 .. Total /\ buf.rd[c] \in 0 .. MaxIndex
  /\ Len(buf.desc) <= QueueSize
  /\ client \in {"none", "idle", "active"} /\ worker \in {"off", "idle", "status", "signal"}
  /\ count \in 0 .. Validation
  /\ sender.size \in 0 .. Packet /\ sender.dummy \in Nat
  /\ shm.fill \in 0 .. ShmPeriods /\ shm.done \in 0 .. ShmPeriods + Prefill

\* every channel holds the same samples: no overrun, reset or read leaves one ahead of another;
\* the dummy samples a transmit stream still has to discard are the ones it has sent; and an
\* underrun is never signalled with the buffers locked: the AVB stream's mutex comes first
ChannelsAligned ==
  /\ AlsaTypeOK
  /\ \A c \in Channels : buf.ring[c] = buf.ring[1] /\ buf.rd[c] = buf.rd[1]
  /\ dir = "tx" => sender.dummy = owed
  /\ ~inverted

\* a descriptor names the time of the sample it points at, through packets that straddle
\* periods, overruns and resets, and the reader never meets one that is out of date
DescriptorsExact ==
  /\ \A i \in 1 .. Len(buf.desc) :
       LET d == buf.desc[i] IN
       d.index \in buf.rd[1] .. Written(buf, 1) - 1
         => d.time = buf.ring[1][d.index - buf.rd[1] + 1]
  /\ buf.desc # <<>> => buf.rd[1] < Head(buf.desc).index + Head(buf.desc).count

\* the size of a packet does not change
PacketSizeKept == sender.size = Packet
=============================================================================
