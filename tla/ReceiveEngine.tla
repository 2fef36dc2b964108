--------------------------- MODULE ReceiveEngine ---------------------------
(***************************************************************************)
(* Reception of AVB streams: the API calls of the receive engine           *)
(* (IasAvbReceiveEngine, one call at a time: the API mutex of the stream   *)
(* handler), its worker, which hands packets and time-outs to the streams, *)
(* the state machines of the three kinds of receive stream, their clock    *)
(* domains, and the audio thread, which reports an underrun to a stream.   *)
(*                                                                         *)
(* The worker holds mLock while it dispatches, so a dispatch is one step;  *)
(* the API looks streams up without it. A packet is described by what the  *)
(* code tells apart: the stream id, whether its destination matches the    *)
(* wildcard stream's, whether it is well formed, whether its sequence      *)
(* number follows the last one, whether its time stamp is used.            *)
(*                                                                         *)
(* Abstracted: the samples (see LocalAudioBuffer), diagnostic counters,    *)
(* the source address, the watchdog, times (any stream may time out at any *)
(* moment), the lab mode mIgnoreStreamId. A rejected call is no step.      *)
(***************************************************************************)
EXTENDS Integers, FiniteSets

CONSTANTS
  Streams,    \* stream objects that may exist
  Locals,     \* local streams
  Ids,        \* stream ids
  Wildcard,   \* the id 0
  None,       \* NULL
  Kinds,      \* kinds of stream the client creates
  Mode,       \* mValidationMode
  Threshold,  \* mValidationThreshold
  Assume      \* scheduling assumptions, see Quiet

ASSUME ReceiveConstants ==
  /\ Wildcard \in Ids /\ None \notin Streams \cup Locals \cup Ids
  /\ Kinds \subseteq {"audio", "video", "crs"}
  /\ Mode \in {"never", "once", "always"}
  /\ Threshold \in Nat \ {0}
  /\ Assume \subseteq {"lookup", "callback", "video"}

VARIABLES
  mAvbStreams,  \* the map: stream of each id, None where there is no entry
  stream,       \* the members of each stream object, see Fresh
  mClient,      \* of each local stream
  active,       \* mClientState of each local stream is eIasActive
  apiPc, apiStream, apiId,  \* the API call under way
  alsaPc, alsaStream,       \* the audio thread inside signalDiscontinuity
  crashed       \* a NULL pointer has been dereferenced

apiVars == <<apiPc, apiStream, apiId>>
alsaVars == <<alsaPc, alsaStream>>
localVars == <<mClient, active>>
vars == <<mAvbStreams, stream, localVars, apiVars, alsaVars, crashed>>

States == {"Inactive", "NoData", "InvalidData", "Valid"}
LockStates == {"none", "Init", "Unlocked", "Locking", "Locked"}

\* a stream after its constructor and initReceive; kind "none": no such object
Fresh(k, i, d) ==
  [kind |-> k, id |-> i, zeroMac |-> d,
   state |-> "Inactive", internal |-> "Inactive", count |-> Threshold,
   local |-> None, waitForData |-> TRUE, lock |-> "none",
   lastState |-> "Inactive", told |-> "Inactive",  \* StreamData, the client's view
   run |-> 0]                                      \* ghost, see Follows

Nothing == Fresh("none", Wildcard, FALSE)
Exists(s) == stream[s].kind # "none"
Mapped == {i \in Ids : mAvbStreams[i] # None}

----------------------------------------------------------------------------
(* What the code does not enforce and an entry of Assume grants:            *)
(* "lookup": the worker does not re-key the map while an API call is under  *)
(* way; "callback": no stream is disconnected or destroyed while the audio  *)
(* thread is inside its signalDiscontinuity; "video": a video stream is     *)
(* connected whenever it is told that there is no data.                     *)
Quiet(a, cond) == a \in Assume => cond

ApiIdle == apiPc = "idle" /\ ~crashed
CallbackQuiet(s) == Quiet("callback", alsaStream # s)

\* a packet, or NULL: nothing has arrived for the stream
Packet == [null : {FALSE}, wellFormed : BOOLEAN, follows : BOOLEAN, stamp : BOOLEAN]
NullPacket == [null |-> TRUE, wellFormed |-> FALSE, follows |-> FALSE, stamp |-> FALSE]

----------------------------------------------------------------------------
(* The receive state machines. r is the stream's record, p the packet.      *)

Validated(r, p) == (Mode = "always" \/ r.state # "Valid") /\ p.wellFormed

NewState(r, p) ==
  IF p.null THEN "NoData"
  ELSE IF Mode = "never" THEN "Valid"
  ELSE IF r.internal = "Valid" THEN (IF p.follows THEN "Valid" ELSE "InvalidData")
  ELSE IF Validated(r, p) THEN "Valid" ELSE "InvalidData"

AudioNewState(r, p) == NewState(r, p)
VideoNewState(r, p) == NewState(r, p)

\* a clock reference packet must carry a base frequency in any case
CrsNewState(r, p) ==
  IF r.internal = "Valid" /\ ~p.null /\ Mode # "never" /\ ~p.wellFormed
    THEN "InvalidData" ELSE NewState(r, p)

\* the countdown to eIasAvbStreamValid, then the change of state; leaves says
\* whether a change to a bad state is one the client has to hear of
StateChange(r, new, leaves) ==
  LET reached == new = "Valid" /\ r.count = 1
  IN [r EXCEPT
       !.internal = new,
       !.count = IF leaves THEN Threshold
                 ELSE IF new = "Valid" /\ @ > 0 THEN @ - 1 ELSE @,
       !.state = IF leaves THEN new ELSE IF reached THEN "Valid" ELSE @]

\* mutant of AudioStateChange: the countdown is not restarted
AudioCountKept(r, new) ==
  [StateChange(r, new, r.internal = "Valid" /\ new # "Valid") EXCEPT !.count =
     IF new = "Valid" /\ r.count > 0 THEN r.count - 1 ELSE r.count]

AudioStateChange(r, new) == StateChange(r, new, r.internal = "Valid" /\ new # "Valid")

VideoStateChange(r, new) == StateChange(r, new, r.internal = "Valid" /\ new # "Valid")
CrsStateChange(r, new) == StateChange(r, new, r.internal # new /\ new # "Valid")

Changed(r, p) ==
  CASE r.kind = "audio" -> AudioStateChange(r, AudioNewState(r, p))
    [] r.kind = "video" -> VideoStateChange(r, VideoNewState(r, p))
    [] r.kind = "crs" -> CrsStateChange(r, CrsNewState(r, p))

\* setFilter: a domain that was locking or locked becomes unlocked
SetFilter(lock) == IF lock \in {"Locking", "Locked"} THEN "Unlocked" ELSE lock

\* updateRateRatio with any ratio: outside the sanity limits it is ignored
UpdateRateRatio(lock) ==
  CASE lock = "Locked" -> {"Locked", "Unlocked"}
    [] lock \in {"Init", "Unlocked", "Locking"} -> {lock, "Locking", "Locked"}
    [] lock = "none" -> {"none"}

\* r before, q after the change of state. invalidate() when the stream stops
\* being valid; reset() with the first stamp after a gap, update() with others
AudioClock(r, p, q) ==
  IF q.internal # "Valid"
    THEN {[q EXCEPT !.waitForData = @ \/ p.null,
                    !.lock = IF r.internal = "Valid" THEN SetFilter(@) ELSE @]}
    ELSE LET w == q.waitForData \/ r.internal # "Valid"
         IN IF ~p.stamp \/ q.lock = "none" THEN {[q EXCEPT !.waitForData = w]}
            ELSE IF w THEN {[q EXCEPT !.waitForData = FALSE, !.lock = SetFilter(@)]}
            ELSE {[q EXCEPT !.lock = l] : l \in UpdateRateRatio(q.lock)}

\* mRefPlaneEventTime = 0 asks for the reset; a packet may hold more stamps,
\* or announce a restart of the media clock
CrsClock(r, p, q) ==
  IF q.internal # "Valid"
    THEN {[q EXCEPT !.waitForData = @ \/ p.null]}
    ELSE LET w == q.waitForData \/ r.internal # "Valid"
             base == IF w THEN SetFilter(q.lock) ELSE q.lock
         IN IF ~p.stamp \/ q.lock = "none" THEN {[q EXCEPT !.waitForData = w]}
            ELSE {[q EXCEPT !.waitForData = FALSE, !.lock = l] :
                    l \in UNION {UpdateRateRatio(b) \cup {b} : b \in {base, SetFilter(base)}}}

\* ghost: how many packets in a row make up the stream so far
Follows(r, p) ==
  IF p.null \/ ~(IF r.run = 0 THEN p.wellFormed ELSE p.follows /\ (r.kind = "crs" => p.wellFormed)) THEN 0
  ELSE IF r.run < Threshold THEN r.run + 1 ELSE r.run

----------------------------------------------------------------------------
Init ==
  /\ mAvbStreams = [i \in Ids |-> None]
  /\ stream = [s \in Streams |-> Nothing]
  /\ mClient = [l \in Locals |-> None] /\ active = [l \in Locals |-> FALSE]
  /\ apiPc = "idle" /\ apiStream = None /\ apiId = None
  /\ alsaPc = "idle" /\ alsaStream = None
  /\ crashed = FALSE

(* The API. *)

\* checkStreamIdInUse, without the lock, and the new stream object
Create(k, i, d) ==
  /\ ApiIdle /\ mAvbStreams[i] = None
  /\ \E s \in Streams :
       /\ ~Exists(s)
       /\ stream' = [stream EXCEPT ![s] = Fresh(k, i, d)]
       /\ apiStream' = s
  /\ apiPc' = "insert" /\ apiId' = i
  /\ UNCHANGED <<mAvbStreams, localVars, alsaVars, crashed>>

CreateReceiveAudioStream(i, d) == "audio" \in Kinds /\ Create("audio", i, d)
CreateReceiveVideoStream(i, d) == "video" \in Kinds /\ Create("video", i, d)
CreateReceiveClockReferenceStream(i, d) == "crs" \in Kinds /\ Create("crs", i, d)

\* the entry is made under the lock
InsertStream ==
  /\ apiPc = "insert" /\ ~crashed
  /\ mAvbStreams' = [mAvbStreams EXCEPT ![apiId] = apiStream]
  /\ apiPc' = "bind"
  /\ UNCHANGED <<stream, localVars, apiStream, apiId, alsaVars, crashed>>

ApiReturns == apiPc' = "idle" /\ apiStream' = None /\ apiId' = None

\* delete: the destructor disconnects the stream
Deleted(s) ==
  /\ stream' = [stream EXCEPT ![s] = Nothing]
  /\ mClient' = [l \in Locals |-> IF mClient[l] = s THEN None ELSE mClient[l]]
  /\ active' = [l \in Locals |-> active[l] /\ mClient[l] # s]

\* bindMcastAddr, which may fail: then whatever the id stands for is deleted
BindMcastAddr ==
  /\ apiPc = "bind" /\ ~crashed
  /\ \/ UNCHANGED <<mAvbStreams, stream, localVars>>
     \/ /\ mAvbStreams' = [mAvbStreams EXCEPT ![apiId] = None]
        /\ IF mAvbStreams[apiId] = None
             THEN UNCHANGED <<stream, localVars>>
             ELSE CallbackQuiet(mAvbStreams[apiId]) /\ Deleted(mAvbStreams[apiId])
  /\ ApiReturns /\ UNCHANGED <<alsaVars, crashed>>

DestroyAvbStream(i) ==
  /\ ApiIdle /\ i \in Mapped
  /\ CallbackQuiet(mAvbStreams[i])
  /\ mAvbStreams' = [mAvbStreams EXCEPT ![i] = None]
  /\ Deleted(mAvbStreams[i])
  /\ UNCHANGED <<apiVars, alsaVars, crashed>>

\* connectAudioStreams, connectVideoStreams, disconnectStreams: the look-up,
\* without the lock; the entry found is used in the next step
LookUp(i) ==
  /\ ApiIdle /\ i \in Mapped
  /\ stream[mAvbStreams[i]].kind # "crs"
  /\ apiPc' = "connect" /\ apiId' = i /\ apiStream' = mAvbStreams[i]
  /\ UNCHANGED <<mAvbStreams, stream, localVars, alsaVars, crashed>>

\* mutant of ConnectTo: the old local stream is not told
ConnectKeepsOld(l) ==
  /\ mClient' = IF l = None \/ mClient[l] # None THEN mClient ELSE [mClient EXCEPT ![l] = apiStream]
  /\ UNCHANGED active
  /\ stream' = [stream EXCEPT ![apiStream].local =
                  IF l # None /\ mClient[l] = None THEN l ELSE None]

\* connectTo: leave the old local stream, then take the new one if it is
\* free; for a receive stream the client starts inactive
ConnectTo(l) ==
  LET old == stream[apiStream].local
      left == [k \in Locals |-> IF k = old THEN None ELSE mClient[k]]
      taken == l # None /\ left[l] = None
  IN /\ mClient' = IF taken THEN [left EXCEPT ![l] = apiStream] ELSE left
     /\ active' = [k \in Locals |-> active[k] /\ k # old]
     /\ stream' = [stream EXCEPT ![apiStream].local = IF taken THEN l ELSE None]

\* rejected: the streams do not fit together, the old one is left all the same
Connect(l) ==
  /\ apiPc = "connect" /\ ~crashed
  /\ CallbackQuiet(apiStream)
  /\ IF stream[apiStream].local = l THEN UNCHANGED <<mClient, active, stream>>
     ELSE ConnectTo(l)
  /\ ApiReturns /\ UNCHANGED <<mAvbStreams, alsaVars, crashed>>

\* deriveClockDomainFromRxStream: a new domain is hooked once
HookClockDomain(i) ==
  /\ ApiIdle /\ i \in Mapped
  /\ stream[mAvbStreams[i]].lock = "none"
  /\ stream' = [stream EXCEPT ![mAvbStreams[i]].lock = "Init"]
  /\ UNCHANGED <<mAvbStreams, localVars, apiVars, alsaVars, crashed>>

----------------------------------------------------------------------------
(* The worker. *)

\* checkStreamState: the client is told of a change
CheckStreamState(r) == [r EXCEPT !.lastState = r.state, !.told = IF r.lastState # r.state THEN r.state ELSE @]

\* ... and it is checked again after the packet
CheckedAfter(r, q) == CheckStreamState(q)

\* dispatchPacket and readFromAvbPacket. s: the stream, i: its id, p: packet
\* or NULL
DispatchPacket(s, i, p) ==
  LET r == CheckStreamState(stream[s])
      changed == Changed(r, p)
      l == r.local
      outcomes == CASE r.kind = "audio" -> AudioClock(r, p, changed)
                    [] r.kind = "crs" -> CrsClock(r, p, changed)
                    [] r.kind = "video" -> {changed}
  IN /\ \E q \in outcomes :
          stream' = [stream EXCEPT ![s] = [CheckedAfter(r, q) EXCEPT !.id = i, !.run = Follows(r, p)]]
     /\ active' = IF l = None \/ r.kind = "crs" THEN active
                  ELSE [active EXCEPT ![l] =
                          IF r.internal = "Valid" /\ changed.internal # "Valid" THEN FALSE
                          ELSE IF changed.count = 0 /\ r.count > 0 THEN TRUE ELSE @]
     /\ crashed' = (r.kind = "video" /\ l = None /\ p.null)
     /\ UNCHANGED mClient

\* a packet for a stream in the map
ReceivePacket(i, p) ==
  /\ ~crashed /\ i \in Mapped /\ i # Wildcard
  /\ DispatchPacket(mAvbStreams[i], i, p)
  /\ UNCHANGED <<mAvbStreams, apiVars, alsaVars>>

\* a packet with an unknown id goes to a wildcard stream without address
ReceiveForWildcard(i, p) ==
  /\ ~crashed /\ i \notin Mapped /\ Wildcard \in Mapped
  /\ stream[mAvbStreams[Wildcard]].zeroMac
  /\ DispatchPacket(mAvbStreams[Wildcard], Wildcard, p)
  /\ UNCHANGED <<mAvbStreams, apiVars, alsaVars>>

\* mutant of Rekeyed: the wildcard entry stays
RekeyCopies(i, s) == mAvbStreams' = [mAvbStreams EXCEPT ![i] = s]

Rekeyed(i, s) == mAvbStreams' = [mAvbStreams EXCEPT ![Wildcard] = None, ![i] = s]

\* the packet's destination is the address of the wildcard stream, which
\* becomes the stream of this id
ReceiveAndRekey(i, p) ==
  /\ ~crashed /\ i \notin Mapped /\ Wildcard \in Mapped
  /\ ~stream[mAvbStreams[Wildcard]].zeroMac
  /\ Quiet("lookup", apiPc = "idle")
  /\ Rekeyed(i, mAvbStreams[Wildcard])
  /\ DispatchPacket(mAvbStreams[Wildcard], i, p)
  /\ UNCHANGED <<apiVars, alsaVars>>

\* the general time-out and the one of a single stream
StreamTimeout(i) ==
  /\ ~crashed /\ i \in Mapped
  /\ LET s == mAvbStreams[i]
     IN /\ Quiet("video", stream[s].kind = "video" => stream[s].local # None)
        /\ DispatchPacket(s, i, NullPacket)
  /\ UNCHANGED <<mAvbStreams, apiVars, alsaVars>>

----------------------------------------------------------------------------
(* The audio thread. *)

\* readLocalAudioBuffer finds nothing to read while its client is active
Underrun(l) ==
  /\ alsaPc = "idle" /\ ~crashed
  /\ active[l] /\ mClient[l] # None /\ stream[mClient[l]].kind = "audio"
  /\ alsaPc' = "state" /\ alsaStream' = mClient[l]
  /\ UNCHANGED <<mAvbStreams, stream, localVars, apiVars, crashed>>

\* signalDiscontinuity under the stream's lock ...
SignalState ==
  /\ alsaPc = "state" /\ ~crashed
  /\ stream' = IF Exists(alsaStream)
                 THEN [stream EXCEPT ![alsaStream].state = "NoData", ![alsaStream].waitForData = TRUE]
                 ELSE stream
  /\ alsaPc' = "client"
  /\ UNCHANGED <<mAvbStreams, localVars, apiVars, alsaStream, crashed>>

\* ... and, after it, the callback into the local stream
SignalClient ==
  /\ alsaPc = "client" /\ ~crashed
  /\ active' = [l \in Locals |-> active[l] /\ stream[alsaStream].local # l]
  /\ alsaPc' = "idle" /\ alsaStream' = None
  /\ UNCHANGED <<mAvbStreams, stream, mClient, apiVars, crashed>>

----------------------------------------------------------------------------
Api ==
  \/ \E i \in Ids, d \in BOOLEAN :
       \/ CreateReceiveAudioStream(i, d)
       \/ CreateReceiveVideoStream(i, d)
       \/ CreateReceiveClockReferenceStream(i, d)
  \/ InsertStream \/ BindMcastAddr
  \/ \E i \in Ids : DestroyAvbStream(i) \/ LookUp(i) \/ HookClockDomain(i)
  \/ \E l \in Locals \cup {None} : Connect(l)

Worker ==
  \/ \E i \in Ids, p \in Packet :
       ReceivePacket(i, p) \/ ReceiveForWildcard(i, p) \/ ReceiveAndRekey(i, p)
  \/ \E i \in Ids : StreamTimeout(i)

Alsa == (\E l \in Locals : Underrun(l)) \/ SignalState \/ SignalClient

Next == Api \/ Worker \/ Alsa

Spec == Init /\ [][Next]_vars

----------------------------------------------------------------------------
(* Properties. *)

StreamObjects ==
  [kind : Kinds \cup {"none"}, id : Ids, zeroMac : BOOLEAN, state : States, internal : States,
   count : 0..Threshold, local : Locals \cup {None}, waitForData : BOOLEAN,
   lock : LockStates, lastState : States, told : States, run : 0..Threshold]

TypeOK ==
  /\ mAvbStreams \in [Ids -> Streams \cup {None}] /\ stream \in [Streams -> StreamObjects]
  /\ mClient \in [Locals -> Streams \cup {None}] /\ active \in [Locals -> BOOLEAN]
  /\ apiPc \in {"idle", "insert", "bind", "connect"}
  /\ apiStream \in Streams \cup {None} /\ apiId \in Ids \cup {None}
  /\ alsaPc \in {"idle", "state", "client"} /\ alsaStream \in Streams \cup {None}
  /\ crashed \in BOOLEAN

\* No stream is lost, deleted while in use or reachable under another's id:
\* the map holds exactly the streams that exist, each under its own id, and
\* the streams an API call and the audio thread work on still exist.
MapExact ==
  /\ TypeOK
  /\ \A i \in Mapped : Exists(mAvbStreams[i]) /\ stream[mAvbStreams[i]].id = i
  /\ \A s \in Streams : Exists(s) /\ ~(apiPc = "insert" /\ apiStream = s)
                          => \E i \in Mapped : mAvbStreams[i] = s
  /\ apiPc = "connect" => mAvbStreams[apiId] = apiStream
  /\ alsaStream # None => Exists(alsaStream)

\* A stream is reported valid only after Threshold packets in a row, whatever
\* gaps, time-outs and underruns came before (readFromAvbPacket's countdown),
\* and an audio stream's clock domain is locked only while data come in order:
\* a domain left locked would discipline the slave clock by a dead stream.
ValidMeansContinuous ==
  \A s \in Streams :
    /\ stream[s].state = "Valid" => stream[s].run = Threshold
    /\ stream[s].kind = "audio" /\ stream[s].lock \in {"Locking", "Locked"} => stream[s].internal = "Valid"

\* Local stream and network stream agree on who is connected to whom, and the
\* client is active only while the stream is valid, but for the moment in
\* which the audio thread itself is reporting an underrun. What the client was
\* last told (updateStreamStatus) is the state of the stream, unless the audio
\* thread has reported an underrun since; the next dispatch tells of that too.
ClientConsistent ==
  /\ \A l \in Locals :
       /\ \A s \in Streams : mClient[l] = s <=> Exists(s) /\ stream[s].local = l
       /\ active[l] => /\ mClient[l] # None
                       /\ stream[mClient[l]].state = "Valid" \/ alsaStream = mClient[l]
  /\ \A s \in Streams :
       /\ stream[s].told = stream[s].lastState
       /\ stream[s].told # stream[s].state =>
            stream[s].kind = "audio" /\ stream[s].state = "NoData" /\ stream[s].waitForData
============================================================================
