----------------------------- MODULE VideoStream -----------------------------
(***************************************************************************)
(* Video between an application and the network. To the network: a sender  *)
(* of the video bridge writes into a shared ring, the thread of an         *)
(* IasLocalVideoInStream copies from there into packets of the AVB         *)
(* stream's pool that its IasLocalVideoBuffer queues, and the transmit     *)
(* worker takes them out. From the network: the receive stream writes into *)
(* a shared ring, and the thread of an IasAvbVideoReceiver calls back.     *)
(*                                                                         *)
(* Contents are numbers: one per RTP packet or MPEG-TS packet (TSP), in    *)
(* the order in which they are handed over. The shared ring is external    *)
(* here, as one reader and one writer see it (VideoRingBuffer has it all). *)
(***************************************************************************)
EXTENDS Integers, Sequences, FiniteSets

CONSTANTS
  PoolSize,    \* packets in the AVB stream's pool
  NumPackets,  \* slots of the local video buffer
  RingSize,    \* slots of the shared ring
  MaxTsps,     \* TSPs that fit into an AVB packet
  Sizes,       \* TSPs the sender puts into one packet of the shared ring
  Sph,         \* these come with source packet headers
  MaxId, MaxFlight, \* bounds of the model: contents, packets the driver has at a time
  Assume       \* what is assumed of the environment, see the actions that name an element

ASSUME VideoConstants ==
  /\ {PoolSize, NumPackets, RingSize, MaxTsps, MaxId, MaxFlight} \subseteq Nat \ {0} /\ NumPackets > 1
  /\ Sizes \subseteq Nat \ {0} /\ Sph \in BOOLEAN
  /\ Assume \subseteq {"disconnect", "service", "dma", "cancel"}

Packets == 1 .. PoolSize
NoPacket == 0

VARIABLES
  side,      \* "rtp", "ts": to the network, "out": from it
  inbox,     \* the shared ring
  next,      \* number of the next content
  reader,    \* the thread is a reader of the shared ring
  thread,    \* thread of the local stream or the receiver: where it is, its run flag, the grant
             \* it has, and what is left of the packet it copies
  exists,    \* there is a local stream or receiver
  running,   \* mRunning of the video stream interface
  client,    \* mClientState of the local stream
  pool,      \* mPool of the buffer is set
  slots, rd, wr, \* mRing with the contents of its packets, mReadIndex, mWriteIndex
  avb,       \* the AVB stream: "none", "inactive", "active"
  connected, \* its mLocalStream is set
  free,      \* packets on the pool's free stack
  flight,    \* packets the sequencer or the driver has
  service,   \* where the transmit worker is in preparePacket()
  api,       \* where the thread that controls all this is
  held,      \* mMutex of the receiver
  format,    \* mFormat of the receiver is known
  last,      \* number of the last content that went out
  ordered,   \* contents went out in order, none twice
  crashed    \* a NULL pool or stream or a freed pool was used: undefined behaviour

buffer == <<client, pool, slots, rd, wr, free>>
stream == <<avb, connected, flight, service>>
output == <<last, ordered>>
control == <<exists, running, held, format>>
videoVars == <<side, inbox, next, reader, thread, api, buffer, stream, output, control, crashed>>

Out == side = "out"
Idle == api = "idle" /\ ~crashed

----------------------------------------------------------------------------
(* The shared ring                                                         *)

\* of a ring that is completely full the reader sees nothing
InboxLevel == IF Len(inbox) = RingSize THEN 0 ELSE Len(inbox)

\* an application or, for a receive stream, the worker of the receive engine: a packet that
\* finds no room is dropped
SendPacket ==
  /\ ~crashed
  /\ \E n \in IF side = "ts" THEN Sizes ELSE {1} :
       /\ next + n - 1 <= MaxId /\ next' = next + n
       /\ inbox' = IF Len(inbox) < RingSize
                   THEN Append(inbox, [i \in 1 .. n |-> next + i - 1]) ELSE inbox
  /\ UNCHANGED <<side, reader, thread, api, buffer, stream, output, control, crashed>>

----------------------------------------------------------------------------
(* IasLocalVideoBuffer                                                     *)

Fill == IF wr < rd THEN wr - rd + NumPackets ELSE wr - rd
After(i) == (i + 1) % NumPackets
EmptySlot == [packet |-> NoPacket, tsps |-> <<>>]

Held(s) == {s[i].packet : i \in DOMAIN s} \ {NoPacket}

\* mutant: the packets between the indices are returned, the rest is forgotten
ResetForgets ==
  /\ slots' = [i \in DOMAIN slots |-> EmptySlot] /\ rd' = 0 /\ wr' = 0 /\ free' = free

\* reset(): all packets go home
Reset ==
  /\ slots' = [i \in DOMAIN slots |-> EmptySlot] /\ rd' = 0 /\ wr' = 0
  /\ free' = free \cup Held(slots)

\* what a new packet p with contents c changes
WriteNew(p, c) ==
  /\ slots' = [slots EXCEPT ![wr] = [packet |-> p, tsps |-> c]]
  /\ free' = free \ {p} /\ wr' = After(wr)

Dropped == UNCHANGED <<slots, free, wr>>

\* the free stack is drained from the top: which packet it is makes no difference
TopPacket == CHOOSE p \in free : \A q \in free : p <= q

\* the last packet has room for more TSPs and is not about to be read
Recycling ==
  /\ side = "ts" /\ 0 < wr
  /\ LET s == slots[wr - 1] IN s.packet # NoPacket /\ MaxTsps > Len(s.tsps)
  /\ 2 < Fill /\ NumPackets - 2 > Fill

\* TSPs that come with a header are written behind the place where they belong
Placed(c) == IF Sph THEN [i \in DOMAIN c |-> 0] ELSE c

\* what does not fit into the last packet starts a new one
WriteRecycled(c) ==
  LET room == MaxTsps - Len(slots[wr - 1].tsps)
      k == IF Len(c) < room THEN Len(c) ELSE room
      rest == SubSeq(c, k + 1, Len(c))
      grown == [slots EXCEPT ![wr - 1].tsps = @ \o Placed(SubSeq(c, 1, k))]
  IN IF rest = <<>> \/ free = {} THEN slots' = grown /\ UNCHANGED <<free, wr>>
     ELSE /\ slots' = [grown EXCEPT ![wr] = [packet |-> TopPacket, tsps |-> rest]]
          /\ free' = free \ {TopPacket} /\ wr' = After(wr)

\* writeH264() and writeMpegTS(), under mLock
Write(c) ==
  IF Fill = NumPackets - 1 THEN Dropped
  ELSE IF Recycling THEN WriteRecycled(c)
  ELSE IF free = {} THEN Dropped
  ELSE WriteNew(TopPacket, c)

----------------------------------------------------------------------------
(* The thread of the local stream, to the network                           *)

\* mutant: the flag is looked at when the ring was read
ThreadWaitsOn ==
  /\ thread.pc = "wait" /\ reader /\ InboxLevel > 0
  /\ thread' = [thread EXCEPT !.pc = "access"]
  /\ UNCHANGED <<side, inbox, next, reader, api, buffer, stream, output, control, crashed>>

\* the run flag is looked at, then the thread waits for a packet, or for 500 ms
ThreadWaits ==
  /\ thread.pc = "wait" /\ ~crashed
  /\ \/ ~thread.run /\ thread' = [thread EXCEPT !.pc = "off"] /\ reader' = (reader /\ Out)
     \/ thread.run /\ reader /\ InboxLevel > 0
        /\ thread' = [thread EXCEPT !.pc = "access"] /\ reader' = reader
  /\ UNCHANGED <<side, inbox, next, api, buffer, stream, output, control, crashed>>

ThreadStarts ==
  /\ ~Out /\ thread.pc = "start"
  /\ reader' = TRUE /\ thread' = [thread EXCEPT !.pc = "wait"]
  /\ UNCHANGED <<side, inbox, next, api, buffer, stream, output, control, crashed>>

\* mutant: the offset into the packet is not advanced
ChunksRepeat(c) ==
  [i \in 1 .. (Len(c) + MaxTsps - 1) \div MaxTsps |-> SubSeq(c, 1, IF MaxTsps < Len(c) THEN MaxTsps ELSE Len(c))]

\* eventOnNewPacketMpegTS(): a packet of the ring is split into what fits into one AVB packet
Chunks(c) ==
  LET n == (Len(c) + MaxTsps - 1) \div MaxTsps
      upTo(i) == IF i * MaxTsps < Len(c) THEN i * MaxTsps ELSE Len(c)
  IN [i \in 1 .. n |-> SubSeq(c, (i - 1) * MaxTsps + 1, upTo(i))]

\* copyJob() does not look at the grant: what is in the slot is copied in any case
ThreadReads ==
  /\ ~Out /\ thread.pc = "access"
  /\ thread' = [thread EXCEPT !.pc = "check", !.grant = IF InboxLevel > 0 THEN 1 ELSE 0,
                              !.todo = Chunks(Head(inbox))]
  /\ UNCHANGED <<side, inbox, next, reader, api, buffer, stream, output, control, crashed>>

\* the pool is looked at before the lock is taken
ThreadChecks ==
  /\ thread.pc = "check" /\ thread.todo # <<>>
  /\ thread' = IF pool THEN [thread EXCEPT !.pc = "write"]
                       ELSE [thread EXCEPT !.todo = Tail(@)]
  /\ UNCHANGED <<side, inbox, next, reader, api, buffer, stream, output, control, crashed>>

ThreadWrites ==
  /\ thread.pc = "write" /\ ~crashed
  /\ thread' = [thread EXCEPT !.pc = "check", !.todo = Tail(@)]
  /\ crashed' = ~pool
  /\ IF pool THEN Write(Head(thread.todo)) ELSE Dropped
  /\ UNCHANGED <<side, inbox, next, reader, api, client, pool, rd, stream, output, control>>

\* endAccess() refuses a packet that was not granted
ThreadEnds ==
  /\ ~Out /\ thread.pc = "check" /\ thread.todo = <<>>
  /\ thread' = [thread EXCEPT !.pc = "wait"]
  /\ inbox' = IF thread.grant > 0 THEN Tail(inbox) ELSE inbox
  /\ UNCHANGED <<side, next, reader, api, buffer, stream, output, control, crashed>>

----------------------------------------------------------------------------
(* The transmit worker                                                     *)

GoesOut(c) ==
  /\ last' = IF c = <<>> THEN last ELSE c[Len(c)]
  /\ ordered' = (ordered /\ \A i \in DOMAIN c : c[i] > IF i = 1 THEN last ELSE c[i - 1])

\* preparePacket() looks whether the stream is connected, without its lock. Assumed ("service"):
\* not while the stream is being disconnected
PreparePacket ==
  /\ "service" \in Assume => api \notin {"disconnect", "remove"}
  /\ Cardinality(flight) < MaxFlight
  /\ service = "idle" /\ avb = "active" /\ connected /\ ~crashed /\ service' = "read"
  /\ UNCHANGED <<side, inbox, next, reader, thread, api, buffer, avb, connected, flight, output,
                 control, crashed>>

\* and takes a packet from the local buffer, or a dummy
TakePacket ==
  /\ service = "read" /\ ~crashed /\ service' = "idle"
  /\ crashed' = ~connected
  /\ IF connected /\ Fill > 0 /\ slots[rd].packet # NoPacket
     THEN LET p == slots[rd].packet IN
          /\ slots' = [slots EXCEPT ![rd] = EmptySlot] /\ rd' = After(rd)
          /\ flight' = flight \cup {p} /\ free' = free /\ GoesOut(slots[rd].tsps)
     ELSE /\ UNCHANGED <<slots, rd, output>>
          /\ IF ~connected \/ free = {} THEN UNCHANGED <<flight, free>>
             ELSE flight' = flight \cup {TopPacket} /\ free' = free \ {TopPacket}
  /\ UNCHANGED <<side, inbox, next, reader, thread, api, client, pool, wr, avb, connected,
                 control>>

\* returnPacket() of what has been sent; its pool may be gone
ReturnPacket ==
  /\ flight # {} /\ ~crashed
  /\ \E p \in flight : flight' = flight \ {p} /\ free' = IF avb = "none" THEN free ELSE free \cup {p}
  /\ crashed' = (avb = "none")
  /\ UNCHANGED <<side, inbox, next, reader, thread, api, client, pool, slots, rd, wr, avb,
                 connected, service, output, control>>

\* the transmit worker activates and deactivates; activation empties the buffer
ActivationChanged ==
  /\ service = "idle" /\ avb # "none" /\ api # "delete" /\ ~crashed
  /\ avb' = IF avb = "active" THEN "inactive" ELSE "active"
  /\ client' = IF ~connected THEN client ELSE IF avb = "active" THEN "idle" ELSE "active"
  /\ IF connected /\ avb = "inactive" /\ client # "active" THEN Reset
     ELSE UNCHANGED <<slots, rd, wr, free>>
  /\ UNCHANGED <<side, inbox, next, reader, thread, api, pool, connected, flight, service,
                 output, control, crashed>>

----------------------------------------------------------------------------
(* Control of streams to the network                                        *)

\* createVideoInStream(): only while the interface runs; the thread is started
CreateLocal ==
  /\ ~Out /\ Idle /\ ~exists /\ running /\ exists' = TRUE
  /\ thread' = [thread EXCEPT !.pc = "start", !.run = TRUE]
  /\ UNCHANGED <<side, inbox, next, reader, api, buffer, stream, output, running, held, format, crashed>>

\* stop() of the interface and destroyVideoStream() of a stream that is not connected: both
\* take the run flag away and join the thread
StopThread ==
  /\ ~Out /\ Idle
  /\ \/ running /\ running' = FALSE /\ api' = "stop"
     \/ exists /\ client = "none" /\ api' = "destroy" /\ running' = running
  /\ thread' = [thread EXCEPT !.run = FALSE]
  /\ UNCHANGED <<side, inbox, next, reader, buffer, stream, output, exists, held, format, crashed>>

ThreadJoined ==
  /\ ~Out /\ api \in {"stop", "destroy"} /\ thread.pc = "off" /\ ~crashed
  /\ api' = "idle"
  /\ exists' = (exists /\ api = "stop")
  /\ inbox' = IF api = "destroy" THEN <<>> ELSE inbox
  /\ UNCHANGED <<side, next, reader, thread, buffer, stream, output, running, held, format, crashed>>

\* initTransmit()
CreateAvb ==
  /\ ~Out /\ Idle /\ avb = "none" /\ avb' = "inactive" /\ free' = Packets
  /\ UNCHANGED <<side, inbox, next, reader, thread, api, client, pool, slots, rd, wr,
                 connected, flight, service, output, control, crashed>>

\* connectTo(): the pool is handed over
Connect ==
  /\ ~Out /\ Idle /\ avb # "none" /\ exists /\ ~connected /\ service = "idle"
  /\ connected' = TRUE /\ pool' = TRUE /\ client' = IF avb = "active" THEN "active" ELSE "idle"
  /\ IF avb = "active" THEN Reset ELSE UNCHANGED <<slots, rd, wr, free>>
  /\ UNCHANGED <<side, inbox, next, reader, thread, api, avb, flight, service, output,
                 control, crashed>>

\* disconnect(), by itself or before the AVB stream is deleted, which is inactive then: the pool
\* is taken away. Assumed ("disconnect"): not between the thread's check and its use of the pool
\* and ("service") not while the worker prepares a packet
DisconnectTakesPool ==
  /\ Idle /\ connected
  /\ "disconnect" \in Assume => thread.pc # "write"
  /\ "service" \in Assume => service = "idle"
  /\ \/ api' = "disconnect"
     \/ avb = "inactive" /\ service = "idle" /\ api' = "remove"
  /\ pool' = FALSE
  /\ UNCHANGED <<side, inbox, next, reader, thread, client, slots, rd, wr, free, stream,
                 output, control, crashed>>

\* mutant: the buffer is left as it is
DisconnectKeeps ==
  /\ api \in {"disconnect", "remove"} /\ ~crashed
  /\ UNCHANGED <<slots, rd, wr, free>> /\ connected' = FALSE /\ client' = "none"
  /\ api' = IF api = "remove" THEN "delete" ELSE "idle"
  /\ UNCHANGED <<side, inbox, next, reader, thread, pool, avb, flight, service, output,
                 control, crashed>>

\* then the buffer is emptied
DisconnectResets ==
  /\ api \in {"disconnect", "remove"} /\ ~crashed
  /\ Reset /\ connected' = FALSE /\ client' = "none"
  /\ api' = IF api = "remove" THEN "delete" ELSE "idle"
  /\ UNCHANGED <<side, inbox, next, reader, thread, pool, avb, flight, service, output,
                 control, crashed>>

\* an AVB stream that is not connected
Remove ==
  /\ ~Out /\ Idle /\ avb = "inactive" /\ ~connected /\ service = "idle" /\ api' = "delete"
  /\ UNCHANGED <<side, inbox, next, reader, thread, buffer, stream, output, control, crashed>>

\* the pool waits up to 50 ms for its packets and is deleted then. Assumed ("dma"): the driver
\* has sent them by then
DeletePool ==
  /\ api = "delete" /\ ~crashed
  /\ "dma" \in Assume => flight = {}
  /\ avb' = "none" /\ api' = "idle" /\ free' = {}
  /\ UNCHANGED <<side, inbox, next, reader, thread, client, pool, slots, rd, wr, connected,
                 flight, service, output, control, crashed>>

----------------------------------------------------------------------------
(* The receiver of the video bridge                                         *)

\* init(): the thread is created before it is a reader of the ring
CreateReceiver ==
  /\ Out /\ Idle /\ ~exists /\ exists' = TRUE /\ api' = "addReader"
  /\ thread' = [thread EXCEPT !.pc = "wait", !.run = TRUE]
  /\ UNCHANGED <<side, inbox, next, reader, buffer, stream, output, running, held, format, crashed>>

\* without a free place among the readers the receiver is deleted again
AddAsReader ==
  /\ api = "addReader"
  /\ \/ reader' = TRUE /\ api' = "idle" /\ thread' = thread
     \/ reader' = FALSE /\ api' = "join" /\ thread' = [thread EXCEPT !.run = FALSE]
  /\ UNCHANGED <<side, inbox, next, buffer, stream, output, control, crashed>>

\* setCallback(), under mMutex
SetCallback ==
  /\ Out /\ Idle /\ exists /\ ~held /\ ~format /\ format' = TRUE
  /\ UNCHANGED <<side, inbox, next, reader, thread, api, buffer, stream, output, exists, running,
                 held, crashed>>

\* the format is looked at; the callback runs under mMutex
ReceiverReads ==
  /\ Out /\ thread.pc = "access"
  /\ IF reader /\ InboxLevel > 0 /\ format
     THEN thread' = [thread EXCEPT !.pc = "call", !.todo = <<Head(inbox)>>] /\ ~held /\ held' = TRUE
          /\ inbox' = inbox
     ELSE thread' = [thread EXCEPT !.pc = "wait"] /\ held' = held
          /\ inbox' = IF reader /\ InboxLevel > 0 THEN Tail(inbox) ELSE inbox
  /\ UNCHANGED <<side, next, reader, api, buffer, stream, output, exists, running, format, crashed>>

\* Assumed ("cancel"): the callback has no cancellation point, where the pthread_cancel() of
\* cleanup() would end the thread with mMutex locked
CallbackEnds ==
  /\ thread.pc = "call"
  /\ \E cancelled \in IF api = "join" /\ "cancel" \notin Assume THEN BOOLEAN ELSE {FALSE} :
       /\ held' = cancelled
       /\ thread' = [thread EXCEPT !.pc = IF cancelled THEN "off" ELSE "wait", !.todo = <<>>]
       /\ inbox' = IF cancelled THEN inbox ELSE Tail(inbox)
  /\ GoesOut(Head(thread.todo))
  /\ UNCHANGED <<side, next, reader, api, buffer, stream, exists, running, format, crashed>>

\* cleanup(): flag, cancellation and join, the reader is removed, mMutex is taken
DestroyReceiver ==
  /\ Out /\ Idle /\ exists /\ api' = "join" /\ thread' = [thread EXCEPT !.run = FALSE]
  /\ UNCHANGED <<side, inbox, next, reader, buffer, stream, output, control, crashed>>

ReceiverJoined ==
  /\ api = "join" /\ thread.pc = "off" /\ api' = "clear" /\ reader' = FALSE
  /\ UNCHANGED <<side, inbox, next, thread, buffer, stream, output, control, crashed>>

ClearCallbacks ==
  /\ api = "clear" /\ ~held /\ api' = "idle" /\ exists' = FALSE /\ format' = FALSE
  /\ UNCHANGED <<side, inbox, next, reader, thread, buffer, stream, output, running, held, crashed>>

----------------------------------------------------------------------------

VideoInit ==
  /\ side \in {"rtp", "ts", "out"}
  /\ inbox = <<>> /\ next = 1 /\ reader = FALSE
  /\ thread = [pc |-> "off", run |-> FALSE, grant |-> 0, todo |-> <<>>]
  /\ exists = FALSE /\ running = TRUE /\ client = "none" /\ pool = FALSE
  /\ slots = [i \in 0 .. NumPackets - 1 |-> EmptySlot] /\ rd = 0 /\ wr = 0
  /\ avb = "none" /\ connected = FALSE /\ free = {} /\ flight = {} /\ service = "idle"
  /\ api = "idle" /\ held = FALSE /\ format = FALSE
  /\ last = 0 /\ ordered = TRUE /\ crashed = FALSE

Thread ==
  \/ ThreadStarts \/ ThreadWaits \/ ThreadReads \/ ThreadChecks \/ ThreadWrites \/ ThreadEnds
  \/ ReceiverReads \/ CallbackEnds

Control ==
  \/ ThreadJoined \/ DisconnectResets \/ DeletePool \/ AddAsReader \/ ReceiverJoined \/ ClearCallbacks

VideoNext ==
  \/ SendPacket \/ Thread \/ Control
  \/ PreparePacket \/ TakePacket \/ ReturnPacket \/ ActivationChanged
  \/ CreateLocal \/ StopThread \/ CreateAvb \/ Connect \/ DisconnectTakesPool \/ Remove
  \/ CreateReceiver \/ SetCallback \/ DestroyReceiver

VideoSpec == VideoInit /\ [][VideoNext]_videoVars

\* threads are scheduled, packets that were sent come back, and a call that was begun goes on
FairVideoSpec ==
  /\ VideoSpec
  /\ WF_videoVars(Thread) /\ WF_videoVars(Control) /\ WF_videoVars(TakePacket) /\ WF_videoVars(ReturnPacket)

----------------------------------------------------------------------------
(* Properties                                                              *)

\* types of the variables
VideoTypeOK ==
  /\ Len(inbox) <= RingSize /\ next \in 1 .. MaxId + 1
  /\ thread.pc \in {"off", "start", "wait", "access", "check", "write", "call"}
  /\ client \in {"none", "idle", "active"} /\ avb \in {"none", "inactive", "active"}
  /\ free \subseteq Packets /\ flight \subseteq Packets
  /\ rd \in 0 .. NumPackets - 1 /\ wr \in 0 .. NumPackets - 1
  /\ \A i \in DOMAIN slots : slots[i].packet \in Packets \cup {NoPacket}
                               /\ (side = "ts" => Len(slots[i].tsps) <= MaxTsps)
  /\ api \in {"idle", "stop", "destroy", "disconnect", "remove", "delete", "addReader", "join", "clear"}

\* every packet of the pool is in exactly one place, on the free stack, in one slot of the local
\* buffer or with the driver, through resets, recycling, disconnects and the end of streams.
\* Exactly the slots between the indices hold a packet: the worker never reads an empty one, and
\* no packet is kept where only a reset finds it.
PacketsConserved ==
  /\ VideoTypeOK
  /\ avb # "none" =>
       /\ free \cup Held(slots) \cup flight = Packets
       /\ free \cap flight = {} /\ Held(slots) \cap (free \cup flight) = {}
       /\ \A i, j \in DOMAIN slots : i # j /\ slots[i].packet = slots[j].packet => slots[i].packet = NoPacket
  /\ \A i \in DOMAIN slots :
       slots[i].packet # NoPacket
         <=> IF rd <= wr THEN rd <= i /\ i < wr ELSE rd <= i \/ i < wr

\* contents go out in the order in which they were handed over, none twice and none damaged,
\* although TSPs are appended to a packet that waits already
InOrder == ordered

\* a pool is deleted behind everything that refers to it: then no slot of the local buffer holds a
\* packet of it, not even one that the thread queued or recycled before the disconnect, the buffer
\* does not point to the pool nor the worker to the local stream. The next AVB stream that is
\* connected finds nothing of the former one.
NothingGoneIsKept == avb = "none" => Held(slots) = {} /\ ~pool /\ ~connected

\* a call that stops, destroys or disconnects something returns
CallsReturn == (api # "idle") ~> (api = "idle")
=============================================================================
