------------------------- MODULE ReceiveEngineProofs -------------------------
(***************************************************************************)
(* The receive engine, for every number of streams, local streams and ids  *)
(* and every threshold: the map and the streams agree, the local streams   *)
(* and the network streams agree on who is connected, and a stream is only *)
(* reported valid after Threshold packets in a row. Its worker: no buffer  *)
(* of a freed pool is used, and none is lost, for every size and number of *)
(* pools and every burst.                                                  *)
(***************************************************************************)
EXTENDS ReceiveEngine, ReceiveWorker, TLAPS

\* an API call and the audio thread work on a stream and an id
CallsInPlace ==
  /\ apiPc # "idle" => apiStream \in Streams /\ apiId \in Ids
  /\ alsaPc = "idle" => alsaStream = None
  /\ alsaPc # "idle" => alsaStream \in Streams

\* the map and the streams, seen from both ends; a stream under construction is not in the map
\* yet, and its id is still free
MapInv ==
  /\ \A i \in Ids : mAvbStreams[i] # None => Exists(mAvbStreams[i]) /\ stream[mAvbStreams[i]].id = i
  /\ \A s \in Streams : Exists(s) =>
       (apiPc = "insert" /\ apiStream = s) \/ mAvbStreams[stream[s].id] = s
  /\ apiPc = "insert" => Exists(apiStream) /\ mAvbStreams[apiId] = None /\ stream[apiStream].id = apiId
  /\ apiPc \in {"bind", "connect"} => mAvbStreams[apiId] = apiStream
  /\ alsaStream # None => Exists(alsaStream) /\ stream[alsaStream].kind = "audio"

\* only audio and video streams are connected
ConnectedInv ==
  /\ \A s \in Streams : stream[s].kind \in {"none", "crs"} => stream[s].local = None
  /\ apiPc = "connect" => stream[apiStream].kind # "crs"

EngineInv == TypeOK /\ CallsInPlace /\ MapInv /\ ConnectedInv /\ ClientConsistent

\* the countdown never runs ahead of the packets that have come in a row, and starts over
\* whenever the row is interrupted
Continuous(r) ==
  /\ r.internal # "Valid" => r.run = 0 /\ r.count = Threshold /\ r.state # "Valid"
  /\ r.internal = "Valid" => r.run \in 1..Threshold /\ r.run + r.count >= Threshold
  /\ r.state = "Valid" => r.run = Threshold
  /\ r.kind = "audio" /\ r.lock \in {"Locking", "Locked"} => r.internal = "Valid"

ContinuityInv == \A s \in Streams : Continuous(stream[s])

----------------------------------------------------------------------------
(* The receive state machines                                              *)

AnyPacket == Packet \cup {NullPacket}

\* Whatever the packet, a receive state machine goes to one of its states.
LEMMA NewStates ==
  ASSUME NEW r \in StreamObjects, NEW p
  PROVE  /\ NewState(r, p) \in {"NoData", "InvalidData", "Valid"}
         /\ CrsNewState(r, p) \in {"NoData", "InvalidData", "Valid"}
  BY Zenon DEF NewState, CrsNewState

\* What a change of state does: only the state, the internal state and the countdown change; the
\* countdown ends in the state that is reported, and only a departure takes it back.
Advanced(r, q) ==
  /\ q \in StreamObjects
  /\ q.kind = r.kind /\ q.id = r.id /\ q.zeroMac = r.zeroMac /\ q.local = r.local /\ q.lock = r.lock
  /\ q.waitForData = r.waitForData /\ q.lastState = r.lastState /\ q.told = r.told /\ q.run = r.run
  /\ q.count = 0 /\ r.count > 0 => q.state = "Valid"
  /\ r.state = "Valid" /\ q.state # "Valid" => q.internal # "Valid" /\ (r.kind # "crs" => r.internal = "Valid")

\* The countdown of one step.
LEMMA StateChanges ==
  ASSUME NEW r \in StreamObjects, NEW new \in States, NEW leaves \in BOOLEAN, leaves => new # "Valid"
  PROVE  LET q == StateChange(r, new, leaves)
         IN /\ q \in StreamObjects
            /\ q.internal = new
            /\ q.count = IF leaves THEN Threshold ELSE IF new = "Valid" /\ r.count > 0 THEN r.count - 1 ELSE r.count
            /\ q.state = IF leaves THEN new ELSE IF new = "Valid" /\ r.count = 1 THEN "Valid" ELSE r.state
            /\ q.kind = r.kind /\ q.id = r.id /\ q.zeroMac = r.zeroMac /\ q.local = r.local /\ q.lock = r.lock
            /\ q.waitForData = r.waitForData /\ q.lastState = r.lastState /\ q.told = r.told /\ q.run = r.run
<1> DEFINE c == IF leaves THEN Threshold ELSE IF new = "Valid" /\ r.count > 0 THEN r.count - 1 ELSE r.count
           st == IF leaves THEN new ELSE IF new = "Valid" /\ r.count = 1 THEN "Valid" ELSE r.state
<1>1. r.count \in 0..Threshold /\ r.state \in States
  BY DEF StreamObjects
<1>2. c \in 0..Threshold
  BY <1>1, ReceiveConstants, SMT
<1>3. st \in States
  BY <1>1, SMT DEF States
<1>4. StateChange(r, new, leaves) = [r EXCEPT !.internal = new, !.count = c, !.state = st]
  BY Zenon DEF StateChange
<1> HIDE DEF c, st
<1> DEFINE q == [r EXCEPT !.internal = new, !.count = c, !.state = st]
<1>5. q \in StreamObjects
  BY <1>2, <1>3, Zenon DEF StreamObjects
<1>6. /\ q.internal = new /\ q.count = c /\ q.state = st
      /\ q.kind = r.kind /\ q.id = r.id /\ q.zeroMac = r.zeroMac /\ q.local = r.local /\ q.lock = r.lock
      /\ q.waitForData = r.waitForData /\ q.lastState = r.lastState /\ q.told = r.told /\ q.run = r.run
  BY SMT DEF StreamObjects
<1> QED
  BY <1>4, <1>5, <1>6, Zenon DEF c, st

\* A packet, or none, moves a stream along its countdown.
LEMMA ChangedAdvances ==
  ASSUME NEW r \in StreamObjects, r.kind \in {"audio", "video", "crs"}, NEW p
  PROVE  Advanced(r, Changed(r, p))
<1>1. ASSUME NEW new \in States, NEW leaves \in BOOLEAN, leaves => new # "Valid",
             r.kind # "crs" => (leaves <=> r.internal = "Valid" /\ new # "Valid")
      PROVE  Advanced(r, StateChange(r, new, leaves))
  <2> DEFINE q == StateChange(r, new, leaves)
  <2>1. /\ q \in StreamObjects
        /\ q.internal = new
        /\ q.count = IF leaves THEN Threshold ELSE IF new = "Valid" /\ r.count > 0 THEN r.count - 1 ELSE r.count
        /\ q.state = IF leaves THEN new ELSE IF new = "Valid" /\ r.count = 1 THEN "Valid" ELSE r.state
        /\ q.kind = r.kind /\ q.id = r.id /\ q.zeroMac = r.zeroMac /\ q.local = r.local /\ q.lock = r.lock
        /\ q.waitForData = r.waitForData /\ q.lastState = r.lastState /\ q.told = r.told /\ q.run = r.run
    BY <1>1, StateChanges, Zenon
  <2> HIDE DEF q
  <2>2. r.count \in 0..Threshold
    BY DEF StreamObjects
  <2>3. q.count = 0 /\ r.count > 0 => q.state = "Valid"
    BY <2>1, <2>2, ReceiveConstants, SMT
  <2>4. r.state = "Valid" /\ q.state # "Valid" => q.internal # "Valid" /\ (r.kind # "crs" => r.internal = "Valid")
    BY <1>1, <2>1, Zenon
  <2> QED
    BY <2>1, <2>3, <2>4, Zenon DEF Advanced, q
<1> DEFINE n == NewState(r, p)
           m == CrsNewState(r, p)
<1>2. n \in States /\ m \in States
  BY NewStates, Zenon DEF States
<1>3. CASE r.kind = "audio"
  <2>1. Changed(r, p) = StateChange(r, n, r.internal = "Valid" /\ n # "Valid")
    BY <1>3, SMT DEF Changed, AudioStateChange, AudioNewState
  <2> QED
    BY <1>1, <1>2, <2>1
<1>4. CASE r.kind = "video"
  <2>1. Changed(r, p) = StateChange(r, n, r.internal = "Valid" /\ n # "Valid")
    BY <1>4, SMT DEF Changed, VideoStateChange, VideoNewState
  <2> QED
    BY <1>1, <1>2, <2>1
<1>5. CASE r.kind = "crs"
  <2>1. Changed(r, p) = StateChange(r, m, r.internal # m /\ m # "Valid")
    BY <1>5, SMT DEF Changed, CrsStateChange
  <2> QED
    BY <1>1, <1>2, <1>5, <2>1
<1> QED
  BY <1>3, <1>4, <1>5

\* What the clock domain of a stream does with a packet touches its lock and waitForData only.
Clocked(q, o) ==
  /\ o \in StreamObjects
  /\ o.kind = q.kind /\ o.id = q.id /\ o.zeroMac = q.zeroMac /\ o.local = q.local
  /\ o.state = q.state /\ o.internal = q.internal /\ o.count = q.count
  /\ o.lastState = q.lastState /\ o.told = q.told /\ o.run = q.run

Relocked(q, w, l) == [q EXCEPT !.waitForData = w, !.lock = l]

\* Setting the lock and waitForData is such a step.
LEMMA ClockedByLock ==
  ASSUME NEW q \in StreamObjects, NEW w \in BOOLEAN, NEW l \in LockStates
  PROVE  /\ Clocked(q, Relocked(q, w, l)) /\ Relocked(q, w, l).lock = l
         /\ Clocked(q, [q EXCEPT !.waitForData = w])
         /\ Clocked(q, [q EXCEPT !.lock = l])
<1>1. /\ [q EXCEPT !.waitForData = w, !.lock = l] \in StreamObjects
      /\ [q EXCEPT !.waitForData = w] \in StreamObjects
      /\ [q EXCEPT !.lock = l] \in StreamObjects
  BY Zenon DEF StreamObjects
<1> QED
  BY <1>1, Zenon DEF Clocked, StreamObjects, Relocked

\* The states of a clock domain after a packet.
LEMMA LockSteps ==
  ASSUME NEW l \in LockStates
  PROVE  SetFilter(l) \in LockStates \ {"Locking", "Locked"} /\ UpdateRateRatio(l) \subseteq LockStates
  BY SMT DEF LockStates, SetFilter, UpdateRateRatio

\* An audio stream that stops being valid takes its clock domain along; a locked domain stays with
\* a valid stream.
LEMMA AudioClocked ==
  ASSUME NEW r \in StreamObjects, NEW q \in StreamObjects, NEW p, p.null \in BOOLEAN, q.lock = r.lock,
         NEW o \in AudioClock(r, p, q)
  PROVE  /\ Clocked(q, o)
         /\ (r.lock \in {"Locking", "Locked"} => r.internal = "Valid")
               => (o.lock \in {"Locking", "Locked"} => o.internal = "Valid")
<1>1. q.lock \in LockStates /\ q.waitForData \in BOOLEAN
  BY Zenon DEF StreamObjects
<1>2. CASE q.internal # "Valid"
  <2>1. SetFilter(q.lock) \in LockStates \ {"Locking", "Locked"}
    BY <1>1, LockSteps
  <2>2. \E w \in BOOLEAN, l \in LockStates :
           /\ o = Relocked(q, w, l)
           /\ l = IF r.internal = "Valid" THEN SetFilter(q.lock) ELSE q.lock
    BY <1>1, <1>2, <2>1, Zenon DEF AudioClock, Relocked
  <2>3. PICK w \in BOOLEAN, l \in LockStates :
           /\ o = Relocked(q, w, l)
           /\ l = IF r.internal = "Valid" THEN SetFilter(q.lock) ELSE q.lock
    BY <2>2
  <2>4. Clocked(q, o) /\ o.lock = l
    BY <2>3, ClockedByLock
  <2> QED
    BY <2>1, <2>3, <2>4
<1>3. CASE q.internal = "Valid"
  <2> DEFINE w == q.waitForData \/ r.internal # "Valid"
  <2>1. \/ o = [q EXCEPT !.waitForData = w]
        \/ o = Relocked(q, FALSE, SetFilter(q.lock))
        \/ \E l \in UpdateRateRatio(q.lock) : o = [q EXCEPT !.lock = l]
    BY <1>3, Zenon DEF AudioClock, Relocked
  <2>2. w \in BOOLEAN /\ FALSE \in BOOLEAN
    OBVIOUS
  <2>3. SetFilter(q.lock) \in LockStates /\ UpdateRateRatio(q.lock) \subseteq LockStates
    BY <1>1, LockSteps, Zenon
  <2> HIDE DEF w
  <2>4. Clocked(q, o)
    <3>1. CASE o = [q EXCEPT !.waitForData = w]
      BY <1>1, <2>2, <3>1, ClockedByLock, Zenon
    <3>2. CASE o = Relocked(q, FALSE, SetFilter(q.lock))
      BY <2>2, <2>3, <3>2, ClockedByLock, Zenon
    <3>3. CASE \E l \in UpdateRateRatio(q.lock) : o = [q EXCEPT !.lock = l]
      <4>1. \A l \in UpdateRateRatio(q.lock) : Clocked(q, [q EXCEPT !.lock = l])
        BY <2>2, <2>3, ClockedByLock
      <4> QED
        BY <3>3, <4>1, Zenon
    <3> QED
      BY <2>1, <3>1, <3>2, <3>3
  <2> QED
    BY <1>3, <2>4 DEF Clocked
<1> QED
  BY <1>2, <1>3

\* The same for a clock reference stream, which keeps its lock.
LEMMA CrsClocked ==
  ASSUME NEW r \in StreamObjects, NEW q \in StreamObjects, NEW p, p.null \in BOOLEAN, NEW o \in CrsClock(r, p, q)
  PROVE  Clocked(q, o)
<1>1. q.lock \in LockStates /\ q.waitForData \in BOOLEAN
  BY Zenon DEF StreamObjects
<1>2. CASE q.internal # "Valid"
  <2> DEFINE w == q.waitForData \/ p.null
  <2>1. o = [q EXCEPT !.waitForData = w] /\ w \in BOOLEAN
    BY <1>2, Zenon DEF CrsClock
  <2> QED
    BY <1>1, <2>1, ClockedByLock, Zenon
<1>3. CASE q.internal = "Valid"
  <2> DEFINE w == q.waitForData \/ r.internal # "Valid"
             base == IF w THEN SetFilter(q.lock) ELSE q.lock
  <2>1. \/ o = [q EXCEPT !.waitForData = w]
        \/ \E l \in UNION {UpdateRateRatio(b) \cup {b} : b \in {base, SetFilter(base)}} :
             o = Relocked(q, FALSE, l)
    BY <1>3, Zenon DEF CrsClock, Relocked
  <2>2. base \in LockStates
    BY <1>1, LockSteps, Zenon
  <2>3. \A b \in {base, SetFilter(base)} : UpdateRateRatio(b) \cup {b} \subseteq LockStates
    BY <2>2, LockSteps, Zenon
  <2>4. w \in BOOLEAN /\ FALSE \in BOOLEAN
    OBVIOUS
  <2> HIDE DEF base, w
  <2>5. CASE o = [q EXCEPT !.waitForData = w]
    BY <1>1, <2>4, <2>5, ClockedByLock, Zenon
  <2>6. ASSUME NEW b \in {base, SetFilter(base)}, NEW l \in UpdateRateRatio(b) \cup {b},
               o = Relocked(q, FALSE, l)
        PROVE  Clocked(q, o)
    BY <2>3, <2>4, <2>6, ClockedByLock, Zenon
  <2> QED
    BY <2>1, <2>5, <2>6, Zenon
<1> QED
  BY <1>2, <1>3

----------------------------------------------------------------------------
(* The countdown and the packets in a row                                  *)

\* A state machine is valid after a packet exactly when the packet continues, or begins, a row.
LEMMA RowContinues ==
  ASSUME NEW r \in StreamObjects, NEW p, Mode # "never", Continuous(r)
  PROVE  LET longer == IF r.run < Threshold THEN r.run + 1 ELSE r.run IN
         /\ r.kind # "crs" => Follows(r, p) = IF NewState(r, p) = "Valid" THEN longer ELSE 0
         /\ r.kind = "crs" => Follows(r, p) = IF CrsNewState(r, p) = "Valid" THEN longer ELSE 0
<1> DEFINE longer == IF r.run < Threshold THEN r.run + 1 ELSE r.run
<1>1. r.internal = "Valid" => r.run # 0
  <2>1. 0 \notin 1..Threshold
    BY ReceiveConstants, SMT
  <2> QED
    BY <2>1, Zenon DEF Continuous
<1>2. r.internal # "Valid" => r.run = 0 /\ r.state # "Valid"
  BY Zenon DEF Continuous
<1>3. ASSUME r.kind # "crs" PROVE Follows(r, p) = IF NewState(r, p) = "Valid" THEN longer ELSE 0
  <2>1. CASE r.internal = "Valid"
    <3>1. NewState(r, p) = "Valid" <=> ~p.null /\ p.follows
      BY <2>1, Zenon DEF NewState
    <3>2. Follows(r, p) = IF ~p.null /\ p.follows THEN longer ELSE 0
      BY <1>1, <1>3, <2>1, Zenon DEF Follows
    <3> QED
      BY <3>1, <3>2, Zenon
  <2>2. CASE r.internal # "Valid"
    <3>1. NewState(r, p) = "Valid" <=> ~p.null /\ p.wellFormed
      BY <1>2, <2>2, Zenon DEF NewState, Validated
    <3>2. Follows(r, p) = IF ~p.null /\ p.wellFormed THEN longer ELSE 0
      BY <1>2, <2>2, Zenon DEF Follows
    <3> QED
      BY <3>1, <3>2, Zenon
  <2> QED
    BY <2>1, <2>2
<1>4. ASSUME r.kind = "crs" PROVE Follows(r, p) = IF CrsNewState(r, p) = "Valid" THEN longer ELSE 0
  <2>1. CASE r.internal = "Valid"
    <3>1. CrsNewState(r, p) = "Valid" <=> ~p.null /\ p.follows /\ p.wellFormed
      BY <2>1, Zenon DEF CrsNewState, NewState
    <3>2. Follows(r, p) = IF ~p.null /\ p.follows /\ p.wellFormed THEN longer ELSE 0
      BY <1>1, <1>4, <2>1, Zenon DEF Follows
    <3> QED
      BY <3>1, <3>2, Zenon
  <2>2. CASE r.internal # "Valid"
    <3>1. CrsNewState(r, p) = "Valid" <=> ~p.null /\ p.wellFormed
      BY <1>2, <2>2, Zenon DEF CrsNewState, NewState, Validated
    <3>2. Follows(r, p) = IF ~p.null /\ p.wellFormed THEN longer ELSE 0
      BY <1>2, <2>2, Zenon DEF Follows
    <3> QED
      BY <3>1, <3>2, Zenon
  <2> QED
    BY <2>1, <2>2
<1> QED
  BY <1>3, <1>4, Zenon

\* The countdown keeps up with the row: it is over when the row has Threshold packets, not before.
LEMMA CountKeepsUp ==
  ASSUME NEW r \in StreamObjects, r.kind \in {"audio", "video", "crs"}, NEW p, Mode # "never", Continuous(r)
  PROVE  LET q == Changed(r, p)
             f == Follows(r, p)
         IN /\ f \in 0..Threshold
            /\ q.internal # "Valid" => f = 0 /\ q.count = Threshold /\ q.state # "Valid"
            /\ q.internal = "Valid" => f \in 1..Threshold /\ f + q.count >= Threshold
            /\ q.state = "Valid" => f = Threshold
<1> DEFINE longer == IF r.run < Threshold THEN r.run + 1 ELSE r.run
           f == Follows(r, p)
<1>1. r.count \in 0..Threshold /\ r.run \in 0..Threshold /\ r.state \in States
  BY DEF StreamObjects
<1>2. ASSUME NEW new \in States, NEW leaves \in BOOLEAN, leaves => new # "Valid",
             new # "Valid" /\ ~leaves => r.internal # "Valid",
             f = IF new = "Valid" THEN longer ELSE 0
      PROVE  LET q == StateChange(r, new, leaves)
             IN /\ f \in 0..Threshold
                /\ q.internal # "Valid" => f = 0 /\ q.count = Threshold /\ q.state # "Valid"
                /\ q.internal = "Valid" => f \in 1..Threshold /\ f + q.count >= Threshold
                /\ q.state = "Valid" => f = Threshold
  <2> DEFINE q == StateChange(r, new, leaves)
  <2>1. /\ q.internal = new
        /\ q.count = IF leaves THEN Threshold ELSE IF new = "Valid" /\ r.count > 0 THEN r.count - 1 ELSE r.count
        /\ q.state = IF leaves THEN new ELSE IF new = "Valid" /\ r.count = 1 THEN "Valid" ELSE r.state
    BY <1>2, StateChanges, Zenon
  <2> HIDE DEF q, f
  <2>2. CASE new = "Valid"
    <3>1. ~leaves /\ q.internal = "Valid" /\ f = longer
      BY <1>2, <2>1, <2>2, Zenon
    <3>2. /\ q.count = IF r.count > 0 THEN r.count - 1 ELSE r.count
          /\ q.state = IF r.count = 1 THEN "Valid" ELSE r.state
      BY <2>1, <2>2, <3>1, Zenon
    <3>3. r.run + r.count >= Threshold /\ (r.state = "Valid" => r.run = Threshold)
      BY <1>1, ReceiveConstants, SMT DEF Continuous
    <3>4. f \in 1..Threshold /\ f + q.count >= Threshold
      BY <1>1, <3>1, <3>2, <3>3, ReceiveConstants, SMT
    <3>5. q.state = "Valid" => f = Threshold
      BY <1>1, <3>1, <3>2, <3>3, ReceiveConstants, SMT
    <3>6. f \in 0..Threshold
      BY <3>4, SMT
    <3> QED
      BY <3>1, <3>4, <3>5, <3>6, Zenon DEF q
  <2>3. CASE new # "Valid"
    <3>1. f = 0 /\ q.internal # "Valid" /\ f \in 0..Threshold
      <4>1. 0 \in 0..Threshold
        BY ReceiveConstants, SMT
      <4> QED
        BY <1>2, <2>1, <2>3, <4>1, Zenon
    <3>2. q.count = Threshold /\ q.state # "Valid"
      <4>1. CASE leaves
        BY <2>1, <2>3, <4>1, Zenon
      <4>2. CASE ~leaves
        BY <1>2, <2>1, <2>3, <4>2, Zenon DEF Continuous
      <4> QED
        BY <4>1, <4>2
    <3> QED
      BY <3>1, <3>2, Zenon DEF q
  <2> QED
    BY <2>2, <2>3 DEF q
<1> DEFINE n == NewState(r, p)
           m == CrsNewState(r, p)
<1>3. n \in States /\ m \in States
  BY NewStates, Zenon DEF States
<1>4. /\ r.kind # "crs" => f = IF n = "Valid" THEN longer ELSE 0
      /\ r.kind = "crs" => f = IF m = "Valid" THEN longer ELSE 0
  BY RowContinues, Zenon
<1> HIDE DEF longer, f
<1>5. CASE r.kind = "audio"
  <2>1. Changed(r, p) = StateChange(r, n, r.internal = "Valid" /\ n # "Valid")
    BY <1>5, SMT DEF Changed, AudioStateChange, AudioNewState
  <2> HIDE DEF n
  <2> QED
    BY <1>2, <1>3, <1>4, <1>5, <2>1 DEF f
<1>6. CASE r.kind = "video"
  <2>1. Changed(r, p) = StateChange(r, n, r.internal = "Valid" /\ n # "Valid")
    BY <1>6, SMT DEF Changed, VideoStateChange, VideoNewState
  <2> HIDE DEF n
  <2> QED
    BY <1>2, <1>3, <1>4, <1>6, <2>1 DEF f
<1>7. CASE r.kind = "crs"
  <2>1. Changed(r, p) = StateChange(r, m, r.internal # m /\ m # "Valid")
    BY <1>7, SMT DEF Changed, CrsStateChange
  <2> HIDE DEF m
  <2> QED
    BY <1>2, <1>3, <1>4, <1>7, <2>1 DEF f
<1> QED
  BY <1>5, <1>6, <1>7

----------------------------------------------------------------------------
(* The dispatch of a packet                                                *)

\* Telling the client of a change touches nothing but what the client was told.
LEMMA CheckedStates ==
  ASSUME NEW r \in StreamObjects
  PROVE  LET c == CheckStreamState(r)
         IN /\ c \in StreamObjects
            /\ c.lastState = r.state /\ (r.told = r.lastState => c.told = r.state)
            /\ c.kind = r.kind /\ c.id = r.id /\ c.zeroMac = r.zeroMac /\ c.local = r.local /\ c.lock = r.lock
            /\ c.state = r.state /\ c.internal = r.internal /\ c.count = r.count /\ c.run = r.run
            /\ c.waitForData = r.waitForData
<1> DEFINE t == IF r.lastState # r.state THEN r.state ELSE r.told
           c == [r EXCEPT !.lastState = r.state, !.told = t]
<1>1. r.state \in States /\ t \in States
  BY Zenon DEF StreamObjects
<1>2. CheckStreamState(r) = c
  BY Zenon DEF CheckStreamState
<1>3. r.told = r.lastState => t = r.state
  BY Zenon
<1> HIDE DEF t
<1>4. c \in StreamObjects
  BY <1>1, Zenon DEF StreamObjects
<1>5. /\ c.lastState = r.state /\ c.told = t
      /\ c.kind = r.kind /\ c.id = r.id /\ c.zeroMac = r.zeroMac /\ c.local = r.local /\ c.lock = r.lock
      /\ c.state = r.state /\ c.internal = r.internal /\ c.count = r.count /\ c.run = r.run
      /\ c.waitForData = r.waitForData
  BY Zenon DEF StreamObjects
<1> QED
  BY <1>2, <1>3, <1>4, <1>5, Zenon

\* stream s, with id i, becomes d, and its local stream is told
Dispatched(s, i, d) ==
  /\ d \in StreamObjects /\ d.kind = stream[s].kind /\ d.local = stream[s].local /\ d.id = i
  /\ d.told = d.lastState /\ d.told = d.state
  /\ Mode # "never" /\ Continuous(stream[s]) => Continuous(d)
  /\ stream' = [stream EXCEPT ![s] = d] /\ UNCHANGED mClient
  /\ active' \in [Locals -> BOOLEAN]
  /\ \A l \in Locals : active'[l] => \/ active[l] /\ ~(l = d.local /\ stream[s].state = "Valid" /\ d.state # "Valid")
                                     \/ l = d.local /\ d.state = "Valid"

\* The three kinds of stream have no step but this.
LEMMA DispatchSteps ==
  ASSUME TypeOK, NEW s \in Streams, Exists(s), NEW i \in Ids, NEW p, p.null \in BOOLEAN,
         stream[s].told = stream[s].lastState, stream[s].kind = "crs" => stream[s].local = None,
         DispatchPacket(s, i, p)
  PROVE  \E d \in StreamObjects : Dispatched(s, i, d)
<1> DEFINE r == CheckStreamState(stream[s])
           changed == Changed(r, p)
           outcomes == CASE r.kind = "audio" -> AudioClock(r, p, changed)
                         [] r.kind = "crs" -> CrsClock(r, p, changed)
                         [] r.kind = "video" -> {changed}
           checked(o) == CheckStreamState(o)
           end(o) == [checked(o) EXCEPT !.id = i, !.run = Follows(r, p)]
<1>1. /\ r \in StreamObjects
      /\ r.lastState = stream[s].state /\ r.told = stream[s].state
      /\ r.kind = stream[s].kind /\ r.local = stream[s].local /\ r.lock = stream[s].lock
      /\ r.state = stream[s].state /\ r.internal = stream[s].internal /\ r.count = stream[s].count
      /\ r.run = stream[s].run
  <2>1. stream[s] \in StreamObjects
    BY DEF TypeOK
  <2> QED
    BY <2>1, CheckedStates, Zenon
<1>2. r.kind \in {"audio", "video", "crs"}
  <2>1. stream[s].kind \in Kinds \cup {"none"}
    BY DEF TypeOK, StreamObjects
  <2> QED
    BY <1>1, <2>1, ReceiveConstants, Zenon DEF Exists
<1>3. PICK o \in outcomes : stream' = [stream EXCEPT ![s] = end(o)]
  BY Zenon DEF DispatchPacket, CheckedAfter
<1>4. /\ UNCHANGED mClient
      /\ active' = IF r.local = None \/ r.kind = "crs" THEN active
                   ELSE [active EXCEPT ![r.local] =
                           IF r.internal = "Valid" /\ changed.internal # "Valid" THEN FALSE
                           ELSE IF changed.count = 0 /\ r.count > 0 THEN TRUE ELSE @]
  BY Zenon DEF DispatchPacket
<1> HIDE DEF r
<1>5. Advanced(r, changed)
  BY <1>1, <1>2, ChangedAdvances, Zenon
<1>6. /\ Clocked(changed, o)
      /\ r.kind = "audio" /\ (r.lock \in {"Locking", "Locked"} => r.internal = "Valid")
            => (o.lock \in {"Locking", "Locked"} => o.internal = "Valid")
  <2>1. changed \in StreamObjects /\ changed.lock = r.lock
    BY <1>5, Zenon DEF Advanced
  <2> HIDE DEF changed
  <2>2. CASE r.kind = "audio"
    <3>1. o \in AudioClock(r, p, changed)
      BY <2>2, SMT
    <3> QED
      BY <1>1, <2>1, <3>1, AudioClocked
  <2>3. CASE r.kind = "crs"
    <3>1. o \in CrsClock(r, p, changed)
      BY <2>3, SMT
    <3> QED
      BY <1>1, <2>1, <2>3, <3>1, CrsClocked
  <2>4. CASE r.kind = "video"
    <3>1. o = changed
      BY <2>4, SMT
    <3> QED
      BY <2>1, <2>4, <3>1, Zenon DEF Clocked
  <2> QED
    BY <1>2, <2>2, <2>3, <2>4
<1> HIDE DEF changed, outcomes
<1>7. /\ checked(o) \in StreamObjects /\ checked(o).kind = r.kind /\ checked(o).local = r.local
      /\ checked(o).lock = o.lock /\ checked(o).internal = changed.internal /\ checked(o).count = changed.count
      /\ checked(o).state = changed.state /\ checked(o).lastState = checked(o).state
      /\ checked(o).told = checked(o).state
  <2>1. /\ o \in StreamObjects /\ o.kind = r.kind /\ o.local = r.local /\ o.internal = changed.internal
        /\ o.count = changed.count /\ o.state = changed.state /\ o.told = o.lastState
    BY <1>1, <1>5, <1>6, Zenon DEF Clocked, Advanced
  <2> QED
    BY <2>1, CheckedStates, ZenonT(60)
<1> HIDE DEF checked
<1>8. Follows(r, p) \in 0..Threshold
  <2>1. r.run \in 0..Threshold
    BY <1>1, Zenon DEF StreamObjects
  <2>2. 0 \in 0..Threshold /\ (r.run < Threshold => r.run + 1 \in 0..Threshold)
    BY <2>1, ReceiveConstants, SMT
  <2> QED
    BY <2>1, <2>2, Zenon DEF Follows
<1> DEFINE f == Follows(r, p)
<1>9. /\ end(o) \in StreamObjects /\ end(o).kind = r.kind /\ end(o).local = r.local /\ end(o).id = i
      /\ end(o).lock = o.lock /\ end(o).internal = changed.internal /\ end(o).count = changed.count
      /\ end(o).state = changed.state /\ end(o).lastState = changed.state /\ end(o).told = changed.state
      /\ end(o).run = f
  <2>1. f \in 0..Threshold
    BY <1>8
  <2> HIDE DEF f
  <2>2. [checked(o) EXCEPT !.id = i, !.run = f] \in StreamObjects
    BY <1>7, <2>1, Zenon DEF StreamObjects
  <2>3. LET d == [checked(o) EXCEPT !.id = i, !.run = f]
        IN /\ d.kind = checked(o).kind /\ d.local = checked(o).local /\ d.id = i
           /\ d.lock = checked(o).lock /\ d.internal = checked(o).internal /\ d.count = checked(o).count
           /\ d.state = checked(o).state /\ d.lastState = checked(o).lastState /\ d.told = checked(o).told
           /\ d.run = f
    BY <1>7, Zenon DEF StreamObjects
  <2> QED
    BY <1>7, <2>2, <2>3, Zenon DEF f
<1> HIDE DEF end, f
<1>10. Mode # "never" /\ Continuous(stream[s]) => Continuous(end(o))
  <2> SUFFICES ASSUME Mode # "never", Continuous(stream[s]) PROVE Continuous(end(o))
    OBVIOUS
  <2>1. Continuous(r)
    BY <1>1, Zenon DEF Continuous
  <2>2. /\ changed.internal # "Valid" => f = 0 /\ changed.count = Threshold /\ changed.state # "Valid"
        /\ changed.internal = "Valid" => f \in 1..Threshold /\ f + changed.count >= Threshold
        /\ changed.state = "Valid" => f = Threshold
    BY <1>1, <1>2, <2>1, CountKeepsUp, Zenon DEF f, changed
  <2>3. r.kind = "audio" /\ o.lock \in {"Locking", "Locked"} => changed.internal = "Valid"
    BY <1>6, <2>1, Zenon DEF Clocked, Continuous
  <2> QED
    BY <1>9, <2>2, <2>3, Zenon DEF Continuous
<1>11. active' \in [Locals -> BOOLEAN]
  <2>1. active \in [Locals -> BOOLEAN]
    BY DEF TypeOK
  <2>2. CASE r.local = None \/ r.kind = "crs"
    BY <1>4, <2>1, <2>2, Zenon
  <2>3. CASE ~(r.local = None \/ r.kind = "crs")
    <3>1. \E b \in BOOLEAN : active' = [active EXCEPT ![r.local] = b]
      BY <1>4, <2>1, <2>3, Zenon
    <3> QED
      BY <2>1, <3>1, Zenon
  <2> QED
    BY <2>2, <2>3
<1>12. ASSUME NEW l \in Locals, active'[l]
       PROVE  \/ active[l] /\ ~(l = r.local /\ stream[s].state = "Valid" /\ changed.state # "Valid")
              \/ l = r.local /\ changed.state = "Valid"
  <2>1. l # None
    BY ReceiveConstants, Zenon
  <2>2. active \in [Locals -> BOOLEAN]
    BY DEF TypeOK
  <2>3. CASE l # r.local
    BY <1>4, <1>12, <2>2, <2>3, Zenon
  <2>4. CASE l = r.local
    <3>1. r.kind # "crs"
      BY <1>1, <2>1, <2>4, Zenon
    <3>2. active'[l] = IF r.internal = "Valid" /\ changed.internal # "Valid" THEN FALSE
                       ELSE IF changed.count = 0 /\ r.count > 0 THEN TRUE ELSE active[l]
      BY <1>4, <2>1, <2>2, <2>4, <3>1, Zenon
    <3>3. ~(r.internal = "Valid" /\ changed.internal # "Valid")
      BY <1>12, <3>2, Zenon
    <3>4. CASE changed.count = 0 /\ r.count > 0
      BY <1>5, <2>4, <3>4, Zenon DEF Advanced
    <3>5. CASE ~(changed.count = 0 /\ r.count > 0)
      <4>1. active[l]
        BY <1>12, <3>2, <3>3, <3>5, Zenon
      <4>2. ~(r.state = "Valid" /\ changed.state # "Valid")
        BY <1>5, <3>1, <3>3, Zenon DEF Advanced
      <4> QED
        BY <1>1, <4>1, <4>2, Zenon
    <3> QED
      BY <3>4, <3>5
  <2> QED
    BY <2>3, <2>4
<1>13. Dispatched(s, i, end(o))
  BY <1>1, <1>3, <1>4, <1>9, <1>10, <1>11, <1>12, Zenon DEF Dispatched
<1> QED
  BY <1>9, <1>13

----------------------------------------------------------------------------
(* Every step preserves the invariant                                      *)

\* A new stream, or no stream, is disconnected and has had no packet.
LEMMA FreshStream ==
  ASSUME NEW k \in Kinds \cup {"none"}, NEW i \in Ids, NEW b \in BOOLEAN
  PROVE  /\ Fresh(k, i, b) \in StreamObjects
         /\ Fresh(k, i, b).kind = k /\ Fresh(k, i, b).id = i /\ Fresh(k, i, b).local = None
         /\ Fresh(k, i, b).told = Fresh(k, i, b).lastState /\ Fresh(k, i, b).told = Fresh(k, i, b).state
         /\ Continuous(Fresh(k, i, b))
<1>1. Threshold \in 0..Threshold /\ 0 \in 0..Threshold
  BY ReceiveConstants, SMT
<1>2. Fresh(k, i, b) \in StreamObjects
  BY <1>1, Zenon DEF Fresh, StreamObjects, States, LockStates
<1> QED
  BY <1>2, SMT DEF Fresh, Continuous

\* What a dispatch does to the invariant when the stream keeps its entry, or takes one that is free.
LEMMA DispatchKeeps ==
  ASSUME EngineInv, NEW s \in Streams, Exists(s), NEW i \in Ids, NEW d, Dispatched(s, i, d),
         UNCHANGED <<apiVars, alsaVars>>, crashed' \in BOOLEAN,
         \/ UNCHANGED mAvbStreams /\ stream[s].id = i
         \/ /\ apiPc = "idle" /\ mAvbStreams[i] = None /\ mAvbStreams[Wildcard] = s
            /\ Rekeyed(i, s)
  PROVE  EngineInv'
<1> USE DEF EngineInv
<1>1. /\ d \in StreamObjects /\ d.kind = stream[s].kind /\ d.local = stream[s].local /\ d.id = i
      /\ d.told = d.lastState /\ d.told = d.state
      /\ stream' = [stream EXCEPT ![s] = d] /\ mClient' = mClient
      /\ active' \in [Locals -> BOOLEAN]
      /\ \A l \in Locals : active'[l] => \/ active[l] /\ ~(l = d.local /\ stream[s].state = "Valid" /\ d.state # "Valid")
                                         \/ l = d.local /\ d.state = "Valid"
  BY Zenon DEF Dispatched
<1>2. stream \in [Streams -> StreamObjects] /\ mAvbStreams \in [Ids -> Streams \cup {None}]
  BY DEF TypeOK
<1>3. /\ stream'[s] = d
      /\ \A t \in Streams : t # s => stream'[t] = stream[t]
      /\ \A t \in Streams : stream'[t].kind = stream[t].kind /\ stream'[t].local = stream[t].local
  BY <1>1, <1>2, Zenon
<1>4. mAvbStreams' \in [Ids -> Streams \cup {None}]
  <2>1. CASE UNCHANGED mAvbStreams
    BY <1>2, <2>1
  <2>2. CASE Rekeyed(i, s)
    BY <1>2, <2>2, Zenon DEF Rekeyed
  <2> QED
    BY <2>1, <2>2
<1>5. TypeOK'
  <2>1. stream' \in [Streams -> StreamObjects]
    BY <1>1, <1>2, Zenon
  <2> QED
    BY <1>1, <1>4, <2>1, Zenon DEF TypeOK, apiVars, alsaVars
<1>6. CallsInPlace'
  BY Zenon DEF CallsInPlace, apiVars, alsaVars
<1>7. MapInv'
  <2>1. CASE UNCHANGED mAvbStreams /\ stream[s].id = i
    <3>1. \A t \in Streams : stream'[t].id = stream[t].id /\ stream'[t].kind = stream[t].kind
      BY <1>1, <1>3, <2>1, Zenon
    <3> QED
      BY <1>2, <2>1, <3>1, SMT DEF MapInv, Exists, CallsInPlace, apiVars, alsaVars
  <2>2. CASE /\ apiPc = "idle" /\ mAvbStreams[i] = None /\ mAvbStreams[Wildcard] = s
             /\ Rekeyed(i, s)
    <3>1. i # Wildcard /\ s # None /\ Wildcard \in Ids
      BY <2>2, ReceiveConstants, Zenon
    <3>2. /\ mAvbStreams'[i] = s /\ mAvbStreams'[Wildcard] = None
          /\ \A j \in Ids : j # i /\ j # Wildcard => mAvbStreams'[j] = mAvbStreams[j]
      BY <1>2, <2>2, <3>1, Zenon DEF Rekeyed
    <3>3. \A j \in Ids : mAvbStreams'[j] # None =>
            stream'[mAvbStreams'[j]].kind # "none" /\ stream'[mAvbStreams'[j]].id = j
      <4> SUFFICES ASSUME NEW j \in Ids, mAvbStreams'[j] # None
                   PROVE  stream'[mAvbStreams'[j]].kind # "none" /\ stream'[mAvbStreams'[j]].id = j
        OBVIOUS
      <4>1. CASE j = i
        BY <1>1, <1>3, <3>2, <4>1, Zenon DEF Exists
      <4>2. CASE j # i
        <5>1. mAvbStreams'[j] = mAvbStreams[j] /\ j # Wildcard
          BY <3>2, <4>2, Zenon
        <5>2. mAvbStreams[j] \in Streams /\ stream[mAvbStreams[j]].id = j /\ Exists(mAvbStreams[j])
          BY <1>2, <5>1 DEF MapInv
        <5>3. stream[s].id = Wildcard
          BY <2>2, <3>1, Zenon DEF MapInv
        <5>4. mAvbStreams[j] # s
          BY <5>1, <5>2, <5>3, Zenon
        <5> QED
          BY <1>3, <5>1, <5>2, <5>4, Zenon DEF Exists
      <4> QED
        BY <4>1, <4>2
    <3>4. \A t \in Streams : Exists(t)' => mAvbStreams'[stream'[t].id] = t
      <4> SUFFICES ASSUME NEW t \in Streams, stream'[t].kind # "none" PROVE mAvbStreams'[stream'[t].id] = t
        BY DEF Exists
      <4>1. CASE t = s
        BY <1>1, <1>3, <3>2, <4>1, Zenon
      <4>2. CASE t # s
        <5>1. stream'[t] = stream[t] /\ mAvbStreams[stream[t].id] = t /\ stream[t].id \in Ids
          BY <1>2, <1>3, <2>2, <4>2, Zenon DEF MapInv, Exists, StreamObjects
        <5>2. stream[t].id # i /\ stream[t].id # Wildcard
          BY <2>2, <4>2, <5>1, ReceiveConstants, Zenon
        <5> QED
          BY <3>2, <5>1, <5>2, Zenon
      <4> QED
        BY <4>1, <4>2
    <3>5. apiPc' = "idle" /\ alsaStream' = alsaStream
      BY <2>2, Zenon DEF apiVars, alsaVars
    <3>6. alsaStream # None => stream'[alsaStream].kind = stream[alsaStream].kind
      <4>1. alsaStream \in Streams \cup {None}
        BY DEF TypeOK
      <4> QED
        BY <1>3, <4>1, Zenon
    <3> QED
      BY <3>3, <3>4, <3>5, <3>6, Zenon DEF MapInv, Exists
  <2> QED
    BY <2>1, <2>2
<1>8. ConnectedInv'
  BY <1>3, Zenon DEF ConnectedInv, CallsInPlace, apiVars
<1>9. ClientConsistent'
  <2>1. ASSUME NEW l \in Locals, NEW t \in Streams
        PROVE  mClient'[l] = t <=> Exists(t)' /\ stream'[t].local = l
    <3>1. mClient[l] = t <=> Exists(t) /\ stream[t].local = l
      BY Zenon DEF ClientConsistent
    <3>2. stream'[t].kind = stream[t].kind /\ stream'[t].local = stream[t].local
      BY <1>3, Zenon
    <3> QED
      BY <1>1, <3>1, <3>2, Zenon DEF Exists
  <2>2. ASSUME NEW l \in Locals, active'[l]
        PROVE  /\ mClient'[l] # None
               /\ stream'[mClient'[l]].state = "Valid" \/ alsaStream' = mClient'[l]
    <3>1. CASE l = d.local /\ d.state = "Valid"
      <4>1. mClient[l] = s
        BY <1>1, <3>1, Zenon DEF ClientConsistent
      <4> QED
        BY <1>1, <1>3, <3>1, <4>1, ReceiveConstants, Zenon
    <3>2. CASE active[l] /\ ~(l = d.local /\ stream[s].state = "Valid" /\ d.state # "Valid")
      <4>1. /\ mClient[l] # None
            /\ stream[mClient[l]].state = "Valid" \/ alsaStream = mClient[l]
        BY <3>2, Zenon DEF ClientConsistent
      <4>2. mClient[l] \in Streams
        BY <4>1, Zenon DEF TypeOK
      <4>3. CASE mClient[l] = s
        <5>1. l = d.local
          BY <1>1, <4>3, Zenon DEF ClientConsistent
        <5>2. mClient'[l] = s /\ stream'[s].state = d.state /\ alsaStream' = alsaStream
          BY <1>1, <1>3, <4>3, Zenon DEF alsaVars
        <5>3. stream[s].state = "Valid" => d.state = "Valid"
          BY <3>2, <5>1
        <5> QED
          BY <4>1, <4>3, <5>2, <5>3, Zenon
      <4>4. CASE mClient[l] # s
        BY <1>1, <1>3, <4>1, <4>2, <4>4, Zenon DEF alsaVars
      <4> QED
        BY <4>3, <4>4
    <3> QED
      BY <1>1, <2>2, <3>1, <3>2, Zenon
  <2>3. ASSUME NEW t \in Streams
        PROVE  /\ stream'[t].told = stream'[t].lastState
               /\ stream'[t].told # stream'[t].state =>
                    stream'[t].kind = "audio" /\ stream'[t].state = "NoData" /\ stream'[t].waitForData
    <3>1. CASE t = s
      BY <1>1, <1>3, <3>1, Zenon
    <3>2. CASE t # s
      <4>1. stream'[t] = stream[t]
        BY <1>3, <3>2, Zenon
      <4>2. /\ stream[t].told = stream[t].lastState
            /\ stream[t].told # stream[t].state =>
                 stream[t].kind = "audio" /\ stream[t].state = "NoData" /\ stream[t].waitForData
        BY Zenon DEF ClientConsistent
      <4> QED
        BY <4>1, <4>2
    <3> QED
      BY <3>1, <3>2
  <2> QED
    BY <2>1, <2>2, <2>3, Zenon DEF ClientConsistent
<1> QED
  BY <1>5, <1>6, <1>7, <1>8, <1>9

\* stream s keeps its entry of the map, or moves from the wildcard's to a free one
EntryKept(s, i) ==
  \/ UNCHANGED mAvbStreams /\ stream[s].id = i
  \/ apiPc = "idle" /\ mAvbStreams[i] = None /\ mAvbStreams[Wildcard] = s /\ Rekeyed(i, s)

\* Every step of the worker dispatches a packet, or none, to a stream of the map.
LEMMA WorkerDispatches ==
  ASSUME EngineInv, "lookup" \in Assume, Worker
  PROVE  \E s \in Streams, i \in Ids, d \in StreamObjects :
           /\ Exists(s) /\ Dispatched(s, i, d) /\ EntryKept(s, i)
           /\ UNCHANGED <<apiVars, alsaVars>> /\ crashed' \in BOOLEAN
<1> USE DEF EngineInv
<1>1. ASSUME NEW j \in Ids, mAvbStreams[j] # None, NEW i \in Ids, NEW p, p.null \in BOOLEAN,
             DispatchPacket(mAvbStreams[j], i, p), EntryKept(mAvbStreams[j], i), UNCHANGED <<apiVars, alsaVars>>
      PROVE  \E s \in Streams, k \in Ids, d \in StreamObjects :
               /\ Exists(s) /\ Dispatched(s, k, d) /\ EntryKept(s, k)
               /\ UNCHANGED <<apiVars, alsaVars>> /\ crashed' \in BOOLEAN
  <2> DEFINE s == mAvbStreams[j]
  <2>1. s \in Streams /\ Exists(s)
    BY <1>1 DEF TypeOK, MapInv
  <2>2. stream[s].told = stream[s].lastState
    BY <2>1, Zenon DEF ClientConsistent
  <2>3. stream[s].kind = "crs" => stream[s].local = None
    BY <2>1, Zenon DEF ConnectedInv
  <2>4. crashed' \in BOOLEAN
    BY <1>1, Zenon DEF DispatchPacket
  <2>5. DispatchPacket(s, i, p)
    BY <1>1
  <2> HIDE DEF s
  <2>6. \E d \in StreamObjects : Dispatched(s, i, d)
    BY <1>1, <2>1, <2>2, <2>3, <2>5, DispatchSteps
  <2> QED
    BY <1>1, <2>1, <2>4, <2>6 DEF s
<1>2. \A p \in Packet \cup {NullPacket} : p.null \in BOOLEAN
  <2>1. ASSUME NEW p \in Packet PROVE p.null \in BOOLEAN
    <3>1. p.null = FALSE
      BY Zenon DEF Packet
    <3> QED
      BY <3>1, Zenon
  <2>2. NullPacket.null \in BOOLEAN
    <3>1. NullPacket.null = TRUE
      BY Zenon DEF NullPacket
    <3> QED
      BY <3>1, Zenon
  <2> QED
    BY <2>1, <2>2
<1>3. \A j \in Ids : mAvbStreams[j] # None => stream[mAvbStreams[j]].id = j
  BY Zenon DEF MapInv
<1>4. Wildcard \in Ids
  BY ReceiveConstants
<1>5. ASSUME NEW i \in Ids, NEW p \in Packet, ReceivePacket(i, p)
      PROVE  /\ DispatchPacket(mAvbStreams[i], i, p) /\ EntryKept(mAvbStreams[i], i)
             /\ mAvbStreams[i] # None /\ UNCHANGED <<apiVars, alsaVars>>
  BY <1>3, <1>5, Zenon DEF ReceivePacket, EntryKept, Mapped
<1>6. ASSUME NEW i \in Ids, NEW p \in Packet, ReceiveForWildcard(i, p)
      PROVE  /\ DispatchPacket(mAvbStreams[Wildcard], Wildcard, p) /\ EntryKept(mAvbStreams[Wildcard], Wildcard)
             /\ mAvbStreams[Wildcard] # None /\ UNCHANGED <<apiVars, alsaVars>>
  BY <1>3, <1>4, <1>6, Zenon DEF ReceiveForWildcard, EntryKept, Mapped
<1>7. ASSUME NEW i \in Ids, NEW p \in Packet, ReceiveAndRekey(i, p)
      PROVE  /\ DispatchPacket(mAvbStreams[Wildcard], i, p) /\ EntryKept(mAvbStreams[Wildcard], i)
             /\ mAvbStreams[Wildcard] # None /\ UNCHANGED <<apiVars, alsaVars>>
  BY <1>3, <1>4, <1>7, Zenon DEF ReceiveAndRekey, EntryKept, Mapped, Quiet
<1>8. ASSUME NEW i \in Ids, StreamTimeout(i)
      PROVE  /\ DispatchPacket(mAvbStreams[i], i, NullPacket) /\ EntryKept(mAvbStreams[i], i)
             /\ mAvbStreams[i] # None /\ UNCHANGED <<apiVars, alsaVars>>
  BY <1>3, <1>8, Zenon DEF StreamTimeout, EntryKept, Mapped
<1>9. CASE \E i \in Ids, p \in Packet : ReceivePacket(i, p)
  BY <1>1, <1>2, <1>5, <1>9
<1>10. CASE \E i \in Ids, p \in Packet : ReceiveForWildcard(i, p)
  BY <1>1, <1>2, <1>4, <1>6, <1>10
<1>11. CASE \E i \in Ids, p \in Packet : ReceiveAndRekey(i, p)
  BY <1>1, <1>2, <1>4, <1>7, <1>11
<1>12. CASE \E i \in Ids : StreamTimeout(i)
  <2>1. NullPacket.null \in BOOLEAN
    BY <1>2
  <2> QED
    BY <1>1, <1>8, <1>12, <2>1
<1> QED
  BY <1>9, <1>10, <1>11, <1>12 DEF Worker

\* ... and that keeps the invariant.
LEMMA WorkerKeeps ==
  ASSUME EngineInv, "lookup" \in Assume, Worker
  PROVE  EngineInv'
<1>1. PICK s \in Streams, i \in Ids, d \in StreamObjects :
         /\ Exists(s) /\ Dispatched(s, i, d) /\ EntryKept(s, i)
         /\ UNCHANGED <<apiVars, alsaVars>> /\ crashed' \in BOOLEAN
  BY WorkerDispatches
<1> QED
  BY <1>1, DispatchKeeps, Zenon DEF EntryKept

\* The audio thread's report of an underrun.
LEMMA AlsaKeeps ==
  ASSUME EngineInv, Alsa
  PROVE  EngineInv'
<1> USE DEF EngineInv
<1>0. /\ stream \in [Streams -> StreamObjects] /\ active \in [Locals -> BOOLEAN]
      /\ mClient \in [Locals -> Streams \cup {None}] /\ alsaStream \in Streams \cup {None}
  BY DEF TypeOK
<1>1. CASE \E l \in Locals : Underrun(l)
  <2>1. PICK l \in Locals : Underrun(l)
    BY <1>1
  <2>2. /\ alsaStream = None /\ alsaPc' = "state" /\ alsaStream' = mClient[l] /\ mClient[l] \in Streams
        /\ Exists(mClient[l]) /\ stream[mClient[l]].kind = "audio"
        /\ UNCHANGED <<mAvbStreams, stream, localVars, apiVars, crashed>>
    BY <1>0, <2>1, Zenon DEF Underrun, CallsInPlace, Exists
  <2>3. TypeOK' /\ CallsInPlace' /\ ConnectedInv'
    BY <2>2, Zenon DEF TypeOK, CallsInPlace, ConnectedInv, localVars, apiVars
  <2>4. MapInv'
    BY <2>2, Zenon DEF MapInv, Exists, apiVars
  <2>5. ClientConsistent'
    BY <2>2 DEF ClientConsistent, Exists, localVars
  <2> QED
    BY <2>3, <2>4, <2>5
<1>2. CASE SignalState
  <2>1. /\ alsaStream \in Streams /\ Exists(alsaStream) /\ stream[alsaStream].kind = "audio"
        /\ stream' = [stream EXCEPT ![alsaStream].state = "NoData", ![alsaStream].waitForData = TRUE]
        /\ alsaPc' = "client" /\ UNCHANGED <<mAvbStreams, localVars, apiVars, alsaStream, crashed>>
    <3>1. alsaPc = "state" /\ alsaStream \in Streams
      BY <1>2, Zenon DEF SignalState, CallsInPlace
    <3>2. Exists(alsaStream) /\ stream[alsaStream].kind = "audio"
      BY <3>1, ReceiveConstants DEF MapInv
    <3> QED
      BY <1>2, <3>1, <3>2, Zenon DEF SignalState
  <2> DEFINE d == [stream[alsaStream] EXCEPT !.state = "NoData", !.waitForData = TRUE]
  <2>2. d \in StreamObjects
    <3>1. stream[alsaStream] \in StreamObjects
      BY <1>0, <2>1, Zenon
    <3>2. "NoData" \in States
      BY DEF States
    <3> QED
      BY <3>1, <3>2, Zenon DEF StreamObjects
  <2>3. /\ d.kind = "audio" /\ d.id = stream[alsaStream].id /\ d.local = stream[alsaStream].local
        /\ d.state = "NoData" /\ d.waitForData /\ d.told = stream[alsaStream].told
        /\ d.lastState = stream[alsaStream].lastState
    BY <1>0, <2>1, Zenon DEF StreamObjects
  <2>4. stream' = [stream EXCEPT ![alsaStream] = d]
    BY <1>0, <2>1, Zenon
  <2> HIDE DEF d
  <2>5. /\ stream' \in [Streams -> StreamObjects] /\ stream'[alsaStream] = d
        /\ \A t \in Streams : t # alsaStream => stream'[t] = stream[t]
        /\ \A t \in Streams : /\ stream'[t].kind = stream[t].kind /\ stream'[t].local = stream[t].local
                              /\ stream'[t].id = stream[t].id
    BY <1>0, <2>1, <2>2, <2>3, <2>4, Zenon
  <2>6. TypeOK' /\ CallsInPlace' /\ ConnectedInv'
    BY <2>1, <2>5, Zenon DEF TypeOK, CallsInPlace, ConnectedInv, localVars, apiVars
  <2>7. MapInv'
    BY <1>0, <2>1, <2>5, SMT DEF TypeOK, MapInv, CallsInPlace, Exists, apiVars
  <2>8. ClientConsistent'
    <3>1. ASSUME NEW l \in Locals, NEW t \in Streams
          PROVE  mClient'[l] = t <=> Exists(t)' /\ stream'[t].local = l
      <4>1. mClient[l] = t <=> Exists(t) /\ stream[t].local = l
        BY Zenon DEF ClientConsistent
      <4> QED
        BY <2>1, <2>5, <4>1, Zenon DEF Exists, localVars
    <3>2. ASSUME NEW l \in Locals, active'[l]
          PROVE  /\ mClient'[l] # None
                 /\ stream'[mClient'[l]].state = "Valid" \/ alsaStream' = mClient'[l]
      <4>1. /\ mClient[l] # None
            /\ stream[mClient[l]].state = "Valid" \/ alsaStream = mClient[l]
        BY <2>1, <3>2, Zenon DEF ClientConsistent, localVars
      <4>2. mClient[l] \in Streams
        BY <1>0, <4>1
      <4> QED
        BY <2>1, <2>5, <4>1, <4>2, Zenon DEF localVars
    <3>3. ASSUME NEW t \in Streams
          PROVE  /\ stream'[t].told = stream'[t].lastState
                 /\ stream'[t].told # stream'[t].state =>
                      stream'[t].kind = "audio" /\ stream'[t].state = "NoData" /\ stream'[t].waitForData
      <4>1. /\ stream[t].told = stream[t].lastState
            /\ stream[t].told # stream[t].state =>
                 stream[t].kind = "audio" /\ stream[t].state = "NoData" /\ stream[t].waitForData
        BY Zenon DEF ClientConsistent
      <4>2. CASE t = alsaStream
        BY <2>1, <2>3, <2>5, <4>1, <4>2, Zenon
      <4>3. CASE t # alsaStream
        BY <2>5, <4>1, <4>3, Zenon
      <4> QED
        BY <4>2, <4>3
    <3> QED
      BY <3>1, <3>2, <3>3, Zenon DEF ClientConsistent
  <2> QED
    BY <2>6, <2>7, <2>8
<1>3. CASE SignalClient
  <2>1. /\ alsaStream \in Streams /\ Exists(alsaStream)
        /\ active' = [l \in Locals |-> active[l] /\ stream[alsaStream].local # l]
        /\ alsaPc' = "idle" /\ alsaStream' = None /\ UNCHANGED <<mAvbStreams, stream, mClient, apiVars, crashed>>
    <3>1. alsaPc = "client" /\ alsaStream \in Streams
      BY <1>3, Zenon DEF SignalClient, CallsInPlace
    <3>2. Exists(alsaStream)
      BY <3>1, ReceiveConstants DEF MapInv
    <3> QED
      BY <1>3, <3>1, <3>2, Zenon DEF SignalClient
  <2>2. active' \in [Locals -> BOOLEAN]
    BY <2>1, Zenon
  <2>3. TypeOK' /\ CallsInPlace' /\ ConnectedInv'
    BY <2>1, <2>2, Zenon DEF TypeOK, CallsInPlace, ConnectedInv, apiVars
  <2>4. MapInv'
    BY <2>1, Zenon DEF MapInv, Exists, apiVars
  <2>5. ASSUME NEW l \in Locals, active'[l] PROVE mClient[l] # None /\ stream[mClient[l]].state = "Valid"
    <3>1. active[l] /\ stream[alsaStream].local # l
      BY <2>1, <2>5, Zenon
    <3>2. mClient[l] # alsaStream
      BY <2>1, <3>1, Zenon DEF ClientConsistent
    <3> QED
      BY <3>1, <3>2, Zenon DEF ClientConsistent
  <2>6. ClientConsistent'
    BY <2>1, <2>5 DEF ClientConsistent, Exists
  <2> QED
    BY <2>3, <2>4, <2>6
<1> QED
  BY <1>1, <1>2, <1>3 DEF Alsa

\* A stream that leaves the map and is deleted leaves its local stream behind, inactive.
LEMMA DeletedKeeps ==
  ASSUME EngineInv, NEW i \in Ids, mAvbStreams[i] # None, alsaStream # mAvbStreams[i],
         apiPc \in {"idle", "bind"}, apiPc' = "idle", apiStream' \in Streams \cup {None}, apiId' \in Ids \cup {None},
         mAvbStreams' = [mAvbStreams EXCEPT ![i] = None], Deleted(mAvbStreams[i]), UNCHANGED <<alsaVars, crashed>>
  PROVE  EngineInv'
<1> USE DEF EngineInv
<1> DEFINE s == mAvbStreams[i]
<1>0. /\ stream \in [Streams -> StreamObjects] /\ active \in [Locals -> BOOLEAN]
      /\ mClient \in [Locals -> Streams \cup {None}] /\ alsaStream \in Streams \cup {None}
      /\ mAvbStreams \in [Ids -> Streams \cup {None}]
  BY DEF TypeOK
<1>1. s \in Streams /\ Exists(s) /\ stream[s].id = i
  BY <1>0 DEF MapInv
<1>2. /\ stream' = [stream EXCEPT ![s] = Nothing]
      /\ mClient' = [l \in Locals |-> IF mClient[l] = s THEN None ELSE mClient[l]]
      /\ active' = [l \in Locals |-> active[l] /\ mClient[l] # s]
  BY Zenon DEF Deleted
<1>3. /\ Nothing \in StreamObjects /\ Nothing.kind = "none" /\ Nothing.local = None
      /\ Nothing.told = Nothing.lastState /\ Nothing.told = Nothing.state
  <2>1. "none" \in Kinds \cup {"none"} /\ Wildcard \in Ids /\ FALSE \in BOOLEAN
    BY ReceiveConstants, Zenon
  <2> QED
    BY <2>1, FreshStream, Zenon DEF Nothing
<1>4. /\ stream' \in [Streams -> StreamObjects] /\ stream'[s] = Nothing
      /\ \A t \in Streams : t # s => stream'[t] = stream[t]
  BY <1>0, <1>1, <1>2, <1>3, Zenon
<1>5. /\ mAvbStreams' \in [Ids -> Streams \cup {None}] /\ mAvbStreams'[i] = None
      /\ \A j \in Ids : j # i => mAvbStreams'[j] = mAvbStreams[j]
  BY <1>0, Zenon
<1> HIDE DEF s
<1>6. TypeOK'
  <2>1. mClient' \in [Locals -> Streams \cup {None}] /\ active' \in [Locals -> BOOLEAN]
    BY <1>0, <1>2, Zenon
  <2> QED
    BY <1>4, <1>5, <2>1, Zenon DEF TypeOK, alsaVars
<1>7. CallsInPlace'
  BY Zenon DEF CallsInPlace, alsaVars
<1>8. MapInv'
  <2>1. ASSUME NEW j \in Ids, mAvbStreams'[j] # None
        PROVE  stream'[mAvbStreams'[j]].kind # "none" /\ stream'[mAvbStreams'[j]].id = j
    <3>1. j # i /\ mAvbStreams'[j] = mAvbStreams[j]
      BY <1>5, <2>1, Zenon
    <3>2. mAvbStreams[j] \in Streams /\ Exists(mAvbStreams[j]) /\ stream[mAvbStreams[j]].id = j
      BY <1>0, <2>1, <3>1 DEF MapInv
    <3>3. mAvbStreams[j] # s
      BY <1>1, <3>1, <3>2, Zenon
    <3> QED
      BY <1>4, <3>1, <3>2, <3>3, Zenon DEF Exists
  <2>2. ASSUME NEW t \in Streams, stream'[t].kind # "none" PROVE mAvbStreams'[stream'[t].id] = t
    <3>1. t # s /\ stream'[t] = stream[t] /\ Exists(t)
      BY <1>3, <1>4, <2>2, Zenon DEF Exists
    <3>2. mAvbStreams[stream[t].id] = t /\ stream[t].id \in Ids
      BY <1>0, <3>1, Zenon DEF MapInv, StreamObjects
    <3>3. stream[t].id # i
      BY <3>1, <3>2, Zenon DEF s
    <3> QED
      BY <1>5, <3>1, <3>2, <3>3, Zenon
  <2>3. alsaStream # None => stream'[alsaStream] = stream[alsaStream]
    BY <1>0, <1>4, Zenon DEF s
  <2> QED
    BY <2>1, <2>2, <2>3, Zenon DEF MapInv, Exists, alsaVars
<1>9. ConnectedInv'
  BY <1>3, <1>4, Zenon DEF ConnectedInv
<1>10. ClientConsistent'
  <2>1. ASSUME NEW l \in Locals, NEW t \in Streams
        PROVE  mClient'[l] = t <=> Exists(t)' /\ stream'[t].local = l
    <3>1. mClient[l] = t <=> Exists(t) /\ stream[t].local = l
      BY Zenon DEF ClientConsistent
    <3>2. t # None /\ l # None
      BY ReceiveConstants, Zenon
    <3>3. CASE t = s
      BY <1>2, <1>3, <1>4, <3>2, <3>3, Zenon DEF Exists
    <3>4. CASE t # s
      BY <1>2, <1>4, <3>1, <3>2, <3>4, Zenon DEF Exists
    <3> QED
      BY <3>3, <3>4
  <2>2. ASSUME NEW l \in Locals, active'[l]
        PROVE  /\ mClient'[l] # None
               /\ stream'[mClient'[l]].state = "Valid" \/ alsaStream' = mClient'[l]
    <3>1. active[l] /\ mClient[l] # s /\ mClient'[l] = mClient[l]
      BY <1>2, <2>2, Zenon
    <3>2. /\ mClient[l] # None
          /\ stream[mClient[l]].state = "Valid" \/ alsaStream = mClient[l]
      BY <3>1, Zenon DEF ClientConsistent
    <3>3. mClient[l] \in Streams
      BY <1>0, <3>2
    <3> QED
      BY <1>4, <3>1, <3>2, <3>3, Zenon DEF alsaVars
  <2>3. ASSUME NEW t \in Streams
        PROVE  /\ stream'[t].told = stream'[t].lastState
               /\ stream'[t].told # stream'[t].state =>
                    stream'[t].kind = "audio" /\ stream'[t].state = "NoData" /\ stream'[t].waitForData
    <3>1. CASE t = s
      BY <1>3, <1>4, <3>1, Zenon
    <3>2. CASE t # s
      <4>1. stream'[t] = stream[t]
        BY <1>4, <3>2, Zenon
      <4>2. /\ stream[t].told = stream[t].lastState
            /\ stream[t].told # stream[t].state =>
                 stream[t].kind = "audio" /\ stream[t].state = "NoData" /\ stream[t].waitForData
        BY Zenon DEF ClientConsistent
      <4> QED
        BY <4>1, <4>2
    <3> QED
      BY <3>1, <3>2
  <2> QED
    BY <2>1, <2>2, <2>3, Zenon DEF ClientConsistent
<1> QED
  BY <1>6, <1>7, <1>8, <1>9, <1>10

\* A stream object is replaced by one that is connected as before and has the same id.
LEMMA ReplacedKeeps ==
  ASSUME EngineInv, NEW s \in Streams, NEW d \in StreamObjects, stream' = [stream EXCEPT ![s] = d],
         d.kind = stream[s].kind, d.id = stream[s].id, d.local = stream[s].local, d.told = stream[s].told,
         d.lastState = stream[s].lastState, d.state = stream[s].state, d.waitForData = stream[s].waitForData,
         UNCHANGED <<mAvbStreams, localVars, apiVars, alsaVars, crashed>>
  PROVE  EngineInv'
<1> USE DEF EngineInv
<1>0. /\ stream \in [Streams -> StreamObjects] /\ alsaStream \in Streams \cup {None}
      /\ mClient \in [Locals -> Streams \cup {None}] /\ mAvbStreams \in [Ids -> Streams \cup {None}]
      /\ apiStream \in Streams \cup {None}
  BY DEF TypeOK
<1>1. /\ stream' \in [Streams -> StreamObjects]
      /\ \A t \in Streams :
           /\ stream'[t].kind = stream[t].kind /\ stream'[t].id = stream[t].id /\ stream'[t].local = stream[t].local
           /\ stream'[t].told = stream[t].told /\ stream'[t].lastState = stream[t].lastState
           /\ stream'[t].state = stream[t].state /\ stream'[t].waitForData = stream[t].waitForData
  BY <1>0, Zenon
<1>2. TypeOK' /\ CallsInPlace' /\ ConnectedInv'
  BY <1>1, Zenon DEF TypeOK, CallsInPlace, ConnectedInv, localVars, apiVars, alsaVars
<1>3. MapInv'
  BY <1>0, <1>1, SMT DEF MapInv, CallsInPlace, Exists, apiVars, alsaVars
<1>4. ClientConsistent'
  <2>1. ASSUME NEW l \in Locals, NEW t \in Streams
        PROVE  mClient'[l] = t <=> Exists(t)' /\ stream'[t].local = l
    <3>1. mClient[l] = t <=> Exists(t) /\ stream[t].local = l
      BY Zenon DEF ClientConsistent
    <3> QED
      BY <1>1, <3>1, Zenon DEF Exists, localVars
  <2>2. ASSUME NEW l \in Locals, active'[l]
        PROVE  /\ mClient'[l] # None
               /\ stream'[mClient'[l]].state = "Valid" \/ alsaStream' = mClient'[l]
    <3>1. /\ mClient[l] # None
          /\ stream[mClient[l]].state = "Valid" \/ alsaStream = mClient[l]
      BY <2>2, Zenon DEF ClientConsistent, localVars
    <3>2. mClient[l] \in Streams
      BY <1>0, <3>1
    <3> QED
      BY <1>1, <3>1, <3>2, Zenon DEF localVars, alsaVars
  <2>3. ASSUME NEW t \in Streams
        PROVE  /\ stream'[t].told = stream'[t].lastState
               /\ stream'[t].told # stream'[t].state =>
                    stream'[t].kind = "audio" /\ stream'[t].state = "NoData" /\ stream'[t].waitForData
    BY <1>1 DEF ClientConsistent
  <2> QED
    BY <2>1, <2>2, <2>3, Zenon DEF ClientConsistent
<1> QED
  BY <1>2, <1>3, <1>4

\* A new stream waits for its entry of the map.
LEMMA CreateKeeps ==
  ASSUME EngineInv, NEW k \in Kinds, k # "none", NEW i \in Ids, NEW b \in BOOLEAN, Create(k, i, b)
  PROVE  EngineInv'
<1> USE DEF EngineInv
<1>0. /\ stream \in [Streams -> StreamObjects] /\ alsaStream \in Streams \cup {None}
      /\ mClient \in [Locals -> Streams \cup {None}] /\ mAvbStreams \in [Ids -> Streams \cup {None}]
  BY DEF TypeOK
<1>1. PICK s \in Streams : ~Exists(s) /\ stream' = [stream EXCEPT ![s] = Fresh(k, i, b)] /\ apiStream' = s
  BY Zenon DEF Create
<1>2. /\ apiPc = "idle" /\ mAvbStreams[i] = None /\ apiPc' = "insert" /\ apiId' = i
      /\ UNCHANGED <<mAvbStreams, localVars, alsaVars, crashed>>
  BY Zenon DEF Create, ApiIdle
<1> DEFINE d == Fresh(k, i, b)
<1>3. /\ d \in StreamObjects /\ d.kind = k /\ d.id = i /\ d.local = None /\ d.told = d.lastState /\ d.told = d.state
  BY FreshStream
<1> HIDE DEF d
<1>4. /\ stream' \in [Streams -> StreamObjects] /\ stream'[s] = d
      /\ \A t \in Streams : t # s => stream'[t] = stream[t]
  BY <1>0, <1>1, <1>3, Zenon DEF d
<1>5. TypeOK' /\ CallsInPlace'
  BY <1>1, <1>2, <1>4, Zenon DEF TypeOK, CallsInPlace, localVars, alsaVars
<1>6. MapInv'
  <2>1. ASSUME NEW j \in Ids, mAvbStreams[j] # None
        PROVE  stream'[mAvbStreams[j]].kind # "none" /\ stream'[mAvbStreams[j]].id = j
    <3>1. mAvbStreams[j] \in Streams /\ Exists(mAvbStreams[j]) /\ stream[mAvbStreams[j]].id = j
      BY <1>0, <2>1 DEF MapInv
    <3> QED
      BY <1>1, <1>4, <3>1, Zenon DEF Exists
  <2>2. ASSUME NEW t \in Streams, stream'[t].kind # "none", t # s PROVE mAvbStreams[stream'[t].id] = t
    BY <1>2, <1>4, <2>2, Zenon DEF MapInv, Exists
  <2>3. alsaStream # None => stream'[alsaStream].kind # "none" /\ stream'[alsaStream].kind = "audio"
    BY <1>0, <1>1, <1>4, Zenon DEF MapInv, Exists
  <2> QED
    BY <1>1, <1>2, <1>3, <1>4, <2>1, <2>2, <2>3 DEF MapInv, Exists, alsaVars
<1>7. ConnectedInv'
  BY <1>2, <1>3, <1>4, Zenon DEF ConnectedInv
<1>8. ClientConsistent'
  <2>1. ASSUME NEW l \in Locals, NEW t \in Streams
        PROVE  mClient'[l] = t <=> Exists(t)' /\ stream'[t].local = l
    <3>1. mClient[l] = t <=> Exists(t) /\ stream[t].local = l
      BY Zenon DEF ClientConsistent
    <3>2. l # None
      BY ReceiveConstants, Zenon
    <3>3. CASE t = s
      BY <1>1, <1>2, <1>3, <1>4, <3>1, <3>2, <3>3, Zenon DEF localVars
    <3>4. CASE t # s
      BY <1>2, <1>4, <3>1, <3>4, Zenon DEF Exists, localVars
    <3> QED
      BY <3>3, <3>4
  <2>2. ASSUME NEW l \in Locals, active'[l]
        PROVE  /\ mClient'[l] # None
               /\ stream'[mClient'[l]].state = "Valid" \/ alsaStream' = mClient'[l]
    <3>1. /\ mClient[l] # None
          /\ stream[mClient[l]].state = "Valid" \/ alsaStream = mClient[l]
      BY <1>2, <2>2, Zenon DEF ClientConsistent, localVars
    <3>2. mClient[l] \in Streams
      BY <1>0, <3>1
    <3>3. Exists(mClient[l])
      BY <3>2, Zenon DEF ClientConsistent
    <3> QED
      BY <1>1, <1>2, <1>4, <3>1, <3>2, <3>3, Zenon DEF localVars, alsaVars
  <2>3. ASSUME NEW t \in Streams
        PROVE  /\ stream'[t].told = stream'[t].lastState
               /\ stream'[t].told # stream'[t].state =>
                    stream'[t].kind = "audio" /\ stream'[t].state = "NoData" /\ stream'[t].waitForData
    <3>1. CASE t = s
      BY <1>3, <1>4, <3>1, Zenon
    <3>2. CASE t # s
      <4>1. stream'[t] = stream[t]
        BY <1>4, <3>2, Zenon
      <4>2. /\ stream[t].told = stream[t].lastState
            /\ stream[t].told # stream[t].state =>
                 stream[t].kind = "audio" /\ stream[t].state = "NoData" /\ stream[t].waitForData
        BY Zenon DEF ClientConsistent
      <4> QED
        BY <4>1, <4>2
    <3> QED
      BY <3>1, <3>2
  <2> QED
    BY <2>1, <2>2, <2>3, Zenon DEF ClientConsistent
<1> QED
  BY <1>5, <1>6, <1>7, <1>8

\* A stream leaves its old local stream and takes a new one only when that is free.
LEMMA ConnectKeeps ==
  ASSUME EngineInv, "callback" \in Assume, NEW l \in Locals \cup {None}, Connect(l)
  PROVE  EngineInv'
<1> USE DEF EngineInv
<1> DEFINE s == apiStream
           old == stream[s].local
           left == [k \in Locals |-> IF k = old THEN None ELSE mClient[k]]
           taken == l # None /\ left[l] = None
<1>0. /\ stream \in [Streams -> StreamObjects] /\ alsaStream \in Streams \cup {None}
      /\ mClient \in [Locals -> Streams \cup {None}] /\ mAvbStreams \in [Ids -> Streams \cup {None}]
      /\ active \in [Locals -> BOOLEAN]
  BY DEF TypeOK
<1>1. /\ apiPc = "connect" /\ s \in Streams /\ Exists(s) /\ stream[s].kind # "crs" /\ alsaStream # s
      /\ apiPc' = "idle" /\ apiStream' = None /\ apiId' = None /\ UNCHANGED <<mAvbStreams, alsaVars, crashed>>
  <2>1. apiPc = "connect" /\ s \in Streams /\ apiId \in Ids
    BY Zenon DEF Connect, CallsInPlace
  <2>2. mAvbStreams[apiId] = s /\ s # None
    BY <2>1, ReceiveConstants, Zenon DEF MapInv
  <2>3. Exists(s) /\ stream[s].kind # "crs"
    BY <2>1, <2>2, Zenon DEF MapInv, ConnectedInv
  <2> QED
    BY <2>1, <2>3, Zenon DEF Connect, CallbackQuiet, Quiet, ApiReturns
<1>2. CASE UNCHANGED <<mClient, active, stream>>
  <2>1. TypeOK' /\ CallsInPlace' /\ ConnectedInv'
    BY <1>1, <1>2, Zenon DEF TypeOK, CallsInPlace, ConnectedInv, alsaVars
  <2>2. MapInv'
    BY <1>1, <1>2, SMT DEF MapInv, Exists, alsaVars
  <2>3. ClientConsistent'
    BY <1>1, <1>2 DEF ClientConsistent, Exists, alsaVars
  <2> QED
    BY <2>1, <2>2, <2>3
<1>3. CASE stream[s].local # l /\ ConnectTo(l)
  <2>1. /\ mClient' = IF taken THEN [left EXCEPT ![l] = s] ELSE left
        /\ active' = [k \in Locals |-> active[k] /\ k # old]
        /\ stream' = [stream EXCEPT ![s].local = IF taken THEN l ELSE None]
    BY <1>3, Zenon DEF ConnectTo
  <2> DEFINE new == IF taken THEN l ELSE None
             d == [stream[s] EXCEPT !.local = new]
  <2>2. new \in Locals \cup {None}
    BY Zenon
  <2>3. \A k \in Locals : mClient'[k] = IF taken /\ k = l THEN s ELSE IF k = old THEN None ELSE mClient[k]
    <3>1. CASE taken
      BY <2>1, <3>1, Zenon
    <3>2. CASE ~taken
      BY <2>1, <3>2, Zenon
    <3> QED
      BY <3>1, <3>2
  <2>4. mClient' \in [Locals -> Streams \cup {None}]
    <3>1. left \in [Locals -> Streams \cup {None}]
      BY <1>0, Zenon
    <3> QED
      BY <1>1, <2>1, <3>1, Zenon
  <2>5. taken => l \in Locals /\ l # old /\ mClient[l] = None
    <3>1. taken => l \in Locals
      BY Zenon
    <3>2. l # old
      BY <1>3, Zenon
    <3> QED
      BY <3>1, <3>2, Zenon
  <2> HIDE DEF taken, left
  <2>6. stream' = [stream EXCEPT ![s] = d]
    BY <1>0, <1>1, <2>1, Zenon
  <2> HIDE DEF new
  <2>7. /\ d \in StreamObjects /\ d.local = new
        /\ d.kind = stream[s].kind /\ d.id = stream[s].id /\ d.told = stream[s].told
        /\ d.lastState = stream[s].lastState /\ d.state = stream[s].state /\ d.waitForData = stream[s].waitForData
    <3>1. stream[s] \in StreamObjects
      BY <1>0, <1>1
    <3> QED
      BY <2>2, <3>1, Zenon DEF StreamObjects
  <2> HIDE DEF d
  <2>8. /\ stream' \in [Streams -> StreamObjects] /\ stream'[s] = d
        /\ \A t \in Streams : t # s => stream'[t] = stream[t]
        /\ \A t \in Streams :
             /\ stream'[t].kind = stream[t].kind /\ stream'[t].id = stream[t].id
             /\ stream'[t].told = stream[t].told /\ stream'[t].lastState = stream[t].lastState
             /\ stream'[t].state = stream[t].state /\ stream'[t].waitForData = stream[t].waitForData
    BY <1>0, <1>1, <2>6, <2>7, Zenon
  <2>9. TypeOK' /\ CallsInPlace'
    <3>1. active' \in [Locals -> BOOLEAN]
      BY <2>1, Zenon
    <3> QED
      BY <1>1, <2>4, <2>8, <3>1, Zenon DEF TypeOK, CallsInPlace, alsaVars
  <2>10. MapInv'
    BY <1>0, <1>1, <2>8, SMT DEF MapInv, Exists, alsaVars
  <2>11. ConnectedInv'
    BY <1>1, <2>8, Zenon DEF ConnectedInv, Exists
  <2>12. ClientConsistent'
    <3>1. ASSUME NEW k \in Locals, NEW t \in Streams
          PROVE  mClient'[k] = t <=> Exists(t)' /\ stream'[t].local = k
      <4>1. mClient[k] = t <=> Exists(t) /\ stream[t].local = k
        BY Zenon DEF ClientConsistent
      <4>2. t # None /\ k # None
        BY ReceiveConstants, Zenon
      <4>3. CASE t = s
        <5>1. mClient'[k] = s <=> taken /\ k = l
          <6>1. k # old => mClient[k] # s
            BY <4>1, <4>3, Zenon
          <6> QED
            BY <2>3, <4>2, <4>3, <6>1, Zenon
        <5>2. stream'[s].local = k <=> taken /\ k = l
          BY <2>7, <2>8, <4>2, Zenon DEF new
        <5> QED
          BY <1>1, <2>8, <4>3, <5>1, <5>2, Zenon DEF Exists
      <4>4. CASE t # s
        <5>1. mClient'[k] = t <=> mClient[k] = t
          <6>1. k = old => mClient[k] = s
            BY <1>1, Zenon DEF ClientConsistent
          <6>2. taken /\ k = l => mClient[k] # t
            BY <2>5, <4>2, Zenon
          <6> QED
            BY <2>3, <4>2, <4>4, <6>1, <6>2, Zenon
        <5> QED
          BY <2>8, <4>1, <4>4, <5>1, Zenon DEF Exists
      <4> QED
        BY <4>3, <4>4
    <3>2. ASSUME NEW k \in Locals, active'[k]
          PROVE  /\ mClient'[k] # None
                 /\ stream'[mClient'[k]].state = "Valid" \/ alsaStream' = mClient'[k]
      <4>1. active[k] /\ k # old
        BY <2>1, <3>2, Zenon
      <4>2. /\ mClient[k] # None
            /\ stream[mClient[k]].state = "Valid" \/ alsaStream = mClient[k]
        BY <4>1, Zenon DEF ClientConsistent
      <4>3. mClient'[k] = mClient[k]
        BY <2>3, <2>5, <4>1, <4>2, Zenon
      <4>4. mClient[k] \in Streams
        BY <1>0, <4>2
      <4> QED
        BY <1>1, <2>8, <4>2, <4>3, <4>4, Zenon DEF alsaVars
    <3>3. ASSUME NEW t \in Streams
          PROVE  /\ stream'[t].told = stream'[t].lastState
                 /\ stream'[t].told # stream'[t].state =>
                      stream'[t].kind = "audio" /\ stream'[t].state = "NoData" /\ stream'[t].waitForData
      BY <2>8 DEF ClientConsistent
    <3> QED
      BY <3>1, <3>2, <3>3, Zenon DEF ClientConsistent
  <2> QED
    BY <2>9, <2>10, <2>11, <2>12
<1> QED
  BY <1>2, <1>3, Zenon DEF Connect

\* The other calls of the API.
LEMMA ApiKeeps ==
  ASSUME EngineInv, "callback" \in Assume, Api
  PROVE  EngineInv'
<1> USE DEF EngineInv
<1>0. /\ stream \in [Streams -> StreamObjects] /\ alsaStream \in Streams \cup {None}
      /\ mClient \in [Locals -> Streams \cup {None}] /\ mAvbStreams \in [Ids -> Streams \cup {None}]
  BY DEF TypeOK
<1>1. CASE \E i \in Ids, d \in BOOLEAN :
             \/ CreateReceiveAudioStream(i, d)
             \/ CreateReceiveVideoStream(i, d)
             \/ CreateReceiveClockReferenceStream(i, d)
  BY <1>1, CreateKeeps
     DEF CreateReceiveAudioStream, CreateReceiveVideoStream, CreateReceiveClockReferenceStream
<1>2. CASE InsertStream
  <2>1. /\ apiPc = "insert" /\ apiPc' = "bind" /\ mAvbStreams' = [mAvbStreams EXCEPT ![apiId] = apiStream]
        /\ UNCHANGED <<stream, localVars, apiStream, apiId, alsaVars, crashed>>
    BY <1>2, Zenon DEF InsertStream
  <2>2. /\ apiStream \in Streams /\ apiId \in Ids /\ Exists(apiStream) /\ mAvbStreams[apiId] = None
        /\ stream[apiStream].id = apiId
    BY <2>1, Zenon DEF CallsInPlace, MapInv
  <2>3. /\ mAvbStreams' \in [Ids -> Streams \cup {None}] /\ mAvbStreams'[apiId] = apiStream
        /\ \A j \in Ids : j # apiId => mAvbStreams'[j] = mAvbStreams[j]
    BY <1>0, <2>1, <2>2, Zenon
  <2>4. TypeOK' /\ CallsInPlace' /\ ConnectedInv'
    BY <2>1, <2>2, <2>3, Zenon DEF TypeOK, CallsInPlace, ConnectedInv, localVars, alsaVars
  <2>5. MapInv'
    <3>1. ASSUME NEW j \in Ids, mAvbStreams'[j] # None
          PROVE  stream[mAvbStreams'[j]].kind # "none" /\ stream[mAvbStreams'[j]].id = j
      <4>1. CASE j = apiId
        BY <2>2, <2>3, <4>1 DEF Exists
      <4>2. CASE j # apiId
        <5>1. mAvbStreams'[j] = mAvbStreams[j] /\ mAvbStreams[j] # None
          BY <2>3, <3>1, <4>2, Zenon
        <5>2. stream[mAvbStreams[j]].kind # "none" /\ stream[mAvbStreams[j]].id = j
          BY <5>1, Zenon DEF MapInv, Exists
        <5> QED
          BY <5>1, <5>2, Zenon
      <4> QED
        BY <4>1, <4>2
    <3>2. ASSUME NEW t \in Streams, stream[t].kind # "none" PROVE mAvbStreams'[stream[t].id] = t
      <4>1. CASE t = apiStream
        BY <2>2, <2>3, <4>1, Zenon
      <4>2. CASE t # apiStream
        <5>1. mAvbStreams[stream[t].id] = t /\ t # None
          BY <3>2, <4>2, ReceiveConstants, Zenon DEF MapInv, Exists
        <5>2. stream[t].id \in Ids
          BY <1>0, Zenon DEF StreamObjects
        <5> QED
          BY <2>2, <2>3, <5>1, <5>2, Zenon
      <4> QED
        BY <4>1, <4>2
    <3> QED
      BY <2>1, <2>3, <3>1, <3>2 DEF MapInv, Exists, alsaVars
  <2>6. ClientConsistent'
    BY <2>1 DEF ClientConsistent, Exists, localVars, alsaVars
  <2> QED
    BY <2>4, <2>5, <2>6
<1>3. CASE BindMcastAddr
  <2>1. /\ apiPc = "bind" /\ apiPc' = "idle" /\ apiStream' = None /\ apiId' = None /\ UNCHANGED <<alsaVars, crashed>>
        /\ apiId \in Ids /\ apiStream \in Streams
    BY <1>3, Zenon DEF BindMcastAddr, ApiReturns, CallsInPlace
  <2>2. mAvbStreams[apiId] = apiStream /\ apiStream # None
    BY <2>1, ReceiveConstants, Zenon DEF MapInv
  <2>3. CASE UNCHANGED <<mAvbStreams, stream, localVars>>
    <3>1. TypeOK' /\ CallsInPlace' /\ ConnectedInv'
      BY <2>1, <2>3, Zenon DEF TypeOK, CallsInPlace, ConnectedInv, localVars, alsaVars
    <3>2. MapInv'
      BY <2>1, <2>3 DEF MapInv, Exists, alsaVars
    <3>3. ClientConsistent'
      BY <2>1, <2>3 DEF ClientConsistent, Exists, localVars, alsaVars
    <3> QED
      BY <3>1, <3>2, <3>3
  <2>4. CASE /\ mAvbStreams' = [mAvbStreams EXCEPT ![apiId] = None]
             /\ CallbackQuiet(mAvbStreams[apiId]) /\ Deleted(mAvbStreams[apiId])
    <3>1. alsaStream # mAvbStreams[apiId]
      BY <2>4, Zenon DEF CallbackQuiet, Quiet
    <3> QED
      BY <2>1, <2>2, <2>4, <3>1, DeletedKeeps
  <2> QED
    BY <1>3, <2>2, <2>3, <2>4, Zenon DEF BindMcastAddr
<1>4. CASE \E i \in Ids : DestroyAvbStream(i)
  <2>1. PICK i \in Ids : DestroyAvbStream(i)
    BY <1>4
  <2>2. /\ mAvbStreams[i] # None /\ alsaStream # mAvbStreams[i] /\ apiPc = "idle"
        /\ mAvbStreams' = [mAvbStreams EXCEPT ![i] = None] /\ Deleted(mAvbStreams[i])
        /\ UNCHANGED <<apiVars, alsaVars, crashed>>
    BY <2>1, Zenon DEF DestroyAvbStream, Mapped, ApiIdle, CallbackQuiet, Quiet
  <2>3. apiPc' = "idle" /\ apiStream' \in Streams \cup {None} /\ apiId' \in Ids \cup {None}
    BY <2>2, Zenon DEF TypeOK, apiVars
  <2> QED
    BY <2>2, <2>3, DeletedKeeps
<1>5. CASE \E i \in Ids : LookUp(i)
  <2>1. PICK i \in Ids : LookUp(i)
    BY <1>5
  <2>2. /\ mAvbStreams[i] # None /\ stream[mAvbStreams[i]].kind # "crs" /\ apiPc = "idle"
        /\ apiPc' = "connect" /\ apiId' = i /\ apiStream' = mAvbStreams[i]
        /\ UNCHANGED <<mAvbStreams, stream, localVars, alsaVars, crashed>>
    BY <2>1, Zenon DEF LookUp, Mapped, ApiIdle
  <2>3. mAvbStreams[i] \in Streams
    BY <1>0, <2>2
  <2>4. TypeOK' /\ CallsInPlace' /\ ConnectedInv'
    BY <2>2, <2>3, Zenon DEF TypeOK, CallsInPlace, ConnectedInv, localVars, alsaVars
  <2>5. MapInv'
    BY <2>2 DEF MapInv, Exists, alsaVars
  <2>6. ClientConsistent'
    BY <2>2 DEF ClientConsistent, Exists, localVars, alsaVars
  <2> QED
    BY <2>4, <2>5, <2>6
<1>6. CASE \E i \in Ids : HookClockDomain(i)
  <2>1. PICK i \in Ids : HookClockDomain(i)
    BY <1>6
  <2> DEFINE s == mAvbStreams[i]
             d == [stream[s] EXCEPT !.lock = "Init"]
  <2>2. s \in Streams
    BY <1>0, <2>1 DEF HookClockDomain, Mapped
  <2>3. /\ stream' = [stream EXCEPT ![s] = d]
        /\ UNCHANGED <<mAvbStreams, localVars, apiVars, alsaVars, crashed>>
    BY <1>0, <2>1, <2>2, Zenon DEF HookClockDomain
  <2> HIDE DEF s
  <2>4. /\ d \in StreamObjects /\ d.kind = stream[s].kind /\ d.id = stream[s].id /\ d.local = stream[s].local
        /\ d.told = stream[s].told /\ d.lastState = stream[s].lastState /\ d.state = stream[s].state
        /\ d.waitForData = stream[s].waitForData
    <3>1. stream[s] \in StreamObjects
      BY <1>0, <2>2
    <3> QED
      BY <3>1, Zenon DEF StreamObjects, LockStates
  <2> QED
    BY <2>2, <2>3, <2>4, ReplacedKeeps
<1>7. CASE \E l \in Locals \cup {None} : Connect(l)
  BY <1>7, ConnectKeeps
<1> QED
  BY <1>1, <1>2, <1>3, <1>4, <1>5, <1>6, <1>7 DEF Api

\* The engine starts with no stream and nobody connected.
LEMMA EngineStarts ==
  ASSUME Init
  PROVE  EngineInv /\ ContinuityInv
<1>1. "none" \in Kinds \cup {"none"} /\ Wildcard \in Ids /\ FALSE \in BOOLEAN
  BY ReceiveConstants, Zenon
<1>2. /\ Nothing \in StreamObjects /\ Nothing.kind = "none" /\ Nothing.local = None
      /\ Nothing.told = Nothing.lastState /\ Nothing.told = Nothing.state /\ Continuous(Nothing)
  BY <1>1, FreshStream, Zenon DEF Nothing
<1>3. /\ stream \in [Streams -> StreamObjects] /\ \A s \in Streams : stream[s] = Nothing
      /\ mAvbStreams \in [Ids -> Streams \cup {None}] /\ \A i \in Ids : mAvbStreams[i] = None
      /\ mClient \in [Locals -> Streams \cup {None}] /\ \A l \in Locals : mClient[l] = None
      /\ active \in [Locals -> BOOLEAN] /\ \A l \in Locals : ~active[l]
  BY <1>2, Zenon DEF Init
<1>4. apiPc = "idle" /\ apiStream = None /\ apiId = None /\ alsaPc = "idle" /\ alsaStream = None /\ crashed \in BOOLEAN
  BY Zenon DEF Init
<1>5. TypeOK /\ CallsInPlace /\ MapInv /\ ConnectedInv
  BY <1>2, <1>3, <1>4, Zenon DEF TypeOK, CallsInPlace, MapInv, ConnectedInv, Exists
<1>6. ClientConsistent
  <2>1. \A s \in Streams : s # None
    BY ReceiveConstants, Zenon
  <2> QED
    BY <1>2, <1>3, <2>1, Zenon DEF ClientConsistent, Exists
<1>7. ContinuityInv
  BY <1>2, <1>3, Zenon DEF ContinuityInv
<1> QED
  BY <1>5, <1>6, <1>7 DEF EngineInv

\* Every step.
LEMMA EngineSteps ==
  ASSUME EngineInv, {"lookup", "callback"} \subseteq Assume, [Next]_vars
  PROVE  EngineInv'
<1>1. CASE Api
  BY <1>1, ApiKeeps
<1>2. CASE Worker
  BY <1>2, WorkerKeeps
<1>3. CASE Alsa
  BY <1>3, AlsaKeeps
<1>4. CASE UNCHANGED vars
  <2>1. /\ UNCHANGED <<mAvbStreams, stream, mClient, active, apiPc, apiStream, apiId, alsaPc, alsaStream, crashed>>
    BY <1>4, Zenon DEF vars, localVars, apiVars, alsaVars
  <2>2. TypeOK' /\ CallsInPlace' /\ ConnectedInv'
    BY <2>1, Zenon DEF EngineInv, TypeOK, CallsInPlace, ConnectedInv
  <2>3. MapInv' /\ ClientConsistent'
    BY <2>1 DEF EngineInv, MapInv, ClientConsistent, Exists
  <2> QED
    BY <2>2, <2>3 DEF EngineInv
<1> QED
  BY <1>1, <1>2, <1>3, <1>4 DEF Next

\* Continuity does not depend on who is connected, on what the client was told, or on the id.
LEMMA ContinuousSame ==
  ASSUME NEW r, NEW d, Continuous(r), d.internal = r.internal, d.count = r.count, d.run = r.run, d.kind = r.kind,
         d.state = r.state \/ d.state = "NoData", d.lock = r.lock \/ d.lock = "Init"
  PROVE  Continuous(d)
  BY Zenon DEF Continuous

\* Whatever happens to a stream, its countdown stays behind the packets in a row.
LEMMA ContinuitySteps ==
  ASSUME EngineInv, ContinuityInv, {"lookup", "callback"} \subseteq Assume, Mode # "never", [Next]_vars
  PROVE  ContinuityInv'
<1> USE DEF EngineInv
<1>0. stream \in [Streams -> StreamObjects]
  BY DEF TypeOK
<1>a. ASSUME NEW s \in Streams, NEW d, Continuous(d), stream' = [stream EXCEPT ![s] = d]
      PROVE  ContinuityInv'
  BY <1>0, <1>a, Zenon DEF ContinuityInv
<1>b. ASSUME UNCHANGED stream
      PROVE  ContinuityInv'
  BY <1>b DEF ContinuityInv
<1>c. ASSUME NEW i \in Ids, mAvbStreams[i] # None, Deleted(mAvbStreams[i])
      PROVE  ContinuityInv'
  <2>1. "none" \in Kinds \cup {"none"} /\ Wildcard \in Ids /\ FALSE \in BOOLEAN
    BY ReceiveConstants, Zenon
  <2>2. Continuous(Nothing)
    BY <2>1, FreshStream, Zenon DEF Nothing
  <2>3. mAvbStreams[i] \in Streams
    BY <1>c DEF TypeOK
  <2>4. stream' = [stream EXCEPT ![mAvbStreams[i]] = Nothing]
    BY <1>c, Zenon DEF Deleted
  <2> QED
    BY <1>a, <2>2, <2>3, <2>4
<1>1. ASSUME NEW k \in Kinds, NEW i \in Ids, NEW b \in BOOLEAN, Create(k, i, b)
      PROVE  ContinuityInv'
  <2>1. PICK s \in Streams : stream' = [stream EXCEPT ![s] = Fresh(k, i, b)]
    BY <1>1, Zenon DEF Create
  <2>2. Continuous(Fresh(k, i, b))
    BY FreshStream
  <2> QED
    BY <1>a, <2>1, <2>2
<1>2. CASE \E i \in Ids, d \in BOOLEAN :
             \/ CreateReceiveAudioStream(i, d)
             \/ CreateReceiveVideoStream(i, d)
             \/ CreateReceiveClockReferenceStream(i, d)
  BY <1>1, <1>2 DEF CreateReceiveAudioStream, CreateReceiveVideoStream, CreateReceiveClockReferenceStream
<1>3. CASE InsertStream \/ (\E i \in Ids : LookUp(i)) \/ (\E l \in Locals : Underrun(l)) \/ SignalClient \/ UNCHANGED vars
  BY <1>3, <1>b, Zenon DEF InsertStream, LookUp, Underrun, SignalClient, vars
<1>4. CASE BindMcastAddr
  <2>1. apiId \in Ids
    BY <1>4, Zenon DEF BindMcastAddr, CallsInPlace
  <2>2. mAvbStreams[apiId] # None
    <3>1. apiPc = "bind"
      BY <1>4, Zenon DEF BindMcastAddr
    <3>2. mAvbStreams[apiId] = apiStream /\ apiStream \in Streams
      BY <3>1, Zenon DEF CallsInPlace, MapInv
    <3> QED
      BY <3>2, ReceiveConstants, Zenon
  <2> QED
    BY <1>4, <1>b, <1>c, <2>1, <2>2, Zenon DEF BindMcastAddr
<1>5. CASE \E i \in Ids : DestroyAvbStream(i)
  BY <1>5, <1>c, Zenon DEF DestroyAvbStream, Mapped
<1>6. CASE \E i \in Ids : HookClockDomain(i)
  <2>1. PICK i \in Ids : HookClockDomain(i)
    BY <1>6
  <2> DEFINE s == mAvbStreams[i]
             d == [stream[s] EXCEPT !.lock = "Init"]
  <2>2. s \in Streams
    BY <2>1 DEF HookClockDomain, Mapped, TypeOK
  <2>3. stream' = [stream EXCEPT ![s] = d]
    BY <1>0, <2>1, <2>2, Zenon DEF HookClockDomain
  <2> HIDE DEF s
  <2>4. Continuous(stream[s]) /\ stream[s] \in StreamObjects
    BY <1>0, <2>2, Zenon DEF ContinuityInv
  <2>5. /\ d.internal = stream[s].internal /\ d.count = stream[s].count /\ d.run = stream[s].run
        /\ d.kind = stream[s].kind /\ d.state = stream[s].state /\ d.lock = "Init"
    BY <2>4, Zenon DEF StreamObjects
  <2>6. Continuous(d)
    BY <2>4, <2>5, ContinuousSame, Zenon
  <2> QED
    BY <1>a, <2>2, <2>3, <2>6
<1>7. CASE \E l \in Locals \cup {None} : Connect(l)
  <2>1. apiStream \in Streams
    BY <1>7, Zenon DEF Connect, CallsInPlace
  <2>2. CASE UNCHANGED stream
    BY <1>b, <2>2
  <2>3. CASE \E n : stream' = [stream EXCEPT ![apiStream].local = n]
    <3>1. PICK n : stream' = [stream EXCEPT ![apiStream].local = n]
      BY <2>3
    <3> DEFINE d == [stream[apiStream] EXCEPT !.local = n]
    <3>2. Continuous(stream[apiStream]) /\ stream[apiStream] \in StreamObjects
      BY <1>0, <2>1, Zenon DEF ContinuityInv
    <3>3. /\ d.internal = stream[apiStream].internal /\ d.count = stream[apiStream].count
          /\ d.run = stream[apiStream].run /\ d.kind = stream[apiStream].kind
          /\ d.state = stream[apiStream].state /\ d.lock = stream[apiStream].lock
      BY <3>2, Zenon DEF StreamObjects
    <3>4. stream' = [stream EXCEPT ![apiStream] = d]
      BY <1>0, <2>1, <3>1, Zenon
    <3>5. Continuous(d)
      BY <3>2, <3>3, ContinuousSame, Zenon
    <3> QED
      BY <1>a, <2>1, <3>4, <3>5
  <2> QED
    BY <1>7, <2>2, <2>3, Zenon DEF Connect, ConnectTo
<1>8. CASE Worker
  <2>1. PICK s \in Streams, i \in Ids, d \in StreamObjects : Dispatched(s, i, d)
    BY <1>8, WorkerDispatches
  <2>2. Continuous(stream[s])
    BY DEF ContinuityInv
  <2>3. Continuous(d) /\ stream' = [stream EXCEPT ![s] = d]
    BY <2>1, <2>2, Zenon DEF Dispatched
  <2> QED
    BY <1>a, <2>3
<1>9. CASE SignalState
  <2>1. alsaPc = "state" /\ alsaStream \in Streams
    BY <1>9, Zenon DEF SignalState, CallsInPlace
  <2> DEFINE r == stream[alsaStream]
             d == [r EXCEPT !.state = "NoData", !.waitForData = TRUE]
  <2>2. CASE UNCHANGED stream
    BY <1>b, <2>2
  <2>3. CASE stream' = [stream EXCEPT ![alsaStream].state = "NoData", ![alsaStream].waitForData = TRUE]
    <3>1. Continuous(r) /\ r \in StreamObjects
      BY <1>0, <2>1, Zenon DEF ContinuityInv
    <3>2. /\ d.internal = r.internal /\ d.count = r.count /\ d.run = r.run
          /\ d.kind = r.kind /\ d.state = "NoData" /\ d.lock = r.lock
      BY <3>1, Zenon DEF StreamObjects
    <3>3. stream' = [stream EXCEPT ![alsaStream] = d]
      BY <1>0, <2>1, <2>3, Zenon
    <3>4. Continuous(d)
      BY <3>1, <3>2, ContinuousSame, Zenon
    <3> QED
      BY <1>a, <2>1, <3>3, <3>4
  <2> QED
    BY <1>9, <2>2, <2>3, Zenon DEF SignalState
<1> QED
  BY <1>2, <1>3, <1>4, <1>5, <1>6, <1>7, <1>8, <1>9 DEF Next, Api, Alsa

----------------------------------------------------------------------------
(* The theorems                                                            *)

\* If no call is interrupted between its look at the map and its use of what it found, and no
\* stream goes while the audio thread reports an underrun, local and network streams agree on who
\* is connected, and a client is active only while its stream is valid.
THEOREM ClientIsConsistent ==
  ASSUME {"lookup", "callback"} \subseteq Assume
  PROVE  Spec => []ClientConsistent
<1>1. Init => EngineInv
  BY EngineStarts
<1>2. EngineInv /\ [Next]_vars => EngineInv'
  BY EngineSteps
<1>3. EngineInv => ClientConsistent
  BY DEF EngineInv
<1> QED
  BY <1>1, <1>2, <1>3, PTL DEF Spec

\* With validation switched on, a stream is only reported valid after Threshold packets in a row,
\* and a clock domain is only locked to a stream that is received in order.
THEOREM ValidIsContinuous ==
  ASSUME {"lookup", "callback"} \subseteq Assume, Mode # "never"
  PROVE  Spec => []ValidMeansContinuous
<1>1. Init => EngineInv /\ ContinuityInv
  BY EngineStarts
<1>2. EngineInv /\ ContinuityInv /\ [Next]_vars => EngineInv' /\ ContinuityInv'
  BY EngineSteps, ContinuitySteps
<1>3. ContinuityInv => ValidMeansContinuous
  BY Zenon DEF ContinuityInv, ValidMeansContinuous, Continuous
<1> QED
  BY <1>1, <1>2, <1>3, PTL DEF Spec

----------------------------------------------------------------------------
(* ReceiveWorker                                                           *)

AllBuffers == (1 .. RxMaxPools) \X (1 .. RxPoolSize)

ReceiverTypes ==
  /\ rxCall \in {"idle", "thread", "started", "shutDown", "join", "disable", "free", "stopped", "failed", "deleted"}
  /\ rxThen \in {"stopped", "failed", "deleted"} /\ rxPool \in 0 .. RxMaxPools /\ rxPools \in 0 .. RxMaxPools
  /\ rxWork \in {"none", "before", "check", "loop", "link", "cycle", "drain", "dispatch", "ended"}
  /\ rxDog \in {"none", "off", "on"} /\ rxBurst \in 0 .. RxBurst
  /\ rxRing \subseteq AllBuffers /\ rxFilled \in Seq(AllBuffers) /\ rxPacket \in AllBuffers \cup {NoPacket}

ReceiverFlags ==
  /\ rxQueue \in BOOLEAN /\ rxFilter \in BOOLEAN /\ rxen \in BOOLEAN
  /\ recover \in BOOLEAN /\ rxEnd \in BOOLEAN /\ link \in BOOLEAN /\ again \in BOOLEAN

\* unless the device was initialised under it, the worker only exists from the end of start() to the
\* end of stop(); its watchdog is registered only while it is in its loop
WorkerInPlace ==
  /\ IsRunning /\ ~again => rxCall \in {"started", "shutDown", "join"}
  /\ rxWork \in {"none", "before", "check", "ended"} => rxDog # "on"

\* between the end of start() and the end of stop() the device has buffers of the pool only; until
\* the worker runs, all of them; while it runs, all but the one in its hands
PoolWithDevice ==
  ~again =>
    /\ rxCall \in {"thread", "started", "shutDown", "join"} /\ (rxCall = "thread" \/ IsRunning) =>
         rxPool # 0 /\ mPacketList = LiveBuffers /\ OfDevice \subseteq LiveBuffers
    /\ rxCall = "thread" => LiveBuffers \subseteq OfDevice
    /\ IsRunning => /\ rxPacket \in LiveBuffers \cup {NoPacket}
                    /\ LiveBuffers \subseteq OfDevice \cup {rxPacket}

\* the filter is set only while there is a pool, and the device has no buffers of another one;
\* when start() is called the device has none at all
FilterWithPool ==
  /\ rxFilter => rxPool # 0
  /\ rxFilter /\ ~again => OfDevice \subseteq LiveBuffers
  /\ rxCall = "free" => ~rxFilter
  /\ rxCall = "idle" /\ ~again => OfDevice = {}

RxInv == ReceiverTypes /\ ReceiverFlags /\ WorkerInPlace /\ PoolWithDevice /\ FilterWithPool

----------------------------------------------------------------------------
(* Sequences of buffers as sets                                            *)

\* A packet that arrives is appended to the filled buffers.
LEMMA ToSetAppend ==
  ASSUME NEW S, NEW s \in Seq(S), NEW x \in S
  PROVE  Append(s, x) \in Seq(S) /\ ToSet(Append(s, x)) = ToSet(s) \cup {x}
<1>1. Append(s, x) \in Seq(S) /\ DOMAIN Append(s, x) = 1 .. Len(s) + 1 /\ Len(s) \in Nat
  BY SMT
<1>2. \A i \in 1 .. Len(s) : Append(s, x)[i] = s[i]
  BY SMT
<1>3. Append(s, x)[Len(s) + 1] = x
  BY SMT
<1>4. DOMAIN s = 1 .. Len(s)
  BY SMT
<1> QED
  BY <1>1, <1>2, <1>3, <1>4, SMT DEF ToSet

\* The worker takes the oldest filled buffer.
LEMMA ToSetTail ==
  ASSUME NEW S, NEW s \in Seq(S), s # <<>>
  PROVE  Head(s) \in S /\ Tail(s) \in Seq(S) /\ ToSet(s) = {Head(s)} \cup ToSet(Tail(s))
<1>1. Head(s) \in S /\ Head(s) = s[1] /\ Tail(s) \in Seq(S) /\ Len(s) \in Nat \ {0}
  BY SMT
<1>2. DOMAIN s = 1 .. Len(s) /\ DOMAIN Tail(s) = 1 .. Len(s) - 1
  BY <1>1, SMT
<1>3. \A i \in 1 .. Len(s) - 1 : Tail(s)[i] = s[i + 1]
  BY <1>1, SMT
<1>4. \A i \in 2 .. Len(s) : i - 1 \in 1 .. Len(s) - 1 /\ s[i] = Tail(s)[i - 1]
  BY <1>1, <1>3, SMT
<1>5. ASSUME NEW x \in ToSet(s)
      PROVE  x \in {Head(s)} \cup ToSet(Tail(s))
  <2>1. PICK i \in 1 .. Len(s) : x = s[i]
    BY <1>2, <1>5 DEF ToSet
  <2>2. CASE i = 1
    BY <1>1, <2>1, <2>2
  <2>3. CASE i # 1
    <3>1. i \in 2 .. Len(s)
      BY <1>1, <2>1, <2>3, SMT
    <3> QED
      BY <1>2, <1>4, <2>1, <3>1 DEF ToSet
  <2> QED
    BY <2>2, <2>3
<1>6. {Head(s)} \cup ToSet(Tail(s)) \subseteq ToSet(s)
  BY <1>1, <1>2, <1>3, SMT DEF ToSet
<1> QED
  BY <1>1, <1>5, <1>6

\* A device that has just been set up has no buffer.
LEMMA ToSetEmpty == ToSet(<<>>) = {}
  BY SMT DEF ToSet

\* The buffers of one pool are among all buffers.
LEMMA LiveBuffersType ==
  ASSUME rxPool \in 0 .. RxMaxPools
  PROVE  LiveBuffers \subseteq AllBuffers /\ NoPacket \notin LiveBuffers
  BY ReceiverConstants, SMT DEF LiveBuffers, Buffers, AllBuffers

----------------------------------------------------------------------------
(* Every step preserves the invariant                                      *)

\* The flags are Booleans after every step of start(), stop(), the worker and the device.
LEMMA FlagsStep ==
  ASSUME ReceiverFlags, [RxNext]_rxVars
  PROVE  ReceiverFlags'
<1> USE DEF ReceiverFlags, RxOwnerOnly, RxPoolKept, RxWorkerOnly, RxDeviceKept, RxCall, RxWork, rxDevice, rxOwner,
        rxLocals, ResetWatchdog, LeaveDrain, IsRunning
<1>1. CASE \E k \in 0 .. RxPoolSize, f \in BOOLEAN : StartIgbReceiveEngine(k, f)
  BY <1>1 DEF StartIgbReceiveEngine
<1>2. CASE StartFindsPool
  BY <1>2 DEF StartFindsPool
<1>3. CASE StopEngine
  BY <1>3 DEF StopEngine
<1>4. CASE DeleteEngine
  BY <1>4 DEF DeleteEngine
<1>5. CASE OtherStartFails
  BY <1>5 DEF OtherStartFails
<1>6. CASE ResumeDevice
  BY <1>6 DEF ResumeDevice
<1>7. CASE StartReceiveThread
  BY <1>7 DEF StartReceiveThread
<1>8. CASE StartThreadFails
  BY <1>8 DEF StartThreadFails
<1>9. CASE ShutDownReceiver
  BY <1>9 DEF ShutDownReceiver
<1>10. CASE JoinReceiver
  BY <1>10 DEF JoinReceiver
<1>11. CASE DisableQueue
  BY <1>11 DEF DisableQueue
<1>12. CASE FreePool
  BY <1>12 DEF FreePool
<1>13. CASE ReceiverBeforeRun
  BY <1>13 DEF ReceiverBeforeRun
<1>14. CASE ReceiverCheckState
  BY <1>14 DEF ReceiverCheckState
<1>15. CASE ReceiverLoop
  BY <1>15 DEF ReceiverLoop
<1>16. CASE AwaitLink
  BY <1>16 DEF AwaitLink
<1>17. CASE IdleCycle
  BY <1>17 DEF IdleCycle
<1>18. CASE ReceiveCycle
  BY <1>18 DEF ReceiveCycle
<1>19. CASE RefreshBuffer
  BY <1>19 DEF RefreshBuffer
<1>20. CASE TakePacket
  BY <1>20 DEF TakePacket
<1>21. CASE NothingArrived
  BY <1>21 DEF NothingArrived
<1>22. CASE DispatchReceived
  BY <1>22 DEF DispatchReceived
<1>23. CASE DeviceReceives
  BY <1>23 DEF DeviceReceives
<1>24. CASE LinkChanges
  BY <1>24 DEF LinkChanges
<1>25. CASE RxenLost
  BY <1>25 DEF RxenLost
<1>26. CASE EmergencyShutdown
  BY <1>26 DEF EmergencyShutdown
<1>27. CASE UNCHANGED rxVars
  BY <1>27 DEF rxVars
<1> QED
  BY <1>1, <1>2, <1>3, <1>4, <1>5, <1>6, <1>7, <1>8, <1>9, <1>10, <1>11, <1>12, <1>13, <1>14, <1>15, <1>16, <1>17, <1>18, <1>19, <1>20, <1>21, <1>22, <1>23, <1>24, <1>25, <1>26, <1>27 DEF RxNext, RxReturns, RxEngine, RxWorker

\* The buffers stay where they may be: no action moves one of a freed pool into the device's or the
\* worker's hands, or loses one.
LEMMA BuffersStep ==
  ASSUME RxInv, [RxNext]_rxVars
  PROVE  ReceiverTypes' /\ WorkerInPlace' /\ PoolWithDevice' /\ FilterWithPool'
<1> USE DEF RxInv, ReceiverTypes, WorkerInPlace, PoolWithDevice, FilterWithPool, IsRunning, OfDevice, LiveBuffers, Buffers,
        RxOwnerOnly, RxPoolKept, RxWorkerOnly, RxDeviceKept, RxCall, RxWork, rxDevice, rxOwner, rxLocals
<1>1. CASE \E k \in 0 .. RxPoolSize, f \in BOOLEAN : StartIgbReceiveEngine(k, f)
  <2>1. PICK k \in 0 .. RxPoolSize, f \in BOOLEAN : StartIgbReceiveEngine(k, f)
    BY <1>1
  <2> DEFINE p == rxPools + 1
             handed == {p} \X (1 .. k)
  <2>2. p \in 1 .. RxMaxPools /\ handed \subseteq AllBuffers
    <3>1. p \in 1 .. RxMaxPools
      BY <2>1, ReceiverConstants, SMT DEF StartIgbReceiveEngine
    <3>2. 1 .. k \subseteq 1 .. RxPoolSize
      BY <2>1, ReceiverConstants, SMT
    <3> QED
      BY <3>1, <3>2 DEF AllBuffers
  <2>3. /\ rxPool' = p /\ rxPools' = p /\ rxRing' = rxRing \cup handed /\ mPacketList' = handed
        /\ UNCHANGED <<rxFilled, rxWork, rxDog, rxPacket, rxBurst, again>> /\ rxThen' = "failed"
        /\ rxCall = "idle" /\ rxCall' \in {"thread", "disable"}
    BY <2>1, Zenon DEF StartIgbReceiveEngine
  <2>4. (rxCall' = "thread" => k = RxPoolSize) /\ (rxFilter' => k = RxPoolSize)
    BY <2>1, Zenon DEF StartIgbReceiveEngine
  <2>5. LiveBuffers' = Buffers(p) /\ (k = RxPoolSize => handed = Buffers(p))
    BY <2>2, <2>3, SMT
  <2>6. handed \subseteq Buffers(p)
    BY <2>1, ReceiverConstants, SMT
  <2>7. ~again => ~IsRunning /\ ~IsRunning' /\ OfDevice' = handed
    <3>1. ~again => ~IsRunning /\ OfDevice = {}
      BY <2>3, SMT
    <3> QED
      BY <2>3, <3>1, Zenon
  <2>8. ReceiverTypes'
    BY <2>2, <2>3, SMT
  <2>9. WorkerInPlace'
    BY <2>3, <2>7, SMT
  <2>10. PoolWithDevice' /\ FilterWithPool'
    <3> HIDE DEF handed, p, LiveBuffers, OfDevice, IsRunning, Buffers
    <3>1. p # 0
      BY <2>2, SMT
    <3> QED
      BY <2>3, <2>4, <2>5, <2>6, <2>7, <3>1, Zenon
  <2> QED
    BY <2>8, <2>9, <2>10
<1>2. CASE StartFindsPool
  BY <1>2, SMT DEF StartFindsPool
<1>3. CASE StopEngine
  BY <1>3, SMT DEF StopEngine
<1>4. CASE DeleteEngine
  BY <1>4, SMT DEF DeleteEngine
<1>5. CASE OtherStartFails
  BY <1>5, SMT DEF OtherStartFails
<1>6. CASE ResumeDevice
  <2>1. /\ OfDevice' = {} /\ (again' <=> IsRunning) /\ rxCall' = "idle"
        /\ rxRing' = {} /\ rxFilled' = <<>>
    BY <1>6, ToSetEmpty, Zenon DEF ResumeDevice
  <2>2. /\ UNCHANGED <<rxThen, rxPool, rxPools, mPacketList, rxWork, rxPacket, rxDog, rxBurst, rxFilter>>
        /\ (IsRunning' <=> IsRunning)
    BY <1>6, Zenon DEF ResumeDevice
  <2>3. ReceiverTypes'
    BY <2>1, <2>2, SMT
  <2>4. WorkerInPlace' /\ PoolWithDevice' /\ FilterWithPool'
    BY <2>1, <2>2, Zenon
  <2> QED
    BY <2>3, <2>4
<1>7. CASE StartReceiveThread
  BY <1>7, SMT DEF StartReceiveThread
<1>8. CASE StartThreadFails
  BY <1>8, SMT DEF StartThreadFails
<1>9. CASE ShutDownReceiver
  BY <1>9, SMT DEF ShutDownReceiver
<1>10. CASE JoinReceiver
  BY <1>10, SMT DEF JoinReceiver
<1>11. CASE DisableQueue
  BY <1>11, SMT DEF DisableQueue
<1>12. CASE FreePool
  BY <1>12, ReceiverConstants, SMT DEF FreePool
<1>13. CASE ReceiverBeforeRun
  BY <1>13, SMT DEF ReceiverBeforeRun
<1>14. CASE ReceiverCheckState
  BY <1>14, SMT DEF ReceiverCheckState
<1>15. CASE ReceiverLoop
  BY <1>15, SMT DEF ReceiverLoop
<1>16. CASE AwaitLink
  BY <1>16, SMT DEF AwaitLink
<1>17. CASE IdleCycle
  BY <1>17, SMT DEF IdleCycle, ResetWatchdog
<1>18. CASE ReceiveCycle
  BY <1>18, ReceiverConstants, SMT DEF ReceiveCycle
<1>19. CASE RefreshBuffer
  <2>1. CASE rxPacket' = NoPacket
    <3>1. /\ rxPacket # NoPacket /\ rxWork = "drain" /\ rxRing' = rxRing \cup {rxPacket}
          /\ UNCHANGED <<rxWork, rxDog, rxFilled, rxPool, mPacketList, rxCall, rxFilter, again>>
      BY <1>19, <2>1, Zenon DEF RefreshBuffer, LeaveDrain, RxWorkerOnly, rxOwner
    <3>2. IsRunning /\ IsRunning' /\ (~again => rxPacket \in LiveBuffers) /\ rxPacket \in AllBuffers
      BY <3>1, Zenon
    <3>3. OfDevice' = OfDevice \cup {rxPacket} /\ LiveBuffers' = LiveBuffers
      BY <3>1
    <3>4. ReceiverTypes'
      BY <1>19, <2>1, <3>1, <3>2, SMT DEF RefreshBuffer
    <3>5. WorkerInPlace' /\ PoolWithDevice' /\ FilterWithPool'
      <4> HIDE DEF LiveBuffers, OfDevice, IsRunning, Buffers
      <4>1. WorkerInPlace' /\ FilterWithPool'
        BY <3>1, <3>2, <3>3, SMT
      <4>2. PoolWithDevice'
        BY <2>1, <3>1, <3>2, <3>3, SMT
      <4> QED
        BY <4>1, <4>2
    <3> QED
      BY <3>4, <3>5
  <2>2. CASE LeaveDrain /\ UNCHANGED <<rxRing, rxPacket>>
    BY <1>19, <2>2, SMT DEF RefreshBuffer, LeaveDrain
  <2> QED
    BY <1>19, <2>1, <2>2 DEF RefreshBuffer
<1>20. CASE TakePacket
  <2>1. /\ Head(rxFilled) \in AllBuffers /\ Tail(rxFilled) \in Seq(AllBuffers)
        /\ ToSet(rxFilled) = {Head(rxFilled)} \cup ToSet(Tail(rxFilled))
    BY <1>20, ToSetTail DEF TakePacket
  <2>2. NoPacket \notin LiveBuffers
    BY LiveBuffersType
  <2> QED
    BY <1>20, <2>1, <2>2, SMT DEF TakePacket
<1>21. CASE NothingArrived
  BY <1>21, SMT DEF NothingArrived, LeaveDrain
<1>22. CASE DispatchReceived
  BY <1>22, SMT DEF DispatchReceived, ResetWatchdog
<1>23. CASE DeviceReceives
  <2>1. PICK b \in rxRing : rxRing' = rxRing \ {b} /\ rxFilled' = Append(rxFilled, b)
    BY <1>23 DEF DeviceReceives
  <2>2. rxFilled' \in Seq(AllBuffers) /\ ToSet(rxFilled') = ToSet(rxFilled) \cup {b}
    BY <2>1, ToSetAppend
  <2>3. OfDevice' = OfDevice
    BY <2>1, <2>2
  <2>4. rxBurst' \in 0 .. RxBurst
    BY <1>23, ReceiverConstants, SMT DEF DeviceReceives
  <2> QED
    BY <1>23, <2>1, <2>2, <2>3, <2>4, SMT DEF DeviceReceives, Receiving
<1>24. CASE LinkChanges
  BY <1>24, SMT DEF LinkChanges
<1>25. CASE RxenLost
  BY <1>25, SMT DEF RxenLost
<1>26. CASE EmergencyShutdown
  BY <1>26, SMT DEF EmergencyShutdown
<1>27. CASE UNCHANGED rxVars
  BY <1>27, SMT DEF rxVars
<1> QED
  BY <1>1, <1>2, <1>3, <1>4, <1>5, <1>6, <1>7, <1>8, <1>9, <1>10, <1>11, <1>12, <1>13, <1>14, <1>15, <1>16, <1>17, <1>18, <1>19, <1>20, <1>21, <1>22, <1>23, <1>24, <1>25, <1>26, <1>27 DEF RxNext, RxReturns, RxEngine, RxWorker

----------------------------------------------------------------------------
(* The invariant                                                           *)

\* Before the first start() the device has no buffer, there is no pool and no worker.
LEMMA ReceiverStarts ==
  ASSUME RxInit
  PROVE  RxInv
<1>1. ReceiverTypes
  BY ReceiverConstants, SMT DEF RxInit, ReceiverTypes
<1>2. ReceiverFlags
  BY DEF RxInit, ReceiverFlags
<1>3. OfDevice = {} /\ LiveBuffers = {} /\ ~IsRunning
  BY ToSetEmpty DEF RxInit, OfDevice, LiveBuffers, IsRunning
<1>4. WorkerInPlace /\ PoolWithDevice /\ FilterWithPool
  BY <1>3, SMT DEF RxInit, WorkerInPlace, PoolWithDevice, FilterWithPool
<1> QED
  BY <1>1, <1>2, <1>4 DEF RxInv

\* Whenever the device may receive, and whenever the worker runs, the buffers are where they
\* may be.
LEMMA BuffersFromInvariant ==
  ASSUME RxInv
  PROVE  ReceiveBuffersKept
<1>1. ReceiverTypes /\ ReceiverFlags /\ WorkerInPlace /\ PoolWithDevice /\ FilterWithPool
  BY Zenon DEF RxInv
<1>2. RxTypeOK
  <2>1. {rxQueue, rxFilter, rxen, recover, rxEnd, link, again} \subseteq BOOLEAN
    BY <1>1, Zenon DEF ReceiverFlags
  <2> QED
    BY <1>1, <2>1, Zenon DEF ReceiverTypes, RxTypeOK
<1>3. Receiving /\ ~again => OfDevice \subseteq LiveBuffers
  BY <1>1, Zenon DEF Receiving, FilterWithPool
<1>4. IsRunning /\ ~again =>
        /\ rxPacket \in LiveBuffers \cup {NoPacket} /\ rxPool # 0
        /\ LiveBuffers \subseteq OfDevice \cup {rxPacket} /\ mPacketList = LiveBuffers
  BY <1>1, Zenon DEF WorkerInPlace, PoolWithDevice
<1>5. ~IsRunning => rxDog # "on"
  BY <1>1, Zenon DEF IsRunning, WorkerInPlace
<1> QED
  BY <1>2, <1>3, <1>4, <1>5, Zenon DEF ReceiveBuffersKept

\* The device never writes to a buffer of a freed pool and the worker never reads one, and no
\* buffer of the pool is lost, in spite of buffers left in the ring over stop(), of refreshes and
\* starts that fail and of a worker that is joined from any point of its loop, until a resume finds
\* the worker running; and a worker that has ended is never watched.
THEOREM BuffersAreKept == RxSpec => []ReceiveBuffersKept
<1>1. RxInit => RxInv
  BY ReceiverStarts
<1>2. RxInv /\ [RxNext]_rxVars => RxInv'
  <2> SUFFICES ASSUME RxInv, [RxNext]_rxVars PROVE RxInv'
    OBVIOUS
  <2>1. ReceiverFlags'
    BY FlagsStep DEF RxInv
  <2>2. ReceiverTypes' /\ WorkerInPlace' /\ PoolWithDevice' /\ FilterWithPool'
    BY BuffersStep
  <2> QED
    BY <2>1, <2>2 DEF RxInv
<1>3. RxInv => ReceiveBuffersKept
  BY BuffersFromInvariant
<1> QED
  BY <1>1, <1>2, <1>3, PTL DEF RxSpec
=============================================================================
