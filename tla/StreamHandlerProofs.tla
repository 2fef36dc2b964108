------------------------ MODULE StreamHandlerProofs ------------------------
(***************************************************************************)
(* The API of the stream handler, for any number of stream ids, local ids  *)
(* and clock domains: connections are mutual, one thread at a time is      *)
(* inside the API, and the engines follow the state of the handler.        *)
(***************************************************************************)
EXTENDS StreamHandler, FiniteSetTheorems, NaturalsInduction, WellFoundedInduction, TLAPS

USE HandlerConstants

\* the tables of the handler have their types
TablesOK ==
  /\ net \in [Slots -> NetRecords \cup {Nil}]
  /\ audio \in [LocalIds -> AudioRecords \cup {Nil}] /\ video \in [LocalIds -> VideoRecords \cup {Nil}]
  /\ nextLocal \in 0 .. MaxLocal /\ domains \subseteq 1 .. MaxDomain

\* the four parts of ConnectionsMatch
OneKind == AudioInUse \cap VideoInUse = {}
LocalOf(s) == IF net[s].kind = "audio" THEN audio[net[s].local] ELSE video[net[s].local]
LocalPointsBack(s) == LocalOf(s) # Nil /\ LocalOf(s).client = s /\ LocalOf(s).dir = s[1] /\ net[s].kind # "crs"
NetworkSide == \A s \in Slots : net[s] # Nil /\ net[s].local # 0 => LocalPointsBack(s)
NetPointsBack(s, i) == net[s] # Nil /\ net[s].local = i
AudioSide == \A i \in LocalIds : audio[i] # Nil /\ audio[i].client # Nil => NetPointsBack(audio[i].client, i)
VideoSide == \A i \in LocalIds : video[i] # Nil /\ video[i].client # Nil => NetPointsBack(video[i].client, i)

TablesInv == TablesOK /\ OneKind /\ NetworkSide /\ AudioSide /\ VideoSide

\* an engine is as it was, or has been created as the state of the handler asks for
EnginesCreated ==
  \E e \in Engines : engine' = engine \/ engine' = Created(e)

\* The parts are ConnectionsMatch, once the tables have their types.
LEMMA FourParts == TablesOK => (TablesInv <=> ConnectionsMatch)
<1> SUFFICES ASSUME TablesOK PROVE TablesInv <=> ConnectionsMatch
  OBVIOUS
<1>1. NetworkSide <=> \A s \in NetworkStreams : net[s].local # 0 =>
        LET l == IF net[s].kind = "audio" THEN audio[net[s].local] ELSE video[net[s].local] IN
        l # Nil /\ l.client = s /\ l.dir = s[1] /\ net[s].kind # "crs"
  BY DEF NetworkSide, LocalPointsBack, LocalOf, NetworkStreams
<1>2. AudioSide <=> \A i \in AudioInUse : audio[i].client # Nil => net[audio[i].client] # Nil /\ net[audio[i].client].local = i
  BY Zenon DEF AudioSide, NetPointsBack, AudioInUse
<1>3. VideoSide <=> \A i \in VideoInUse : video[i].client # Nil => net[video[i].client] # Nil /\ net[video[i].client].local = i
  BY Zenon DEF VideoSide, NetPointsBack, VideoInUse
<1> QED
  BY <1>1, <1>2, <1>3, Zenon DEF TablesInv, ConnectionsMatch, OneKind

----------------------------------------------------------------------------
(* Numbers                                                                 *)

\* A nonempty set of natural numbers has a least element, which Min finds.
LEMMA MinIsLeast ==
  ASSUME NEW T \in SUBSET Nat, T # {}
  PROVE  Min(T) \in T
<1> DEFINE R == {ss \in Nat \X Nat : ss[1] < ss[2]}
<1>1. IsWellFoundedOn(R, Nat)
  BY NatLessThanWellFounded, Zenon DEF OpToRel
<1>2. PICK x \in T : \A y \in T : ~(<<y, x>> \in R)
  <2> HIDE DEF R
  <2> QED  BY <1>1, WFMin, Zenon
<1>3. \A y \in T : ~(y < x)
  BY <1>2
<1>4. \A y \in T : x <= y
  BY <1>3
<1> QED
  BY <1>2, <1>4, Zenon DEF Min

\* The remainder is below the divisor.
LEMMA Remainder ==
  ASSUME NEW x \in Nat, NEW w \in Nat \ {0}
  PROVE  x % w \in 0 .. w - 1
BY SMT

\* One round more does not change the remainder.
LEMMA RoundTrip ==
  ASSUME NEW x \in Nat, NEW w \in Nat \ {0}, x < w
  PROVE  x % w = x /\ (x + w) % w = x
<1>1. x % w = x
  BY Z3
<1>2. (x + w) % w = x
  BY Z3
<1> QED
  BY <1>1, <1>2

\* getNextLocalStreamId() finds an id that is not in use, if there is one.
LEMMA NextIdIsFree ==
  ASSUME nextLocal \in 0 .. MaxLocal, SomeIdFree
  PROVE  GetNextLocalStreamId \in LocalIds /\ GetNextLocalStreamId \notin AudioInUse \cup VideoInUse
<1> DEFINE w == MaxLocal + 1
           after(k) == (nextLocal + k) % w
           free == {k \in 0 .. MaxLocal : after(k) # 0 /\ ~IsLocalStreamIdInUse(after(k))}
<1>0. w \in Nat \ {0} /\ \A k \in 0 .. MaxLocal : nextLocal + k \in Nat
  OBVIOUS
<1>1. PICK i \in LocalIds : ~IsLocalStreamIdInUse(i)
  BY DEF SomeIdFree
<1>2. i \in Nat /\ i < w /\ i # 0
  BY DEF LocalIds
<1>3. \E k \in 0 .. MaxLocal : after(k) = i
  <2>1. CASE i >= nextLocal
    <3>1. i - nextLocal \in 0 .. MaxLocal /\ nextLocal + (i - nextLocal) = i
      BY <1>2, <2>1
    <3> QED
      BY <1>0, <1>2, <3>1, RoundTrip
  <2>2. CASE i < nextLocal
    <3>1. i + w - nextLocal \in 0 .. MaxLocal /\ nextLocal + (i + w - nextLocal) = i + w
      BY <1>2, <2>2
    <3> QED
      BY <1>0, <1>2, <3>1, RoundTrip
  <2> QED
    BY <1>2, <2>1, <2>2
<1>4. free # {} /\ free \in SUBSET Nat
  <2>1. PICK k \in 0 .. MaxLocal : after(k) = i
    BY <1>3
  <2>2. k \in free
    BY <1>1, <1>2, <2>1, Zenon
  <2>3. \A j \in free : j \in 0 .. MaxLocal
    BY Zenon
  <2> HIDE DEF free
  <2> QED
    BY <2>2, <2>3
<1>5. Min(free) \in free
  <2> HIDE DEF free
  <2> QED
    BY <1>4, MinIsLeast
<1>6. after(Min(free)) \in 0 .. MaxLocal /\ after(Min(free)) # 0 /\ ~IsLocalStreamIdInUse(after(Min(free)))
  <2>1. Min(free) \in 0 .. MaxLocal /\ after(Min(free)) # 0 /\ ~IsLocalStreamIdInUse(after(Min(free)))
    BY <1>5
  <2>2. after(Min(free)) \in 0 .. w - 1
    <3>1. nextLocal + Min(free) \in Nat
      BY <1>0, <2>1
    <3> HIDE DEF free, w
    <3> QED
      BY <1>0, <3>1, Remainder
  <2> QED
    BY <2>1, <2>2
<1>7. GetNextLocalStreamId = after(Min(free))
  BY Zenon DEF GetNextLocalStreamId
<1> QED
  BY <1>6, <1>7 DEF IsLocalStreamIdInUse, LocalIds

----------------------------------------------------------------------------
(* The tables                                                              *)

\* A stream that is not connected yet is entered, or the clock domain of one is.
LEMMA StreamEntered ==
  ASSUME TablesInv, NEW s \in Slots, NEW r \in NetRecords, UNCHANGED <<audio, video>>,
         net' = [net EXCEPT ![s] = r], nextLocal' \in 0 .. MaxLocal, domains' \subseteq 1 .. MaxDomain,
         \/ net[s] = Nil /\ r.local = 0
         \/ net[s] # Nil /\ r.local = net[s].local /\ r.kind = net[s].kind
  PROVE  TablesInv'
<1>0. /\ net \in [Slots -> NetRecords \cup {Nil}]
      /\ audio \in [LocalIds -> AudioRecords \cup {Nil}] /\ video \in [LocalIds -> VideoRecords \cup {Nil}]
      /\ r # Nil
  BY NilIsNothing, Zenon DEF TablesInv, TablesOK
<1>1. TablesOK'
  BY <1>0, Zenon DEF TablesInv, TablesOK
<1>2. /\ net' \in [Slots -> NetRecords \cup {Nil}] /\ net'[s] = r
      /\ \A t \in Slots : t # s => net'[t] = net[t]
  BY <1>0, Zenon
<1>3. ASSUME NEW t \in Slots, net'[t] # Nil, net'[t].local # 0
      PROVE  /\ net[t] # Nil /\ net[t].local = net'[t].local /\ net[t].kind = net'[t].kind
  BY <1>2, <1>3, Zenon
<1>4. ASSUME NEW t \in Slots, net[t] # Nil, net[t].local # 0
      PROVE  net'[t] # Nil /\ net'[t].local = net[t].local
  BY <1>0, <1>2, <1>4, Zenon
<1>5. OneKind'
  BY Zenon DEF TablesInv, OneKind, AudioInUse, VideoInUse
<1>6. NetworkSide'
  <2>1. ASSUME NEW t \in Slots, net'[t] # Nil, net'[t].local # 0
        PROVE  LocalPointsBack(t)'
    <3>1. LocalPointsBack(t) /\ net'[t].local = net[t].local /\ net'[t].kind = net[t].kind
      BY <1>3, <2>1, Zenon DEF TablesInv, NetworkSide
    <3>2. LocalOf(t)' = LocalOf(t)
      <4>1. audio' = audio /\ video' = video
        OBVIOUS
      <4> QED
        BY <3>1, <4>1 DEF LocalOf
    <3> QED
      BY <3>1, <3>2, Zenon DEF LocalPointsBack
  <2> QED
    BY <2>1, Zenon DEF NetworkSide
<1>7. AudioSide'
  <2>1. ASSUME NEW i \in LocalIds, audio[i] # Nil, audio[i].client # Nil
        PROVE  NetPointsBack(audio[i].client, i)'
    <3>1. audio[i].client \in Slots /\ i # 0
      BY <1>0, <2>1 DEF AudioRecords, LocalIds
    <3>2. NetPointsBack(audio[i].client, i)
      BY <2>1, Zenon DEF TablesInv, AudioSide
    <3> QED
      BY <1>4, <3>1, <3>2, Zenon DEF NetPointsBack
  <2> QED
    BY <2>1, Zenon DEF AudioSide
<1>8. VideoSide'
  <2>1. ASSUME NEW i \in LocalIds, video[i] # Nil, video[i].client # Nil
        PROVE  NetPointsBack(video[i].client, i)'
    <3>1. video[i].client \in Slots /\ i # 0
      BY <1>0, <2>1 DEF VideoRecords, LocalIds
    <3>2. NetPointsBack(video[i].client, i)
      BY <2>1, Zenon DEF TablesInv, VideoSide
    <3> QED
      BY <1>4, <3>1, <3>2, Zenon DEF NetPointsBack
  <2> QED
    BY <2>1, Zenon DEF VideoSide
<1> QED
  BY <1>1, <1>5, <1>6, <1>7, <1>8, Zenon DEF TablesInv

\* A network stream lets go of its local stream, and may be deleted.
LEMMA StreamLetsGo ==
  ASSUME TablesInv, NEW s \in Slots, net[s] # Nil, NEW r \in NetRecords \cup {Nil},
         r = Nil \/ (r.local = 0 /\ r.kind = net[s].kind),
         net' = [net EXCEPT ![s] = r], audio' = AudioWithout(s), video' = VideoWithout(s),
         UNCHANGED <<nextLocal, domains>>
  PROVE  /\ TablesInv'
         /\ \A i \in LocalIds : /\ audio'[i] = Nil <=> audio[i] = Nil
                                /\ video'[i] = Nil <=> video[i] = Nil
                                /\ audio[i] # Nil => audio'[i].dir = audio[i].dir /\ audio'[i].client # s
                                /\ video[i] # Nil => video'[i].dir = video[i].dir /\ video'[i].client # s
<1>0. /\ net \in [Slots -> NetRecords \cup {Nil}]
      /\ audio \in [LocalIds -> AudioRecords \cup {Nil}] /\ video \in [LocalIds -> VideoRecords \cup {Nil}]
      /\ nextLocal \in 0 .. MaxLocal /\ domains \subseteq 1 .. MaxDomain
      /\ OneKind /\ NetworkSide /\ AudioSide /\ VideoSide
  BY Zenon DEF TablesInv, TablesOK
<1> DEFINE j == net[s].local
<1>1. net[s] \in NetRecords /\ j \in 0 .. MaxLocal /\ net[s].kind \in {"audio", "video", "crs"}
  <2>1. net[s] \in NetRecords
    BY <1>0, Zenon
  <2> QED
    BY <2>1 DEF NetRecords
<1>2. j # 0 => j \in LocalIds /\ net[s].kind # "crs" /\ LocalPointsBack(s)
  BY <1>0, <1>1 DEF NetworkSide, LocalIds, LocalPointsBack
<1>3. ASSUME NEW i \in LocalIds, audio[i] # Nil
      PROVE  /\ audio'[i] # Nil /\ audio'[i] \in AudioRecords /\ audio'[i].dir = audio[i].dir
             /\ IF audio[i].client = s THEN audio'[i].client = Nil ELSE audio'[i] = audio[i]
  <2>1. audio[i] \in AudioRecords
    BY <1>0, <1>3, Zenon
  <2>2. CASE audio[i].client = s
    <3>1. NetPointsBack(s, i)
      BY <1>0, <1>3, <2>2, NilIsNothing, Zenon DEF AudioSide
    <3>2. j = i /\ i # 0
      BY <3>1 DEF NetPointsBack, LocalIds
    <3>3. net[s].kind = "audio"
      <4>1. video[i] = Nil
        BY <1>0, <1>3, Zenon DEF OneKind, AudioInUse, VideoInUse
      <4> QED
        BY <1>1, <1>2, <3>2, <4>1, Zenon DEF LocalPointsBack, LocalOf
    <3>4. audio' = [audio EXCEPT ![i].client = Nil]
      BY <3>2, <3>3, Zenon DEF AudioWithout, Unhooked
    <3>5. audio'[i] = [audio[i] EXCEPT !.client = Nil]
      BY <1>0, <3>4, Zenon
    <3>6. /\ [audio[i] EXCEPT !.client = Nil] \in AudioRecords
          /\ [audio[i] EXCEPT !.client = Nil].dir = audio[i].dir /\ [audio[i] EXCEPT !.client = Nil].client = Nil
      BY <2>1, Zenon DEF AudioRecords
    <3> QED
      BY <2>2, <3>5, <3>6, NilIsNothing, Zenon
  <2>3. CASE audio[i].client # s
    <3>1. ~(net[s].kind = "audio" /\ j # 0 /\ j = i)
      BY <1>2, <2>3, Zenon DEF LocalPointsBack, LocalOf
    <3>2. audio'[i] = audio[i]
      BY <1>0, <3>1, Zenon DEF AudioWithout, Unhooked
    <3> QED
      BY <1>3, <2>1, <2>3, <3>2, Zenon
  <2> QED
    BY <2>2, <2>3
<1>4. ASSUME NEW i \in LocalIds, video[i] # Nil
      PROVE  /\ video'[i] # Nil /\ video'[i] \in VideoRecords /\ video'[i].dir = video[i].dir
             /\ IF video[i].client = s THEN video'[i].client = Nil ELSE video'[i] = video[i]
  <2>1. video[i] \in VideoRecords
    BY <1>0, <1>4, Zenon
  <2>2. CASE video[i].client = s
    <3>1. NetPointsBack(s, i)
      BY <1>0, <1>4, <2>2, NilIsNothing, Zenon DEF VideoSide
    <3>2. j = i /\ i # 0
      BY <3>1 DEF NetPointsBack, LocalIds
    <3>3. net[s].kind = "video"
      <4>1. audio[i] = Nil
        BY <1>0, <1>4, Zenon DEF OneKind, AudioInUse, VideoInUse
      <4> QED
        BY <1>1, <1>2, <3>2, <4>1, Zenon DEF LocalPointsBack, LocalOf
    <3>4. video' = [video EXCEPT ![i].client = Nil]
      BY <3>2, <3>3, Zenon DEF VideoWithout, Unhooked
    <3>5. video'[i] = [video[i] EXCEPT !.client = Nil]
      BY <1>0, <3>4, Zenon
    <3>6. /\ [video[i] EXCEPT !.client = Nil] \in VideoRecords
          /\ [video[i] EXCEPT !.client = Nil].dir = video[i].dir /\ [video[i] EXCEPT !.client = Nil].client = Nil
      BY <2>1, Zenon DEF VideoRecords
    <3> QED
      BY <2>2, <3>5, <3>6, NilIsNothing, Zenon
  <2>3. CASE video[i].client # s
    <3>1. ~(net[s].kind = "video" /\ j # 0 /\ j = i)
      BY <1>1, <1>2, <2>3, Zenon DEF LocalPointsBack, LocalOf
    <3>2. video'[i] = video[i]
      BY <1>0, <3>1, Zenon DEF VideoWithout, Unhooked
    <3> QED
      BY <1>4, <2>1, <2>3, <3>2, Zenon
  <2> QED
    BY <2>2, <2>3
<1>5. ASSUME NEW i \in LocalIds
      PROVE  (audio[i] = Nil => audio'[i] = Nil) /\ (video[i] = Nil => video'[i] = Nil)
  <2>1. CASE i = j
    <3>1. net[s].kind = "audio" => audio[i] # Nil
      BY <1>1, <1>2, <2>1 DEF LocalPointsBack, LocalOf, LocalIds
    <3>2. net[s].kind = "video" => video[i] # Nil
      BY <1>1, <1>2, <2>1 DEF LocalPointsBack, LocalOf, LocalIds
    <3> QED
      BY <3>1, <3>2, Zenon DEF AudioWithout, VideoWithout
  <2>2. CASE i # j
    BY <1>0, <2>2, Zenon DEF AudioWithout, VideoWithout, Unhooked
  <2> QED
    BY <2>1, <2>2
<1>6. audio' \in [LocalIds -> AudioRecords \cup {Nil}] /\ video' \in [LocalIds -> VideoRecords \cup {Nil}]
  <2>1. audio' = [i \in LocalIds |-> audio'[i]] /\ video' = [i \in LocalIds |-> video'[i]]
    BY <1>0, Zenon DEF AudioWithout, VideoWithout, Unhooked
  <2>2. ASSUME NEW i \in LocalIds
        PROVE  audio'[i] \in AudioRecords \cup {Nil} /\ video'[i] \in VideoRecords \cup {Nil}
    BY <1>3, <1>4, <1>5, Zenon
  <2> QED
    BY <2>1, <2>2, Zenon
<1>7. /\ net' \in [Slots -> NetRecords \cup {Nil}] /\ net'[s] = r
      /\ \A t \in Slots : t # s => net'[t] = net[t]
  BY <1>0, Zenon
<1>8. TablesOK'
  BY <1>0, <1>6, <1>7, Zenon DEF TablesOK
<1>9. OneKind'
  <2>1. \A i \in LocalIds : audio'[i] # Nil => audio[i] # Nil
    BY <1>5, Zenon
  <2>2. \A i \in LocalIds : video'[i] # Nil => video[i] # Nil
    BY <1>5, Zenon
  <2> QED
    BY <1>0, <2>1, <2>2, Zenon DEF OneKind, AudioInUse, VideoInUse
<1>10. NetworkSide'
  <2>1. ASSUME NEW t \in Slots, net'[t] # Nil, net'[t].local # 0
        PROVE  LocalPointsBack(t)'
    <3>1. t # s
      BY <1>7, <2>1, Zenon
    <3>2. net'[t] = net[t] /\ LocalPointsBack(t) /\ net[t] \in NetRecords
      BY <1>0, <1>7, <2>1, <3>1, Zenon DEF NetworkSide
    <3>3. net[t].local \in LocalIds
      BY <2>1, <3>2 DEF NetRecords, LocalIds
    <3>4. LocalOf(t)' = LocalOf(t)
      <4>1. CASE net[t].kind = "audio"
        <5>1. LocalOf(t) = audio[net[t].local] /\ LocalOf(t)' = audio'[net[t].local]
          BY <3>2, <4>1, Zenon DEF LocalOf
        <5>2. audio[net[t].local] # Nil /\ audio[net[t].local].client # s
          BY <3>1, <3>2, <5>1, Zenon DEF LocalPointsBack
        <5> QED
          BY <1>3, <3>3, <5>1, <5>2, Zenon
      <4>2. CASE net[t].kind # "audio"
        <5>1. LocalOf(t) = video[net[t].local] /\ LocalOf(t)' = video'[net[t].local]
          BY <3>2, <4>2, Zenon DEF LocalOf
        <5>2. video[net[t].local] # Nil /\ video[net[t].local].client # s
          BY <3>1, <3>2, <5>1, Zenon DEF LocalPointsBack
        <5> QED
          BY <1>4, <3>3, <5>1, <5>2, Zenon
      <4> QED
        BY <4>1, <4>2
    <3> QED
      BY <3>2, <3>4, Zenon DEF LocalPointsBack
  <2> QED
    BY <2>1, Zenon DEF NetworkSide
<1>11. AudioSide'
  <2>1. ASSUME NEW i \in LocalIds, audio'[i] # Nil, audio'[i].client # Nil
        PROVE  NetPointsBack(audio[i].client, i)'
    <3>1. audio[i] # Nil
      BY <1>5, <2>1, Zenon
    <3>2. audio[i].client # s /\ audio'[i] = audio[i]
      BY <1>3, <2>1, <3>1, Zenon
    <3>3. audio[i].client \in Slots
      BY <1>0, <2>1, <3>1, <3>2 DEF AudioRecords
    <3>4. NetPointsBack(audio[i].client, i)
      BY <1>0, <2>1, <3>2, Zenon DEF AudioSide
    <3> QED
      BY <1>7, <3>2, <3>3, <3>4, Zenon DEF NetPointsBack
  <2> QED
    BY <2>1, Zenon DEF AudioSide
<1>12. VideoSide'
  <2>1. ASSUME NEW i \in LocalIds, video'[i] # Nil, video'[i].client # Nil
        PROVE  NetPointsBack(video[i].client, i)'
    <3>1. video[i] # Nil
      BY <1>5, <2>1, Zenon
    <3>2. video[i].client # s /\ video'[i] = video[i]
      BY <1>4, <2>1, <3>1, Zenon
    <3>3. video[i].client \in Slots
      BY <1>0, <2>1, <3>1, <3>2 DEF VideoRecords
    <3>4. NetPointsBack(video[i].client, i)
      BY <1>0, <2>1, <3>2, Zenon DEF VideoSide
    <3> QED
      BY <1>7, <3>2, <3>3, <3>4, Zenon DEF NetPointsBack
  <2> QED
    BY <2>1, Zenon DEF VideoSide
<1>13. TablesInv'
  BY <1>8, <1>9, <1>10, <1>11, <1>12, Zenon DEF TablesInv
<1>14. ASSUME NEW i \in LocalIds
       PROVE  /\ audio'[i] = Nil <=> audio[i] = Nil
              /\ video'[i] = Nil <=> video[i] = Nil
              /\ audio[i] # Nil => audio'[i].dir = audio[i].dir /\ audio'[i].client # s
              /\ video[i] # Nil => video'[i].dir = video[i].dir /\ video'[i].client # s
  <2>1. s # Nil
    BY NilIsNothing, Zenon
  <2> QED
    BY <1>3, <1>4, <1>5, <2>1, Zenon
<1> QED
  BY <1>13, <1>14, Zenon

Hooked(f, j, l, s) == [Unhooked(f, j) EXCEPT ![l].client = s]

\* A local stream is hooked to stream s, and the one the stream had, if any, is let go.
LEMMA HookedLocals ==
  ASSUME NEW R \in {AudioRecords, VideoRecords}, NEW f \in [LocalIds -> R \cup {Nil}],
         NEW s \in Slots, NEW l \in LocalIds, f[l] # Nil, NEW j \in 0 .. MaxLocal, j # l, j # 0 => f[j] # Nil
  PROVE  /\ Hooked(f, j, l, s) \in [LocalIds -> R \cup {Nil}]
         /\ \A i \in LocalIds : Hooked(f, j, l, s)[i] = Nil <=> f[i] = Nil
         /\ Hooked(f, j, l, s)[l].client = s /\ Hooked(f, j, l, s)[l].dir = f[l].dir
         /\ j # 0 => Hooked(f, j, l, s)[j].client = Nil
         /\ \A i \in LocalIds \ {j, l} : Hooked(f, j, l, s)[i] = f[i]
<1> DEFINE g == Hooked(f, j, l, s)
<1>1. \A r \in R, c \in Slots \cup {Nil} :
        /\ [r EXCEPT !.client = c] \in R /\ [r EXCEPT !.client = c] # Nil
        /\ [r EXCEPT !.client = c].client = c /\ [r EXCEPT !.client = c].dir = r.dir
  <2>1. CASE R = AudioRecords
    <3>1. \A r \in R, c \in Slots \cup {Nil} :
            /\ [r EXCEPT !.client = c] \in R
            /\ [r EXCEPT !.client = c].client = c /\ [r EXCEPT !.client = c].dir = r.dir
      BY <2>1, Zenon DEF AudioRecords
    <3>2. Nil \notin R
      BY <2>1, NilIsNothing
    <3>3. \A x : x \in R => x # Nil
      BY <3>2
    <3> QED
      BY <3>1, <3>3, Zenon
  <2>2. CASE R = VideoRecords
    <3>1. \A r \in R, c \in Slots \cup {Nil} :
            /\ [r EXCEPT !.client = c] \in R
            /\ [r EXCEPT !.client = c].client = c /\ [r EXCEPT !.client = c].dir = r.dir
      BY <2>2, Zenon DEF VideoRecords
    <3>2. Nil \notin R
      BY <2>2, NilIsNothing
    <3>3. \A x : x \in R => x # Nil
      BY <3>2
    <3> QED
      BY <3>1, <3>3, Zenon
  <2> QED
    BY <2>1, <2>2
<1> DEFINE h == Unhooked(f, j)
<1>2. j # 0 => j \in LocalIds
  BY DEF LocalIds
<1>3. /\ h \in [LocalIds -> R \cup {Nil}]
      /\ j # 0 => h[j] # Nil /\ h[j].client = Nil
      /\ \A i \in LocalIds : i # j => h[i] = f[i]
  <2>1. CASE j = 0
    <3>1. h = f
      BY <2>1, Zenon DEF Unhooked
    <3> QED
      BY <2>1, <3>1, Zenon
  <2>2. CASE j # 0
    <3>1. h = [f EXCEPT ![j] = [f[j] EXCEPT !.client = Nil]]
      BY <2>2, Zenon DEF Unhooked
    <3>2. f[j] \in R
      BY <1>2, <2>2, Zenon
    <3>3. [f[j] EXCEPT !.client = Nil] \in R /\ [f[j] EXCEPT !.client = Nil] # Nil /\ [f[j] EXCEPT !.client = Nil].client = Nil
      BY <1>1, <3>2, Zenon
    <3> HIDE DEF h
    <3> QED
      BY <1>2, <2>2, <3>1, <3>3, Zenon
  <2> QED
    BY <2>1, <2>2
<1>4. g = [h EXCEPT ![l] = [h[l] EXCEPT !.client = s]] /\ h[l] = f[l] /\ f[l] \in R
  BY <1>3, Zenon DEF Hooked
<1> HIDE DEF g, h
<1>5. g = [h EXCEPT ![l] = [f[l] EXCEPT !.client = s]]
  BY <1>4, Zenon
<1>6. /\ [f[l] EXCEPT !.client = s] \in R /\ [f[l] EXCEPT !.client = s] # Nil
      /\ [f[l] EXCEPT !.client = s].client = s /\ [f[l] EXCEPT !.client = s].dir = f[l].dir
  BY <1>1, <1>4, Zenon
<1>7. /\ g \in [LocalIds -> R \cup {Nil}] /\ g[l] = [f[l] EXCEPT !.client = s]
      /\ \A i \in LocalIds : i # l => g[i] = h[i]
  BY <1>3, <1>5, <1>6, Zenon
<1>8. \A i \in LocalIds : g[i] = Nil <=> f[i] = Nil
  <2> TAKE i \in LocalIds
  <2>1. CASE i = l
    BY <1>6, <1>7, <2>1, Zenon
  <2>2. CASE i # l /\ i = j
    <3>1. j # 0
      BY <2>2 DEF LocalIds
    <3> QED
      BY <1>3, <1>7, <2>2, <3>1, Zenon
  <2>3. CASE i # l /\ i # j
    BY <1>3, <1>7, <2>3, Zenon
  <2> QED
    BY <2>1, <2>2, <2>3
<1>9. g[l].client = s /\ g[l].dir = f[l].dir
  BY <1>6, <1>7, Zenon
<1>10. j # 0 => g[j].client = Nil
  BY <1>2, <1>3, <1>7, Zenon
<1>11. \A i \in LocalIds \ {j, l} : g[i] = f[i]
  BY <1>3, <1>7, Zenon
<1>12. /\ g \in [LocalIds -> R \cup {Nil}] /\ \A i \in LocalIds : g[i] = Nil <=> f[i] = Nil
       /\ g[l].client = s /\ g[l].dir = f[l].dir /\ (j # 0 => g[j].client = Nil)
       /\ \A i \in LocalIds \ {j, l} : g[i] = f[i]
  BY <1>7, <1>8, <1>9, <1>10, <1>11, Zenon
<1> QED
  BY <1>12, Zenon DEF g

\* connectTo() of an audio stream whose local stream has no client.
LEMMA AudioConnected ==
  ASSUME TablesInv, NEW s \in Slots, net[s] # Nil, net[s].kind = "audio", NEW l \in LocalIds, net[s].local # l,
         audio[l] # Nil, audio[l].client = Nil, audio[l].dir = s[1],
         net' = [net EXCEPT ![s].local = l], audio' = [AudioWithout(s) EXCEPT ![l].client = s],
         video' = VideoWithout(s), UNCHANGED <<nextLocal, domains>>
  PROVE  TablesInv'
<1> DEFINE j == net[s].local
<1>0. /\ net \in [Slots -> NetRecords \cup {Nil}]
      /\ audio \in [LocalIds -> AudioRecords \cup {Nil}] /\ video \in [LocalIds -> VideoRecords \cup {Nil}]
      /\ nextLocal \in 0 .. MaxLocal /\ domains \subseteq 1 .. MaxDomain
      /\ OneKind /\ NetworkSide /\ AudioSide /\ VideoSide
  BY Zenon DEF TablesInv, TablesOK
<1>1. net[s] \in NetRecords /\ j \in 0 .. MaxLocal
  <2>1. net[s] \in NetRecords
    BY <1>0, Zenon
  <2> QED
    BY <2>1 DEF NetRecords
<1>2. video' = video /\ (\A f : f = audio => audio' = Hooked(f, j, l, s)) /\ l # 0
  <2>1. l # 0
    BY DEF LocalIds
  <2>2. audio' = Hooked(audio, j, l, s)
    BY Zenon DEF AudioWithout, VideoWithout, Hooked
  <2> QED
    BY <2>1, <2>2, Zenon DEF AudioWithout, VideoWithout, Hooked
<1>3. j # 0 => j \in LocalIds /\ audio[j] # Nil /\ audio[j].client = s /\ video[j] = Nil
  <2>1. j # 0 => j \in LocalIds /\ LocalPointsBack(s)
    BY <1>0, <1>1 DEF NetworkSide, LocalIds
  <2>2. j # 0 => audio[j] # Nil /\ audio[j].client = s
    BY <2>1 DEF LocalPointsBack, LocalOf
  <2> QED
    BY <1>0, <2>1, <2>2, Zenon DEF OneKind, AudioInUse, VideoInUse
<1>4. /\ audio' \in [LocalIds -> AudioRecords \cup {Nil}]
      /\ \A i \in LocalIds : audio'[i] = Nil <=> audio[i] = Nil
      /\ audio'[l].client = s /\ audio'[l].dir = s[1] /\ (j # 0 => audio'[j].client = Nil)
      /\ \A i \in LocalIds \ {j, l} : audio'[i] = audio[i]
  <2>1. j # l /\ (j # 0 => audio[j] # Nil)
    BY <1>3
  <2> HIDE DEF j
  <2>2. /\ audio' \in [LocalIds -> AudioRecords \cup {Nil}]
        /\ \A i \in LocalIds : audio'[i] = Nil <=> audio[i] = Nil
        /\ audio'[l].client = s /\ audio'[l].dir = audio[l].dir /\ (j # 0 => audio'[j].client = Nil)
        /\ \A i \in LocalIds \ {j, l} : audio'[i] = audio[i]
    <3>1. audio \in [LocalIds -> AudioRecords \cup {Nil}] /\ j \in 0 .. MaxLocal
      BY <1>0, <1>1
    <3>2. ASSUME NEW f, f = audio
          PROVE  /\ Hooked(f, j, l, s) \in [LocalIds -> AudioRecords \cup {Nil}]
                 /\ \A i \in LocalIds : Hooked(f, j, l, s)[i] = Nil <=> f[i] = Nil
                 /\ Hooked(f, j, l, s)[l].client = s /\ Hooked(f, j, l, s)[l].dir = f[l].dir
                 /\ j # 0 => Hooked(f, j, l, s)[j].client = Nil
                 /\ \A i \in LocalIds \ {j, l} : Hooked(f, j, l, s)[i] = f[i]
      <4>1. f \in [LocalIds -> AudioRecords \cup {Nil}] /\ f[l] # Nil /\ (j # 0 => f[j] # Nil)
        BY <2>1, <3>1, <3>2
      <4>2. j \in 0 .. MaxLocal /\ j # l
        BY <2>1, <3>1
      <4>3. AudioRecords \in {AudioRecords, VideoRecords}
        OBVIOUS
      <4> QED
        BY <4>1, <4>2, <4>3, HookedLocals
    <3>3. PICK f : f = audio
      OBVIOUS
    <3>4. audio' = Hooked(f, j, l, s)
      BY <1>2, <3>3, Zenon
    <3>5. PICK g : g = audio'
      OBVIOUS
    <3>6. g = Hooked(f, j, l, s)
      BY <3>4, <3>5
    <3>7. /\ g \in [LocalIds -> AudioRecords \cup {Nil}]
          /\ \A i \in LocalIds : g[i] = Nil <=> f[i] = Nil
          /\ g[l].client = s /\ g[l].dir = f[l].dir /\ (j # 0 => g[j].client = Nil)
          /\ \A i \in LocalIds \ {j, l} : g[i] = f[i]
      BY <3>2, <3>3, <3>6, SMT
    <3> QED
      BY <3>3, <3>5, <3>7, Zenon
  <2> QED
    BY <2>2, Zenon
<1>5. /\ net' \in [Slots -> NetRecords \cup {Nil}] /\ net'[s] # Nil /\ net'[s].local = l /\ net'[s].kind = "audio"
      /\ \A t \in Slots : t # s => net'[t] = net[t]
  <2>1. net' = [net EXCEPT ![s] = [net[s] EXCEPT !.local = l]]
    OBVIOUS
  <2>2. [net[s] EXCEPT !.local = l] \in NetRecords
    <3>1. l \in 0 .. MaxLocal
      BY DEF LocalIds
    <3> QED
      BY <1>1, <3>1, Zenon DEF NetRecords
  <2>3. [net[s] EXCEPT !.local = l].local = l /\ [net[s] EXCEPT !.local = l].kind = "audio"
    BY <1>1, Zenon DEF NetRecords
  <2>4. [net[s] EXCEPT !.local = l] # Nil
    BY <2>2, NilIsNothing, Zenon
  <2> QED
    BY <1>0, <2>1, <2>2, <2>3, <2>4, Zenon
<1>6. TablesOK'
  BY <1>0, <1>2, <1>4, <1>5, Zenon DEF TablesOK
<1>7. OneKind'
  <2>1. \A i \in LocalIds : (audio'[i] = Nil <=> audio[i] = Nil) /\ video'[i] = video[i]
    BY <1>2, <1>4, Zenon
  <2>2. AudioInUse' = AudioInUse /\ VideoInUse' = VideoInUse
    BY <2>1 DEF AudioInUse, VideoInUse
  <2> QED
    BY <1>0, <2>2, Zenon DEF OneKind
<1>8. NetworkSide'
  <2>1. LocalPointsBack(s)'
    <3>1. LocalOf(s)' = audio'[l]
      BY <1>5 DEF LocalOf
    <3> QED
      BY <1>4, <1>5, <3>1 DEF LocalPointsBack
  <2>2. ASSUME NEW t \in Slots, t # s, net'[t] # Nil, net'[t].local # 0
        PROVE  LocalPointsBack(t)'
    <3>1. net'[t] = net[t] /\ LocalPointsBack(t) /\ net[t] \in NetRecords
      BY <1>0, <1>5, <2>2, Zenon DEF NetworkSide
    <3>2. net[t].local \in LocalIds
      BY <2>2, <3>1 DEF NetRecords, LocalIds
    <3>3. LocalOf(t)' = LocalOf(t)
      <4>1. CASE LocalOf(t) = audio[net[t].local] /\ LocalOf(t)' = audio'[net[t].local]
        <5>1. audio[net[t].local].client = t
          BY <3>1, <4>1, Zenon DEF LocalPointsBack
        <5>2. net[t].local # l /\ (j # 0 => net[t].local # j)
          BY <1>3, <2>2, <5>1, NilIsNothing, Zenon
        <5>3. net[t].local \in LocalIds \ {j, l}
          BY <3>2, <5>2 DEF LocalIds
        <5> QED
          BY <1>4, <4>1, <5>3, Zenon
      <4>2. CASE LocalOf(t) = video[net[t].local] /\ LocalOf(t)' = video'[net[t].local]
        BY <1>2, <4>2, Zenon
      <4> QED
        BY <3>1, <4>1, <4>2 DEF LocalOf
    <3> QED
      BY <3>1, <3>3, Zenon DEF LocalPointsBack
  <2> QED
    BY <2>1, <2>2, Zenon DEF NetworkSide
<1>9. AudioSide'
  <2>1. ASSUME NEW i \in LocalIds, audio'[i] # Nil, audio'[i].client # Nil
        PROVE  NetPointsBack(audio[i].client, i)'
    <3>1. CASE i = l
      BY <1>4, <1>5, <3>1 DEF NetPointsBack
    <3>2. CASE i # l
      <4>1. i # j
        BY <1>4, <2>1 DEF LocalIds
      <4>2. audio'[i] = audio[i] /\ audio[i] # Nil
        BY <1>4, <2>1, <3>2, <4>1
      <4>3. NetPointsBack(audio[i].client, i) /\ audio[i].client \in Slots
        BY <1>0, <2>1, <4>2 DEF AudioSide, AudioRecords
      <4>4. audio[i].client # s
        BY <4>1, <4>3 DEF NetPointsBack
      <4> QED
        BY <1>5, <4>2, <4>3, <4>4, Zenon DEF NetPointsBack
    <3> QED
      BY <3>1, <3>2
  <2> QED
    BY <2>1, Zenon DEF AudioSide
<1>10. VideoSide'
  <2>1. ASSUME NEW i \in LocalIds, video[i] # Nil, video[i].client # Nil
        PROVE  NetPointsBack(video[i].client, i)'
    <3>1. NetPointsBack(video[i].client, i) /\ video[i].client \in Slots
      BY <1>0, <2>1 DEF VideoSide, VideoRecords
    <3>2. video[i].client # s
      BY <1>3, <2>1, <3>1 DEF NetPointsBack, LocalIds
    <3> QED
      BY <1>2, <1>5, <3>1, <3>2, Zenon DEF NetPointsBack
  <2> QED
    BY <1>2, <2>1, Zenon DEF VideoSide
<1> QED
  BY <1>6, <1>7, <1>8, <1>9, <1>10, Zenon DEF TablesInv

\* connectTo() of an video stream whose local stream has no client.
LEMMA VideoConnected ==
  ASSUME TablesInv, NEW s \in Slots, net[s] # Nil, net[s].kind = "video", NEW l \in LocalIds, net[s].local # l,
         video[l] # Nil, video[l].client = Nil, video[l].dir = s[1],
         net' = [net EXCEPT ![s].local = l], video' = [VideoWithout(s) EXCEPT ![l].client = s],
         audio' = AudioWithout(s), UNCHANGED <<nextLocal, domains>>
  PROVE  TablesInv'
<1> DEFINE j == net[s].local
<1>0. /\ net \in [Slots -> NetRecords \cup {Nil}]
      /\ video \in [LocalIds -> VideoRecords \cup {Nil}] /\ audio \in [LocalIds -> AudioRecords \cup {Nil}]
      /\ nextLocal \in 0 .. MaxLocal /\ domains \subseteq 1 .. MaxDomain
      /\ OneKind /\ NetworkSide /\ AudioSide /\ VideoSide
  BY Zenon DEF TablesInv, TablesOK
<1>1. net[s] \in NetRecords /\ j \in 0 .. MaxLocal
  <2>1. net[s] \in NetRecords
    BY <1>0, Zenon
  <2> QED
    BY <2>1 DEF NetRecords
<1>2. audio' = audio /\ (\A f : f = video => video' = Hooked(f, j, l, s)) /\ l # 0
  <2>1. l # 0
    BY DEF LocalIds
  <2>2. video' = Hooked(video, j, l, s)
    BY Zenon DEF AudioWithout, VideoWithout, Hooked
  <2> QED
    BY <2>1, <2>2, Zenon DEF AudioWithout, VideoWithout, Hooked
<1>3. j # 0 => j \in LocalIds /\ video[j] # Nil /\ video[j].client = s /\ audio[j] = Nil
  <2>1. j # 0 => j \in LocalIds /\ LocalPointsBack(s)
    BY <1>0, <1>1 DEF NetworkSide, LocalIds
  <2>2. j # 0 => video[j] # Nil /\ video[j].client = s
    BY <2>1 DEF LocalPointsBack, LocalOf
  <2> QED
    BY <1>0, <2>1, <2>2, Zenon DEF OneKind, AudioInUse, VideoInUse
<1>4. /\ video' \in [LocalIds -> VideoRecords \cup {Nil}]
      /\ \A i \in LocalIds : video'[i] = Nil <=> video[i] = Nil
      /\ video'[l].client = s /\ video'[l].dir = s[1] /\ (j # 0 => video'[j].client = Nil)
      /\ \A i \in LocalIds \ {j, l} : video'[i] = video[i]
  <2>1. j # l /\ (j # 0 => video[j] # Nil)
    BY <1>3
  <2> HIDE DEF j
  <2>2. /\ video' \in [LocalIds -> VideoRecords \cup {Nil}]
        /\ \A i \in LocalIds : video'[i] = Nil <=> video[i] = Nil
        /\ video'[l].client = s /\ video'[l].dir = video[l].dir /\ (j # 0 => video'[j].client = Nil)
        /\ \A i \in LocalIds \ {j, l} : video'[i] = video[i]
    <3>1. video \in [LocalIds -> VideoRecords \cup {Nil}] /\ j \in 0 .. MaxLocal
      BY <1>0, <1>1
    <3>2. ASSUME NEW f, f = video
          PROVE  /\ Hooked(f, j, l, s) \in [LocalIds -> VideoRecords \cup {Nil}]
                 /\ \A i \in LocalIds : Hooked(f, j, l, s)[i] = Nil <=> f[i] = Nil
                 /\ Hooked(f, j, l, s)[l].client = s /\ Hooked(f, j, l, s)[l].dir = f[l].dir
                 /\ j # 0 => Hooked(f, j, l, s)[j].client = Nil
                 /\ \A i \in LocalIds \ {j, l} : Hooked(f, j, l, s)[i] = f[i]
      <4>1. f \in [LocalIds -> VideoRecords \cup {Nil}] /\ f[l] # Nil /\ (j # 0 => f[j] # Nil)
        BY <2>1, <3>1, <3>2
      <4>2. j \in 0 .. MaxLocal /\ j # l
        BY <2>1, <3>1
      <4>3. VideoRecords \in {AudioRecords, VideoRecords}
        OBVIOUS
      <4> QED
        BY <4>1, <4>2, <4>3, HookedLocals
    <3>3. PICK f : f = video
      OBVIOUS
    <3>4. video' = Hooked(f, j, l, s)
      BY <1>2, <3>3, Zenon
    <3>5. PICK g : g = video'
      OBVIOUS
    <3>6. g = Hooked(f, j, l, s)
      BY <3>4, <3>5
    <3>7. /\ g \in [LocalIds -> VideoRecords \cup {Nil}]
          /\ \A i \in LocalIds : g[i] = Nil <=> f[i] = Nil
          /\ g[l].client = s /\ g[l].dir = f[l].dir /\ (j # 0 => g[j].client = Nil)
          /\ \A i \in LocalIds \ {j, l} : g[i] = f[i]
      BY <3>2, <3>3, <3>6, SMT
    <3> QED
      BY <3>3, <3>5, <3>7, Zenon
  <2> QED
    BY <2>2, Zenon
<1>5. /\ net' \in [Slots -> NetRecords \cup {Nil}] /\ net'[s] # Nil /\ net'[s].local = l /\ net'[s].kind = "video"
      /\ \A t \in Slots : t # s => net'[t] = net[t]
  <2>1. net' = [net EXCEPT ![s] = [net[s] EXCEPT !.local = l]]
    OBVIOUS
  <2>2. [net[s] EXCEPT !.local = l] \in NetRecords
    <3>1. l \in 0 .. MaxLocal
      BY DEF LocalIds
    <3> QED
      BY <1>1, <3>1, Zenon DEF NetRecords
  <2>3. [net[s] EXCEPT !.local = l].local = l /\ [net[s] EXCEPT !.local = l].kind = "video"
    BY <1>1, Zenon DEF NetRecords
  <2>4. [net[s] EXCEPT !.local = l] # Nil
    BY <2>2, NilIsNothing, Zenon
  <2> QED
    BY <1>0, <2>1, <2>2, <2>3, <2>4, Zenon
<1>6. TablesOK'
  BY <1>0, <1>2, <1>4, <1>5, Zenon DEF TablesOK
<1>7. OneKind'
  <2>1. \A i \in LocalIds : (video'[i] = Nil <=> video[i] = Nil) /\ audio'[i] = audio[i]
    BY <1>2, <1>4, Zenon
  <2>2. AudioInUse' = AudioInUse /\ VideoInUse' = VideoInUse
    BY <2>1 DEF AudioInUse, VideoInUse
  <2> QED
    BY <1>0, <2>2, Zenon DEF OneKind
<1>8. NetworkSide'
  <2>1. LocalPointsBack(s)'
    <3>1. LocalOf(s)' = video'[l]
      BY <1>5 DEF LocalOf
    <3> QED
      BY <1>4, <1>5, <3>1 DEF LocalPointsBack
  <2>2. ASSUME NEW t \in Slots, t # s, net'[t] # Nil, net'[t].local # 0
        PROVE  LocalPointsBack(t)'
    <3>1. net'[t] = net[t] /\ LocalPointsBack(t) /\ net[t] \in NetRecords
      BY <1>0, <1>5, <2>2, Zenon DEF NetworkSide
    <3>2. net[t].local \in LocalIds
      BY <2>2, <3>1 DEF NetRecords, LocalIds
    <3>3. LocalOf(t)' = LocalOf(t)
      <4>1. CASE LocalOf(t) = video[net[t].local] /\ LocalOf(t)' = video'[net[t].local]
        <5>1. video[net[t].local].client = t
          BY <3>1, <4>1, Zenon DEF LocalPointsBack
        <5>2. net[t].local # l /\ (j # 0 => net[t].local # j)
          BY <1>3, <2>2, <5>1, NilIsNothing, Zenon
        <5>3. net[t].local \in LocalIds \ {j, l}
          BY <3>2, <5>2 DEF LocalIds
        <5> QED
          BY <1>4, <4>1, <5>3, Zenon
      <4>2. CASE LocalOf(t) = audio[net[t].local] /\ LocalOf(t)' = audio'[net[t].local]
        BY <1>2, <4>2, Zenon
      <4> QED
        BY <3>1, <4>1, <4>2 DEF LocalOf
    <3> QED
      BY <3>1, <3>3, Zenon DEF LocalPointsBack
  <2> QED
    BY <2>1, <2>2, Zenon DEF NetworkSide
<1>9. VideoSide'
  <2>1. ASSUME NEW i \in LocalIds, video'[i] # Nil, video'[i].client # Nil
        PROVE  NetPointsBack(video[i].client, i)'
    <3>1. CASE i = l
      BY <1>4, <1>5, <3>1 DEF NetPointsBack
    <3>2. CASE i # l
      <4>1. i # j
        BY <1>4, <2>1 DEF LocalIds
      <4>2. video'[i] = video[i] /\ video[i] # Nil
        BY <1>4, <2>1, <3>2, <4>1
      <4>3. NetPointsBack(video[i].client, i) /\ video[i].client \in Slots
        BY <1>0, <2>1, <4>2 DEF VideoSide, VideoRecords
      <4>4. video[i].client # s
        BY <4>1, <4>3 DEF NetPointsBack
      <4> QED
        BY <1>5, <4>2, <4>3, <4>4, Zenon DEF NetPointsBack
    <3> QED
      BY <3>1, <3>2
  <2> QED
    BY <2>1, Zenon DEF VideoSide
<1>10. AudioSide'
  <2>1. ASSUME NEW i \in LocalIds, audio[i] # Nil, audio[i].client # Nil
        PROVE  NetPointsBack(audio[i].client, i)'
    <3>1. NetPointsBack(audio[i].client, i) /\ audio[i].client \in Slots
      BY <1>0, <2>1 DEF AudioSide, AudioRecords
    <3>2. audio[i].client # s
      BY <1>3, <2>1, <3>1 DEF NetPointsBack, LocalIds
    <3> QED
      BY <1>2, <1>5, <3>1, <3>2, Zenon DEF NetPointsBack
  <2> QED
    BY <1>2, <2>1, Zenon DEF AudioSide
<1> QED
  BY <1>6, <1>7, <1>8, <1>9, <1>10, Zenon DEF TablesInv

\* A local audio stream is created under an id that is free, or one without a client is deleted.
LEMMA AudioEntered ==
  ASSUME TablesInv, NEW i \in LocalIds, NEW r \in AudioRecords \cup {Nil},
         r # Nil => r.client = Nil /\ i \notin VideoInUse, audio[i] # Nil => audio[i].client = Nil,
         audio' = [audio EXCEPT ![i] = r], UNCHANGED <<net, video, domains>>, nextLocal' \in 0 .. MaxLocal
  PROVE  TablesInv'
<1>0. /\ net \in [Slots -> NetRecords \cup {Nil}]
      /\ audio \in [LocalIds -> AudioRecords \cup {Nil}] /\ video \in [LocalIds -> VideoRecords \cup {Nil}]
      /\ domains \subseteq 1 .. MaxDomain
      /\ OneKind /\ NetworkSide /\ AudioSide /\ VideoSide
  BY Zenon DEF TablesInv, TablesOK
<1>1. net' = net /\ video' = video /\ domains' = domains
  OBVIOUS
<1>2. /\ audio' \in [LocalIds -> AudioRecords \cup {Nil}] /\ audio'[i] = r
      /\ \A k \in LocalIds : k # i => audio'[k] = audio[k]
  BY <1>0, Zenon
<1>3. TablesOK'
  BY <1>0, <1>1, <1>2, Zenon DEF TablesOK
<1>4. OneKind'
  BY <1>0, <1>1, <1>2, Zenon DEF OneKind, AudioInUse, VideoInUse
<1>5. NetworkSide'
  <2>1. ASSUME NEW t \in Slots, net[t] # Nil, net[t].local # 0
        PROVE  LocalPointsBack(t)'
    <3>1. LocalPointsBack(t) /\ net[t] \in NetRecords
      BY <1>0, <2>1, Zenon DEF NetworkSide
    <3>2. net[t].local \in LocalIds
      BY <2>1, <3>1 DEF NetRecords, LocalIds
    <3>3. LocalOf(t)' = LocalOf(t)
      <4>1. CASE LocalOf(t) = audio[net[t].local] /\ LocalOf(t)' = audio'[net[t].local]
        <5>1. audio[net[t].local] # Nil /\ audio[net[t].local].client # Nil
          BY <3>1, <4>1, NilIsNothing, Zenon DEF LocalPointsBack
        <5>2. net[t].local # i
          BY <5>1, Zenon
        <5> QED
          BY <1>2, <3>2, <4>1, <5>2, Zenon
      <4>2. CASE LocalOf(t) = video[net[t].local] /\ LocalOf(t)' = video'[net[t].local]
        BY <1>1, <4>2, Zenon
      <4> QED
        BY <1>1, <4>1, <4>2 DEF LocalOf
    <3> QED
      BY <1>1, <3>1, <3>3, Zenon DEF LocalPointsBack
  <2> QED
    BY <1>1, <2>1, Zenon DEF NetworkSide
<1>6. AudioSide'
  <2>1. ASSUME NEW k \in LocalIds, audio'[k] # Nil, audio'[k].client # Nil
        PROVE  NetPointsBack(audio[k].client, k)'
    <3>1. k # i
      BY <1>2, <2>1, Zenon
    <3> QED
      BY <1>0, <1>1, <1>2, <2>1, <3>1, Zenon DEF AudioSide, NetPointsBack
  <2> QED
    BY <2>1, Zenon DEF AudioSide
<1>7. VideoSide'
  BY <1>0, <1>1, Zenon DEF VideoSide, NetPointsBack
<1> QED
  BY <1>3, <1>4, <1>5, <1>6, <1>7, Zenon DEF TablesInv

\* A local video stream is created under an id that is free, or one without a client is deleted.
LEMMA VideoEntered ==
  ASSUME TablesInv, NEW i \in LocalIds, NEW r \in VideoRecords \cup {Nil},
         r # Nil => r.client = Nil /\ i \notin AudioInUse, video[i] # Nil => video[i].client = Nil,
         video' = [video EXCEPT ![i] = r], UNCHANGED <<net, audio, domains>>, nextLocal' \in 0 .. MaxLocal
  PROVE  TablesInv'
<1>0. /\ net \in [Slots -> NetRecords \cup {Nil}]
      /\ video \in [LocalIds -> VideoRecords \cup {Nil}] /\ audio \in [LocalIds -> AudioRecords \cup {Nil}]
      /\ domains \subseteq 1 .. MaxDomain
      /\ OneKind /\ NetworkSide /\ AudioSide /\ VideoSide
  BY Zenon DEF TablesInv, TablesOK
<1>1. net' = net /\ audio' = audio /\ domains' = domains
  OBVIOUS
<1>2. /\ video' \in [LocalIds -> VideoRecords \cup {Nil}] /\ video'[i] = r
      /\ \A k \in LocalIds : k # i => video'[k] = video[k]
  BY <1>0, Zenon
<1>3. TablesOK'
  BY <1>0, <1>1, <1>2, Zenon DEF TablesOK
<1>4. OneKind'
  BY <1>0, <1>1, <1>2, Zenon DEF OneKind, AudioInUse, VideoInUse
<1>5. NetworkSide'
  <2>1. ASSUME NEW t \in Slots, net[t] # Nil, net[t].local # 0
        PROVE  LocalPointsBack(t)'
    <3>1. LocalPointsBack(t) /\ net[t] \in NetRecords
      BY <1>0, <2>1, Zenon DEF NetworkSide
    <3>2. net[t].local \in LocalIds
      BY <2>1, <3>1 DEF NetRecords, LocalIds
    <3>3. LocalOf(t)' = LocalOf(t)
      <4>1. CASE LocalOf(t) = video[net[t].local] /\ LocalOf(t)' = video'[net[t].local]
        <5>1. video[net[t].local] # Nil /\ video[net[t].local].client # Nil
          BY <3>1, <4>1, NilIsNothing, Zenon DEF LocalPointsBack
        <5>2. net[t].local # i
          BY <5>1, Zenon
        <5> QED
          BY <1>2, <3>2, <4>1, <5>2, Zenon
      <4>2. CASE LocalOf(t) = audio[net[t].local] /\ LocalOf(t)' = audio'[net[t].local]
        BY <1>1, <4>2, Zenon
      <4> QED
        BY <1>1, <4>1, <4>2 DEF LocalOf
    <3> QED
      BY <1>1, <3>1, <3>3, Zenon DEF LocalPointsBack
  <2> QED
    BY <1>1, <2>1, Zenon DEF NetworkSide
<1>6. VideoSide'
  <2>1. ASSUME NEW k \in LocalIds, video'[k] # Nil, video'[k].client # Nil
        PROVE  NetPointsBack(video[k].client, k)'
    <3>1. k # i
      BY <1>2, <2>1, Zenon
    <3> QED
      BY <1>0, <1>1, <1>2, <2>1, <3>1, Zenon DEF VideoSide, NetPointsBack
  <2> QED
    BY <2>1, Zenon DEF VideoSide
<1>7. AudioSide'
  BY <1>0, <1>1, Zenon DEF AudioSide, NetPointsBack
<1> QED
  BY <1>3, <1>4, <1>5, <1>6, <1>7, Zenon DEF TablesInv

----------------------------------------------------------------------------
(* The calls of the API                                                    *)

\* a call keeps the tables and creates an engine as the state of the handler asks for
CallKeeps == TablesInv' /\ EnginesCreated

\* the tables are as they were
LEMMA TablesStay ==
  ASSUME TablesInv, UNCHANGED tables
  PROVE  TablesInv'
<1>1. net' = net /\ audio' = audio /\ video' = video /\ nextLocal' = nextLocal /\ domains' = domains
  BY DEF tables
<1>2. TablesOK'
  BY <1>1, Zenon DEF TablesInv, TablesOK
<1>3. OneKind' /\ AudioSide' /\ VideoSide'
  BY <1>1, Zenon DEF TablesInv, OneKind, AudioInUse, VideoInUse, AudioSide, VideoSide, NetPointsBack
<1>4. NetworkSide'
  <2>1. \A t \in Slots : LocalOf(t)' = LocalOf(t)
    BY <1>1 DEF LocalOf
  <2>2. \A t \in Slots : LocalPointsBack(t)' <=> LocalPointsBack(t)
    BY <1>1, <2>1, Zenon DEF LocalPointsBack
  <2> QED
    BY <1>1, <2>2, Zenon DEF TablesInv, NetworkSide
<1> QED
  BY <1>2, <1>3, <1>4, Zenon DEF TablesInv

\* nothing but an engine
LEMMA OnlyEngine ==
  ASSUME TablesInv, UNCHANGED tables, engine' = engine \/ \E e \in Engines : engine' = Created(e)
  PROVE  CallKeeps
<1>2. TablesInv'
  BY TablesStay
<1>3. EnginesCreated
  BY Zenon DEF EnginesCreated, Engines
<1> QED
  BY <1>2, <1>3, Zenon DEF CallKeeps

\* The id of a local stream is free, and the counter stays in range.
LEMMA LocalIdIsFree ==
  ASSUME nextLocal \in 0 .. MaxLocal, NEW req \in 0 .. MaxLocal, NEW i \in LocalIds,
         \/ req # 0 /\ i = req /\ i \notin AudioInUse \cup VideoInUse /\ UNCHANGED nextLocal
         \/ req = 0 /\ SomeIdFree /\ i = GetNextLocalStreamId /\ nextLocal' = (i + 1) % (MaxLocal + 1)
  PROVE  i \notin AudioInUse \cup VideoInUse /\ nextLocal' \in 0 .. MaxLocal
<1>1. CASE req # 0 /\ i = req /\ i \notin AudioInUse \cup VideoInUse /\ UNCHANGED nextLocal
  BY <1>1
<1>2. CASE req = 0 /\ SomeIdFree /\ i = GetNextLocalStreamId /\ nextLocal' = (i + 1) % (MaxLocal + 1)
  <2>1. i \notin AudioInUse \cup VideoInUse
    BY <1>2, NextIdIsFree, Zenon
  <2>2. i + 1 \in Nat /\ MaxLocal + 1 \in Nat \ {0}
    BY DEF LocalIds
  <2>3. (i + 1) % (MaxLocal + 1) \in 0 .. (MaxLocal + 1) - 1
    BY <2>2, Remainder
  <2> QED
    BY <1>2, <2>1, <2>3
<1> QED
  BY <1>1, <1>2

\* A network stream is created or gets a clock domain.
LEMMA DomainDerived ==
  ASSUME TablesInv, NEW s \in Slots, UNCHANGED <<audio, video, nextLocal>>, domains' \subseteq 1 .. MaxDomain,
         NEW d \in 0 .. MaxDomain,
         \/ net[s] = Nil /\ \E k \in {"audio", "video", "crs"} :
              net' = [net EXCEPT ![s] = [kind |-> k, local |-> 0, domain |-> d]]
         \/ net[s] # Nil /\ net' = [net EXCEPT ![s] = [net[s] EXCEPT !.domain = d]]
  PROVE  TablesInv'
<1>1. nextLocal' \in 0 .. MaxLocal /\ net \in [Slots -> NetRecords \cup {Nil}] /\ 0 \in 0 .. MaxLocal
  BY DEF TablesInv, TablesOK
<1>2. CASE net[s] = Nil /\ \E k \in {"audio", "video", "crs"} :
              net' = [net EXCEPT ![s] = [kind |-> k, local |-> 0, domain |-> d]]
  <2>1. PICK k \in {"audio", "video", "crs"} : net' = [net EXCEPT ![s] = [kind |-> k, local |-> 0, domain |-> d]]
    BY <1>2
  <2> DEFINE r == [kind |-> k, local |-> 0, domain |-> d]
  <2>2. r \in NetRecords /\ r.local = 0
    BY <1>1, Zenon DEF NetRecords
  <2>3. net' = [net EXCEPT ![s] = r]
    BY <2>1
  <2> HIDE DEF r
  <2> QED
    BY <1>1, <1>2, <2>2, <2>3, StreamEntered
<1>3. CASE net[s] # Nil /\ net' = [net EXCEPT ![s] = [net[s] EXCEPT !.domain = d]]
  <2> DEFINE r == [net[s] EXCEPT !.domain = d]
  <2>1. net[s] \in NetRecords
    BY <1>1, <1>3, Zenon
  <2>2. r \in NetRecords /\ r.local = net[s].local /\ r.kind = net[s].kind
    BY <2>1, Zenon DEF NetRecords
  <2>3. net' = [net EXCEPT ![s] = r]
    BY <1>3
  <2>4. PICK q : q = r
    OBVIOUS
  <2> HIDE DEF r
  <2>5. q \in NetRecords /\ q.local = net[s].local /\ q.kind = net[s].kind /\ net' = [net EXCEPT ![s] = q]
    BY <2>2, <2>3, <2>4, Zenon
  <2> QED
    BY <1>1, <1>3, <2>5, StreamEntered
<1> QED
  BY <1>2, <1>3

\* A stream that is sent is created, or refused, with the engine.
LEMMA TransmitKeeps ==
  ASSUME TablesInv, NEW k \in {"audio", "video", "crs"}, NEW i \in NetIds, Transmit(k, i)
  PROVE  CallKeeps
<1>1. CASE EngineRefused("tx")
  BY <1>1, OnlyEngine DEF EngineRefused
<1>2. CASE engine' = Created("tx") /\ UNCHANGED tables
  BY <1>2, OnlyEngine DEF Engines
<1>3. CASE engine' = Created("tx") /\ NewStream(<<"tx", i>>, k)
  <2>1. <<"tx", i>> \in Slots /\ 0 \in 0 .. MaxDomain
    BY DEF Slots
  <2>2. /\ net[<<"tx", i>>] = Nil /\ net' = [net EXCEPT ![<<"tx", i>>] = [kind |-> k, local |-> 0, domain |-> 0]]
        /\ audio' = audio /\ video' = video /\ nextLocal' = nextLocal /\ domains' = domains
    BY <1>3 DEF NewStream, Network
  <2>3. domains' \subseteq 1 .. MaxDomain
    BY <2>2 DEF TablesInv, TablesOK
  <2>4. TablesInv'
    BY <2>1, <2>2, <2>3, DomainDerived
  <2>5. EnginesCreated
    BY <1>3, Zenon DEF EnginesCreated, Engines
  <2> QED
    BY <2>4, <2>5, Zenon DEF CallKeeps
<1> QED
  BY <1>1, <1>2, <1>3, Zenon DEF Transmit, CreateTransmitEngine, StreamRefused

\* A stream that is received is created, with a clock domain if there is one left.
LEMMA ReceiveKeeps ==
  ASSUME TablesInv, NEW k \in {"audio", "video", "crs"}, NEW i \in NetIds,
         \/ EngineRefused("rx")
         \/ CreateReceiveEngine /\ (StreamRefused \/ NewStream(<<"rx", i>>, k))
         \/ /\ CreateReceiveEngine /\ net[<<"rx", i>>] = Nil
            /\ DeriveClockDomain(<<"rx", i>>, [net EXCEPT ![<<"rx", i>>] = Network(k)])
            /\ UNCHANGED <<audio, video, nextLocal>>
  PROVE  CallKeeps
<1> DEFINE s == <<"rx", i>>
<1>0. s \in Slots /\ 0 \in 0 .. MaxDomain /\ net \in [Slots -> NetRecords \cup {Nil}] /\ domains \subseteq 1 .. MaxDomain
  BY DEF Slots, TablesInv, TablesOK
<1>1. CASE EngineRefused("rx")
  BY <1>1, OnlyEngine DEF EngineRefused
<1>2. CASE engine' = Created("rx") /\ UNCHANGED tables
  BY <1>2, OnlyEngine DEF Engines
<1>3. ASSUME engine' = Created("rx"), TablesInv'
      PROVE  CallKeeps
  BY <1>3, Zenon DEF CallKeeps, EnginesCreated, Engines
<1>4. CASE CreateReceiveEngine /\ NewStream(s, k)
  <2>1. /\ net[s] = Nil /\ net' = [net EXCEPT ![s] = [kind |-> k, local |-> 0, domain |-> 0]]
        /\ audio' = audio /\ video' = video /\ nextLocal' = nextLocal /\ domains' = domains
    BY <1>4 DEF NewStream, Network
  <2> HIDE DEF s
  <2> QED
    BY <1>0, <1>3, <1>4, <2>1, DomainDerived DEF CreateReceiveEngine
<1>5. CASE /\ CreateReceiveEngine /\ net[s] = Nil
           /\ DeriveClockDomain(s, [net EXCEPT ![s] = Network(k)])
           /\ UNCHANGED <<audio, video, nextLocal>>
  <2>1. \E d \in 0 .. MaxDomain : /\ net' = [net EXCEPT ![s] = [kind |-> k, local |-> 0, domain |-> d]]
                                  /\ domains' \subseteq 1 .. MaxDomain
    <3> HIDE DEF s
    <3>1. CASE UNCHANGED domains /\ net' = [net EXCEPT ![s] = Network(k)]
      BY <1>0, <3>1 DEF Network
    <3>2. CASE /\ (1 .. MaxDomain) \ domains # {}
               /\ domains' = domains \cup {Min((1 .. MaxDomain) \ domains)}
               /\ net' = [[net EXCEPT ![s] = Network(k)] EXCEPT ![s].domain = Min((1 .. MaxDomain) \ domains)]
      <4> DEFINE d == Min((1 .. MaxDomain) \ domains)
      <4>1. d \in 1 .. MaxDomain
        BY <3>2, MinIsLeast
      <4> HIDE DEF d
      <4>2. domains' = domains \cup {d} /\ net' = [[net EXCEPT ![s] = Network(k)] EXCEPT ![s].domain = d]
        BY <3>2 DEF d
      <4>3. PICK e : e = d
        OBVIOUS
      <4>4. e \in 1 .. MaxDomain /\ domains' = domains \cup {e}
        BY <4>1, <4>2, <4>3, Zenon
      <4>5. net' = [[net EXCEPT ![s] = Network(k)] EXCEPT ![s].domain = e]
        BY <4>2, <4>3
      <4>6. [Network(k) EXCEPT !.domain = e] = [kind |-> k, local |-> 0, domain |-> e]
        BY DEF Network
      <4>7. net' = [net EXCEPT ![s] = [Network(k) EXCEPT !.domain = e]]
        <5> DEFINE r == Network(k)
        <5> HIDE DEF r
        <5> QED
          BY <1>0, <4>5 DEF r
      <4>8. e \in 0 .. MaxDomain /\ domains' \subseteq 1 .. MaxDomain
        BY <1>0, <4>4
      <4> QED
        BY <4>6, <4>7, <4>8, Zenon
    <3> QED
      BY <1>5, <3>1, <3>2 DEF DeriveClockDomain
  <2> HIDE DEF s
  <2> QED
    BY <1>0, <1>3, <1>5, <2>1, DomainDerived DEF CreateReceiveEngine
<1> QED
  BY <1>1, <1>2, <1>4, <1>5, Zenon DEF CreateReceiveEngine, StreamRefused

\* The clock domain of a stream that is there.
LEMMA DeriveKeeps ==
  ASSUME TablesInv, NEW i \in NetIds, DeriveClockDomainFromRxStream(i)
  PROVE  CallKeeps
<1> DEFINE s == <<"rx", i>>
<1>0. /\ s \in Slots /\ net \in [Slots -> NetRecords \cup {Nil}] /\ domains \subseteq 1 .. MaxDomain
      /\ net[s] # Nil /\ engine' = engine /\ audio' = audio /\ video' = video /\ nextLocal' = nextLocal
      /\ DeriveClockDomain(s, net)
  BY DEF Slots, TablesInv, TablesOK, DeriveClockDomainFromRxStream
<1> HIDE DEF s
<1>1. CASE UNCHANGED domains /\ net' = net
  BY <1>0, <1>1, OnlyEngine DEF tables
<1>2. CASE /\ (1 .. MaxDomain) \ domains # {}
           /\ domains' = domains \cup {Min((1 .. MaxDomain) \ domains)}
           /\ net' = [net EXCEPT ![s].domain = Min((1 .. MaxDomain) \ domains)]
  <2> DEFINE d == Min((1 .. MaxDomain) \ domains)
  <2>1. d \in 1 .. MaxDomain
    BY <1>2, MinIsLeast
  <2> HIDE DEF d
  <2>2. domains' = domains \cup {d} /\ net' = [net EXCEPT ![s] = [net[s] EXCEPT !.domain = d]]
    BY <1>2 DEF d
  <2>3. domains' \subseteq 1 .. MaxDomain /\ d \in 0 .. MaxDomain
    BY <1>0, <2>1, <2>2
  <2>4. PICK e : e = d
    OBVIOUS
  <2>5. TablesInv'
    BY <1>0, <2>2, <2>3, <2>4, DomainDerived
  <2>6. EnginesCreated
    BY <1>0, Zenon DEF EnginesCreated, Engines
  <2> QED
    BY <2>5, <2>6, Zenon DEF CallKeeps
<1> QED
  BY <1>0, <1>1, <1>2 DEF DeriveClockDomain

\* disconnect() of a stream
LEMMA DisconnectedKeeps ==
  ASSUME TablesInv, NEW s \in Slots, net[s] # Nil, Disconnected(s), UNCHANGED <<nextLocal, domains>>
  PROVE  TablesInv'
<1> DEFINE r == [net[s] EXCEPT !.local = 0]
<1>0. net \in [Slots -> NetRecords \cup {Nil}] /\ 0 \in 0 .. MaxLocal
  BY DEF TablesInv, TablesOK
<1>1. net[s] \in NetRecords
  BY <1>0, Zenon
<1>2. r \in NetRecords /\ r.local = 0 /\ r.kind = net[s].kind
  BY <1>0, <1>1, Zenon DEF NetRecords
<1>3. net' = [net EXCEPT ![s] = r] /\ audio' = AudioWithout(s) /\ video' = VideoWithout(s)
  BY DEF Disconnected
<1>4. PICK q : q = r
  OBVIOUS
<1> HIDE DEF r
<1>5. q \in NetRecords \cup {Nil} /\ q.local = 0 /\ q.kind = net[s].kind /\ net' = [net EXCEPT ![s] = q]
  BY <1>2, <1>3, <1>4, Zenon
<1> QED
  BY <1>3, <1>5, StreamLetsGo

\* an engine is left alone
LEMMA NoEngine ==
  ASSUME TablesInv', UNCHANGED engine
  PROVE  CallKeeps
BY Zenon DEF CallKeeps, EnginesCreated, Engines

\* destroyStream() lets go of the local stream first.
LEMMA DestroyKeeps ==
  ASSUME TablesInv, NEW i \in NetIds, DestroyStream(i)
  PROVE  CallKeeps
<1>1. PICK s \in Slots : /\ net[s] # Nil /\ net' = [net EXCEPT ![s] = Nil]
                         /\ audio' = AudioWithout(s) /\ video' = VideoWithout(s)
  BY Zenon DEF DestroyStream
<1>2. Nil \in NetRecords \cup {Nil} /\ UNCHANGED <<nextLocal, domains>> /\ UNCHANGED engine
  BY DEF DestroyStream
<1>3. TablesInv'
  BY <1>1, <1>2, StreamLetsGo
<1> QED
  BY <1>2, <1>3, NoEngine

\* disconnectStreams(), of the stream the engines find under the id
LEMMA DisconnectKeeps ==
  ASSUME TablesInv, NEW i \in NetIds, DisconnectStreams(i)
  PROVE  CallKeeps
<1>1. PICK s \in Slots : Connectable(s) /\ Disconnected(s)
  BY Zenon DEF DisconnectStreams
<1>2. UNCHANGED <<nextLocal, domains>> /\ UNCHANGED engine /\ net[s] # Nil
  BY <1>1 DEF DisconnectStreams, Connectable
<1>3. TablesInv'
  BY <1>1, <1>2, DisconnectedKeeps
<1> QED
  BY <1>2, <1>3, NoEngine

\* connectStreams(), of an audio or of a video stream
LEMMA ConnectKeeps ==
  ASSUME TablesInv, NEW i \in NetIds, NEW l \in LocalIds, ConnectStreams(i, l)
  PROVE  CallKeeps
<1>0. UNCHANGED <<nextLocal, domains>> /\ UNCHANGED engine
  BY DEF ConnectStreams
<1>1. ASSUME UNCHANGED <<net, audio, video>>
      PROVE  TablesInv'
  <2>1. UNCHANGED tables
    BY <1>0, <1>1 DEF tables
  <2> QED
    BY <1>0, <2>1, OnlyEngine, Zenon DEF CallKeeps
<1>2. ASSUME NEW s \in Slots, audio[l] # Nil, s[1] = audio[l].dir, net[s] # Nil, net[s].kind = "audio",
             ConnectTo(s, l, audio, "audio")
      PROVE  TablesInv'
  <2>1. CASE UNCHANGED <<net, audio, video>>
    BY <1>1, <2>1
  <2>2. CASE Disconnected(s)
    BY <1>0, <1>2, <2>2, DisconnectedKeeps
  <2>3. CASE /\ net[s].local # l /\ audio[l].client = Nil /\ net' = [net EXCEPT ![s].local = l]
             /\ audio' = [AudioWithout(s) EXCEPT ![l].client = s] /\ video' = video
    <3>1. video' = VideoWithout(s)
      BY <1>2, <2>3 DEF VideoWithout
    <3> QED
      BY <1>0, <1>2, <2>3, <3>1, AudioConnected
  <2>4. "audio" # "video"
    OBVIOUS
  <2> QED
    BY <1>2, <2>1, <2>2, <2>3, <2>4, Zenon DEF ConnectTo
<1>3. ASSUME NEW s \in Slots, video[l] # Nil, s[1] = video[l].dir, net[s] # Nil, net[s].kind = "video",
             ConnectTo(s, l, video, "video")
      PROVE  TablesInv'
  <2>1. CASE UNCHANGED <<net, audio, video>>
    BY <1>1, <2>1
  <2>2. CASE Disconnected(s)
    BY <1>0, <1>3, <2>2, DisconnectedKeeps
  <2>3. CASE /\ net[s].local # l /\ video[l].client = Nil /\ net' = [net EXCEPT ![s].local = l]
             /\ video' = [VideoWithout(s) EXCEPT ![l].client = s] /\ audio' = audio
    <3>1. audio' = AudioWithout(s)
      BY <1>3, <2>3 DEF AudioWithout
    <3> QED
      BY <1>0, <1>3, <2>3, <3>1, VideoConnected
  <2>4. "audio" # "video"
    OBVIOUS
  <2> QED
    BY <1>3, <2>1, <2>2, <2>3, <2>4, Zenon DEF ConnectTo
<1>4. TablesInv'
  <2>1. CASE \E s \in Slots : /\ audio[l] # Nil /\ s = <<audio[l].dir, i>>
                              /\ net[s] # Nil /\ net[s].kind = "audio"
                              /\ ConnectTo(s, l, audio, "audio")
    <3>1. PICK s \in Slots : /\ audio[l] # Nil /\ s = <<audio[l].dir, i>> /\ net[s] # Nil
                             /\ net[s].kind = "audio" /\ ConnectTo(s, l, audio, "audio")
      BY <2>1, Zenon
    <3>2. s[1] = audio[l].dir
      BY <3>1
    <3> QED
      BY <1>2, <3>1, <3>2, Zenon
  <2>2. CASE \E s \in Slots : /\ video[l] # Nil /\ s = <<video[l].dir, i>>
                              /\ net[s] # Nil /\ net[s].kind = "video"
                              /\ ConnectTo(s, l, video, "video")
    <3>1. PICK s \in Slots : /\ video[l] # Nil /\ s = <<video[l].dir, i>> /\ net[s] # Nil
                             /\ net[s].kind = "video" /\ ConnectTo(s, l, video, "video")
      BY <2>2, Zenon
    <3>2. s[1] = video[l].dir
      BY <3>1
    <3> QED
      BY <1>3, <3>1, <3>2, Zenon
  <2> QED
    BY <2>1, <2>2, Zenon DEF ConnectStreams
<1> QED
  BY <1>0, <1>4, NoEngine

----------------------------------------------------------------------------
(* The calls about local streams                                           *)

\* destroyLocalStream() deletes no stream that has a client.
LEMMA DestroyLocalKeeps ==
  ASSUME TablesInv, NEW i \in LocalIds, DestroyLocalStream(i)
  PROVE  CallKeeps
<1>0. /\ nextLocal' = nextLocal /\ nextLocal \in 0 .. MaxLocal /\ domains' = domains /\ net' = net
      /\ engine' = engine /\ Nil \in AudioRecords \cup {Nil} /\ Nil \in VideoRecords \cup {Nil}
  BY DEF DestroyLocalStream, TablesInv, TablesOK
<1>1. CASE audio[i].client = Nil /\ audio' = [audio EXCEPT ![i] = Nil] /\ video' = video
  <2>1. TablesInv'
    BY <1>0, <1>1, AudioEntered
  <2> QED
    BY <1>0, <2>1, NoEngine
<1>2. CASE video[i].client = Nil /\ video' = [video EXCEPT ![i] = Nil] /\ audio' = audio
  <2>1. TablesInv'
    BY <1>0, <1>2, VideoEntered
  <2> QED
    BY <1>0, <2>1, NoEngine
<1> QED
  BY <1>1, <1>2, Zenon DEF DestroyLocalStream

\* A local stream is created under a free id, or refused.
LEMMA LocalCreated ==
  ASSUME TablesInv, NEW i \in LocalIds, i \notin AudioInUse \cup VideoInUse, nextLocal' \in 0 .. MaxLocal,
         UNCHANGED <<net, domains>>,
         \/ UNCHANGED <<audio, video>>
         \/ UNCHANGED video /\ \E t \in {"alsa", "tone"}, d \in {"tx", "rx"} : audio' = [audio EXCEPT ![i] = Local(t, d)]
         \/ UNCHANGED audio /\ \E d \in {"tx", "rx"} : video' = [video EXCEPT ![i] = Local("video", d)]
  PROVE  TablesInv'
<1>0. i \notin AudioInUse /\ i \notin VideoInUse /\ audio[i] = Nil /\ video[i] = Nil
  BY DEF AudioInUse, VideoInUse
<1>1. CASE UNCHANGED <<audio, video>>
  <2>1. net' = net /\ audio' = audio /\ video' = video /\ domains' = domains
    BY <1>1
  <2>2. TablesOK'
    BY <2>1, Zenon DEF TablesInv, TablesOK
  <2>3. OneKind' /\ AudioSide' /\ VideoSide'
    BY <2>1, Zenon DEF TablesInv, OneKind, AudioInUse, VideoInUse, AudioSide, VideoSide, NetPointsBack
  <2>4. NetworkSide'
    <3>1. \A s \in Slots : LocalOf(s)' = LocalOf(s)
      BY <2>1 DEF LocalOf
    <3>2. \A s \in Slots : LocalPointsBack(s)' <=> LocalPointsBack(s)
      BY <2>1, <3>1, Zenon DEF LocalPointsBack
    <3> QED
      BY <2>1, <3>2, Zenon DEF TablesInv, NetworkSide
  <2> QED
    BY <2>2, <2>3, <2>4, Zenon DEF TablesInv
<1>2. CASE UNCHANGED video /\ \E t \in {"alsa", "tone"}, d \in {"tx", "rx"} : audio' = [audio EXCEPT ![i] = Local(t, d)]
  <2>1. PICK t \in {"alsa", "tone"}, d \in {"tx", "rx"} : audio' = [audio EXCEPT ![i] = Local(t, d)]
    BY <1>2
  <2>2. Local(t, d) \in AudioRecords /\ Local(t, d).client = Nil
    BY DEF Local, AudioRecords
  <2> QED
    BY <1>0, <1>2, <2>1, <2>2, AudioEntered
<1>3. CASE UNCHANGED audio /\ \E d \in {"tx", "rx"} : video' = [video EXCEPT ![i] = Local("video", d)]
  <2>1. PICK d \in {"tx", "rx"} : video' = [video EXCEPT ![i] = Local("video", d)]
    BY <1>3
  <2>2. Local("video", d) \in VideoRecords /\ Local("video", d).client = Nil
    BY DEF Local, VideoRecords
  <2> QED
    BY <1>0, <1>3, <2>1, <2>2, VideoEntered
<1> QED
  BY <1>1, <1>2, <1>3

\* createAlsaStream(), with an id asked for or the next one
LEMMA AlsaKeeps ==
  ASSUME TablesInv, NEW req \in 0 .. MaxLocal, NEW d \in {"tx", "rx"}, CreateAlsaStream(req, d)
  PROVE  CallKeeps
<1>0. nextLocal \in 0 .. MaxLocal
  BY DEF TablesInv, TablesOK
<1>1. CASE EngineRefused("alsa")
  BY <1>1, OnlyEngine DEF EngineRefused
<1>2. CASE ~EngineRefused("alsa")
  <2>1. PICK i \in LocalIds : /\ LocalId(req, i, AudioInUse \cup VideoInUse)
                              /\ audio' = [audio EXCEPT ![i] = Local("alsa", d)] \/ UNCHANGED audio
    BY <1>2, Zenon DEF CreateAlsaStream
  <2>2. engine' = Created("alsa") /\ net' = net /\ video' = video /\ domains' = domains
    BY <1>2 DEF CreateAlsaStream
  <2>3. i \notin AudioInUse \cup VideoInUse /\ nextLocal' \in 0 .. MaxLocal
    BY <1>0, <2>1, LocalIdIsFree DEF LocalId
  <2>4. TablesInv'
    BY <2>1, <2>2, <2>3, LocalCreated
  <2> QED
    BY <2>2, <2>4, Zenon DEF CallKeeps, EnginesCreated, Engines
<1> QED
  BY <1>1, <1>2

\* createLocalVideoStream(), with an id asked for or the next one
LEMMA LocalVideoKeeps ==
  ASSUME TablesInv, NEW req \in 0 .. MaxLocal, NEW d \in {"tx", "rx"}, CreateLocalVideoStream(req, d)
  PROVE  CallKeeps
<1>0. nextLocal \in 0 .. MaxLocal
  BY DEF TablesInv, TablesOK
<1>1. CASE EngineRefused("video")
  BY <1>1, OnlyEngine DEF EngineRefused
<1>2. CASE ~EngineRefused("video")
  <2>1. PICK i \in LocalIds : /\ LocalId(req, i, AudioInUse \cup VideoInUse)
                              /\ video' = [video EXCEPT ![i] = Local("video", d)] \/ UNCHANGED video
    BY <1>2, Zenon DEF CreateLocalVideoStream
  <2>2. engine' = Created("video") /\ net' = net /\ audio' = audio /\ domains' = domains
    BY <1>2 DEF CreateLocalVideoStream
  <2>3. i \notin AudioInUse \cup VideoInUse /\ nextLocal' \in 0 .. MaxLocal
    BY <1>0, <2>1, LocalIdIsFree DEF LocalId
  <2>4. TablesInv'
    BY <2>1, <2>2, <2>3, LocalCreated
  <2> QED
    BY <2>2, <2>4, Zenon DEF CallKeeps, EnginesCreated, Engines
<1> QED
  BY <1>1, <1>2

\* A test tone asks for no id that a video stream has.
LEMMA ToneKeeps ==
  ASSUME TablesInv, NEW req \in 0 .. MaxLocal, req \notin VideoInUse, CreateTestToneStream(req)
  PROVE  CallKeeps
<1>0. nextLocal \in 0 .. MaxLocal
  BY DEF TablesInv, TablesOK
<1>1. PICK i \in LocalIds : /\ LocalId(req, i, AudioInUse)
                            /\ audio' = [audio EXCEPT ![i] = Local("tone", "tx")] \/ UNCHANGED audio
  BY Zenon DEF CreateTestToneStream
<1>2. engine' = engine /\ net' = net /\ video' = video /\ domains' = domains
  BY DEF CreateTestToneStream
<1>3. i \notin AudioInUse \cup VideoInUse /\ nextLocal' \in 0 .. MaxLocal
  BY <1>0, <1>1, LocalIdIsFree DEF LocalId
<1>4. TablesInv'
  BY <1>1, <1>2, <1>3, LocalCreated
<1> QED
  BY <1>2, <1>4, NoEngine

----------------------------------------------------------------------------
(* Connections are mutual                                                  *)

\* Nothing is left when the handler cleans up.
LEMMA CleanupKeeps ==
  ASSUME TablesInv, Cleanup
  PROVE  TablesInv'
<1>1. /\ net' = [s \in Slots |-> Nil] /\ audio' = [i \in LocalIds |-> Nil] /\ video' = [i \in LocalIds |-> Nil]
      /\ domains' = {} /\ nextLocal' = nextLocal
  BY DEF Cleanup
<1>2. TablesOK'
  BY <1>1 DEF TablesInv, TablesOK
<1>3. /\ \A s \in Slots : net'[s] = Nil
      /\ \A i \in LocalIds : audio'[i] = Nil /\ video'[i] = Nil
  BY <1>1, Zenon
<1>4. OneKind'
  BY <1>3, Zenon DEF OneKind, AudioInUse, VideoInUse
<1>5. NetworkSide' /\ AudioSide' /\ VideoSide'
  BY <1>3, Zenon DEF NetworkSide, AudioSide, VideoSide
<1> QED
  BY <1>2, <1>4, <1>5, Zenon DEF TablesInv

\* A command of a client.
LEMMA CommandKeeps ==
  ASSUME TablesInv, NEW c, StreamCommand(c) \/ ConnectionCommand(c) \/ VideoCommand(c)
  PROVE  CallKeeps
<1>0. 0 \in 0 .. MaxLocal /\ 0 \notin VideoInUse
  BY DEF VideoInUse, LocalIds
<1>1. CASE StreamCommand(c)
  <2>1. \A i \in NetIds : CreateTransmitAudioStream(i) => CallKeeps
    BY TransmitKeeps, Zenon DEF CreateTransmitAudioStream
  <2>2. \A i \in NetIds : CreateReceiveAudioStream(i) => CallKeeps
    BY ReceiveKeeps, Zenon DEF CreateReceiveAudioStream
  <2>3. \A i \in NetIds : DestroyStream(i) => CallKeeps
    BY DestroyKeeps, Zenon
  <2> QED
    BY <1>1, <2>1, <2>2, <2>3, Zenon DEF StreamCommand
<1>2. CASE ConnectionCommand(c)
  <2>1. \A d \in {"tx", "rx"} : CreateAlsaStream(0, d) => CallKeeps
    BY <1>0, AlsaKeeps, Zenon
  <2>2. \A l \in LocalIds : DestroyLocalStream(l) => CallKeeps
    BY DestroyLocalKeeps, Zenon
  <2>3. \A i \in NetIds, l \in LocalIds : ConnectStreams(i, l) => CallKeeps
    BY ConnectKeeps, Zenon
  <2>4. \A i \in NetIds : DisconnectStreams(i) => CallKeeps
    BY DisconnectKeeps, Zenon
  <2> QED
    BY <1>2, <2>1, <2>2, <2>3, <2>4, Zenon DEF ConnectionCommand
<1>3. CASE VideoCommand(c)
  <2>1. \A i \in NetIds : CreateTransmitVideoStream(i) => CallKeeps
    BY TransmitKeeps, Zenon DEF CreateTransmitVideoStream
  <2>2. \A i \in NetIds : CreateReceiveVideoStream(i) => CallKeeps
    BY ReceiveKeeps, Zenon DEF CreateReceiveVideoStream
  <2>3. CreateTestToneStream(0) => CallKeeps
    BY <1>0, ToneKeeps, Zenon
  <2> QED
    BY <1>3, <2>1, <2>2, <2>3, Zenon DEF VideoCommand
<1> QED
  BY <1>1, <1>2, <1>3

\* A call of the configuration.
LEMMA SetupKeeps ==
  ASSUME TablesInv, "tones" \in Assume, Setup
  PROVE  CallKeeps
<1>1. \A c : StreamCommand(c) \/ ConnectionCommand(c) \/ VideoCommand(c) => CallKeeps
  BY CommandKeeps, Zenon
<1>2. \A i \in NetIds : CreateTransmitClockReferenceStream(i) => CallKeeps
  BY TransmitKeeps, Zenon DEF CreateTransmitClockReferenceStream
<1>3. \A i \in NetIds : CreateReceiveClockReferenceStream(i) => CallKeeps
  BY ReceiveKeeps, Zenon DEF CreateReceiveClockReferenceStream
<1>4. \A i \in NetIds : DeriveClockDomainFromRxStream(i) => CallKeeps
  BY DeriveKeeps, Zenon
<1>5. \A r \in 0 .. MaxLocal, d \in {"tx", "rx"} : CreateAlsaStream(r, d) \/ CreateLocalVideoStream(r, d) => CallKeeps
  BY AlsaKeeps, LocalVideoKeeps, Zenon
<1>6. \A r \in ToneId : CreateTestToneStream(r) => CallKeeps
  BY ToneKeeps, Zenon DEF ToneId
<1> QED
  BY <1>1, <1>2, <1>3, <1>4, <1>5, <1>6, Zenon DEF Setup

\* The tables change by a call, or are emptied.
LEMMA StepKeepsTables ==
  ASSUME TablesInv, "tones" \in Assume, [Next]_vars
  PROVE  TablesInv'
<1>1. UNCHANGED tables => TablesInv'
  BY TablesStay, Zenon
<1>2. Cleanup => TablesInv'
  BY CleanupKeeps, Zenon
<1>3. CASE MainThread
  <2>1. InitStage => UNCHANGED tables
    BY DEF InitStage, LoadPlugin, CreateEnvironment, RegisterDltContexts, LoadClockDriver, SetTxRingSize, CreateIgbDevice,
       CreatePtpProxy, CreateClockDomains, CreateWatchdog, Acquire, handlerVars
  <2>2. InitFails \/ SetupFails \/ Delete => Cleanup
    BY DEF InitFails, SetupFails, Delete
  <2>3. Initialized \/ SetupEnds \/ Spawn \/ CheckStartup \/ ActivateMutexHandling \/ Exit => UNCHANGED tables
    BY DEF Initialized, SetupEnds, Spawn, CheckStartup, ActivateMutexHandling, Exit, handlerVars
  <2>4. StartEnters \/ StartTransmit \/ StartReceive \/ StartAlsa \/ StartFails \/ StartLeaves => UNCHANGED tables
    BY DEF StartEnters, StartTransmit, StartReceive, StartAlsa, StartFails, StartLeaves, EngineStarts, MainCall
  <2>5. StopEnters \/ StopAlsa \/ StopTransmit \/ StopReceive \/ StopLeaves => UNCHANGED tables
    BY DEF StopEnters, StopAlsa, StopTransmit, StopReceive, StopLeaves, EngineStops, MainCall
  <2>6. Setup => TablesInv'
    BY SetupKeeps, Zenon DEF CallKeeps
  <2> QED
    BY <1>1, <1>2, <1>3, <2>1, <2>2, <2>3, <2>4, <2>5, <2>6, Zenon DEF MainThread
<1>4. CASE Server
  <2>1. HandleRead \/ ServerEnds \/ CallEnters \/ CallLeaves => UNCHANGED tables
    BY DEF HandleRead, ServerEnds, CallEnters, CallLeaves, handlerVars
  <2>2. Query => UNCHANGED tables
    BY DEF Query
  <2>3. CallExecutes => TablesInv'
    BY <1>1, <2>2, CommandKeeps, Zenon DEF CallExecutes, Execute, CallKeeps
  <2> QED
    BY <1>1, <1>4, <2>1, <2>3, Zenon DEF Server
<1>5. CASE \E s \in {"TERM", "USR1", "USR2"} : Signal(s)
  BY <1>1, <1>5 DEF Signal, handlerVars
<1>6. CASE UNCHANGED vars
  BY <1>1, <1>6 DEF vars, handlerVars
<1> QED
  BY <1>3, <1>4, <1>5, <1>6 DEF Next, Ended

\* The tables are empty at first.
LEMMA InitTables == Init => TablesInv
<1> SUFFICES ASSUME Init PROVE TablesInv
  OBVIOUS
<1>1. /\ net = [s \in Slots |-> Nil] /\ audio = [i \in LocalIds |-> Nil] /\ video = [i \in LocalIds |-> Nil]
      /\ nextLocal = 1 /\ domains = {}
  BY DEF Init
<1>2. TablesOK
  BY <1>1 DEF TablesOK
<1>3. /\ \A s \in Slots : net[s] = Nil
      /\ \A i \in LocalIds : audio[i] = Nil /\ video[i] = Nil
  BY <1>1, Zenon
<1>4. OneKind
  BY <1>3, Zenon DEF OneKind, AudioInUse, VideoInUse
<1>5. NetworkSide /\ AudioSide /\ VideoSide
  BY <1>3, Zenon DEF NetworkSide, AudioSide, VideoSide
<1> QED
  BY <1>2, <1>4, <1>5, Zenon DEF TablesInv

\* Connections are mutual: whatever calls the clients and the configuration make, a network stream
\* and its local stream point at each other, and a local id names one stream, as long as the
\* configuration asks for no test tone id that a video stream has (connectTo(), destroyStream(),
\* getNextLocalStreamId(), isLocalStreamIdInUse()).
THEOREM ConnectionsAreMutual ==
  ASSUME "tones" \in Assume
  PROVE  Spec => []ConnectionsMatch
<1>1. Init => TablesInv
  BY InitTables
<1>2. TablesInv /\ [Next]_vars => TablesInv'
  BY StepKeepsTables, Zenon
<1>3. TablesInv => ConnectionsMatch
  BY FourParts, Zenon DEF TablesInv
<1> QED
  BY <1>1, <1>2, <1>3, PTL DEF Spec

----------------------------------------------------------------------------
(* The API mutex                                                           *)

\* main() is inside start() or stop()
MainInside == mainPc \in {"startTx", "startRx", "startAlsa", "startDone", "stopAlsa", "stopTx", "stopRx", "stopped", "failed"}

\* where main() may be once the mutex is on
AfterActivation == {"wait", "stop", "stopAlsa", "stopTx", "stopRx", "stopped", "failed", "delete", "deleted", "exit"}

\* Before the mutex is on, no client has called; from then on its owner is who is inside.
MutexInv ==
  /\ inside \subseteq Threads /\ owner \in Threads \cup {Nil} /\ mutexOn \in BOOLEAN /\ startIpc \in BOOLEAN
  /\ "main" \in inside <=> MainInside
  /\ "ipc" \in inside <=> ipcPc \in {"inside", "leaving"}
  /\ mutexOn => startIpc /\ mainPc \in AfterActivation /\ inside = IF owner = Nil THEN {} ELSE {owner}
  /\ ~mutexOn => owner = Nil /\ ipcPc \notin {"called", "inside", "leaving"}
  /\ ~Alive => ipcPc \notin {"called", "inside", "leaving"}
USE DEF MainInside, AfterActivation, Alive

\* Nobody is inside at first.
LEMMA InitMutex == Init => MutexInv
BY DEF Init, MutexInv

\* One thread takes the mutex, if it is on, and gives it back.
LEMMA StepKeepsMutex ==
  ASSUME MutexInv, {"startup", "shutdown"} \subseteq Assume, [Next]_vars
  PROVE  MutexInv'
<1>0. /\ "main" \in Threads /\ "ipc" \in Threads /\ Nil \notin Threads
      /\ "startup" \in Assume /\ "shutdown" \in Assume
  BY NilIsNothing DEF Threads
<1> USE DEF MutexInv
<1>1. ASSUME UNCHANGED <<mutexVars, ipcPc, startIpc>>, MainInside' <=> MainInside,
             mutexOn => mainPc' \in AfterActivation, ~Alive' => ipcPc \notin {"called", "inside", "leaving"}
      PROVE  MutexInv'
  BY <1>1 DEF mutexVars
<1>2. CASE MainThread
  <2>1. CASE InitStage \/ InitFails \/ Initialized \/ Setup \/ SetupFails \/ SetupEnds \/ CheckStartup
    <3>1. /\ mainPc \in {"init", "setup", "check"} /\ mainPc' \in {"init", "setup", "spawn", "delete", "start"}
          /\ UNCHANGED <<mutexVars, ipcPc, startIpc>>
      BY <2>1 DEF InitStage, LoadPlugin, CreateEnvironment, RegisterDltContexts, LoadClockDriver, SetTxRingSize,
         CreateIgbDevice, CreatePtpProxy, CreateClockDomains, CreateWatchdog, Acquire, Main,
         InitFails, Initialized, Setup, SetupFails, SetupEnds, CheckStartup
    <3> QED
      BY <1>1, <3>1
  <2>2. CASE Spawn
    BY <2>2 DEF Spawn, Main, mutexVars
  <2>3. CASE ActivateMutexHandling
    <3>1. /\ mainPc = "activate" /\ mainPc' = "wait" /\ owner = Nil /\ mutexOn' = startIpc
          /\ owner' = owner /\ inside' = inside /\ ipcPc' = ipcPc /\ startIpc' = startIpc
      BY <2>3 DEF ActivateMutexHandling
    <3>2. ~mutexOn /\ inside = {}
      BY <3>1 DEF Threads
    <3>4. mutexOn' => startIpc'
      BY <3>1
    <3>5. mutexOn' \in BOOLEAN
      BY <3>1
    <3> QED
      BY <3>1, <3>2, <3>4, <3>5
  <2>4. CASE StartTransmit \/ StartReceive \/ StartAlsa \/ StopAlsa \/ StopTransmit \/ StopReceive
    <3>1. /\ MainInside /\ MainInside' /\ Alive'
          /\ mainPc \in AfterActivation => mainPc' \in AfterActivation
          /\ UNCHANGED <<mutexVars, ipcPc, startIpc>>
      BY <2>4 DEF StartTransmit, StartReceive, StartAlsa, StopAlsa, StopTransmit, StopReceive, EngineStarts, EngineStops,
         Main, MainCall
    <3> QED
      BY <1>1, <3>1
  <2>5. CASE StartEnters \/ StopEnters
    <3>1. /\ mainPc \in {"start", "stop", "suspend"} /\ MainInside' /\ Alive'
          /\ mainPc = "stop" => mainPc' \in AfterActivation
          /\ LockApiMutex("main") /\ ipcPc' = ipcPc /\ startIpc' = startIpc
      BY <2>5 DEF StartEnters, StopEnters, Main, MainCall
    <3> QED
      BY <1>0, <3>1 DEF LockApiMutex, CanLock
  <2>6. CASE StartFails \/ StartLeaves \/ StopLeaves
    <3>1. /\ MainInside /\ mainPc' \in {"stop", "wait", "activate", "delete"}
          /\ mainPc \in AfterActivation => mainPc' \in AfterActivation
          /\ UnlockApiMutex("main") /\ ipcPc' = ipcPc /\ startIpc' = startIpc
      BY <2>6 DEF StartFails, StartLeaves, StopLeaves, Main, MainCall
    <3> QED
      BY <1>0, <3>1 DEF UnlockApiMutex
  <2>7. CASE Delete \/ Exit
    <3>1. /\ mainPc \in {"delete", "deleted"} /\ mainPc' \in {"deleted", "exit"}
          /\ ipcPc \notin {"called", "inside", "leaving"} /\ UNCHANGED <<mutexVars, ipcPc, startIpc>>
      BY <1>0, <2>7 DEF Delete, Exit, Main
    <3> QED
      BY <1>1, <3>1
  <2> QED
    BY <1>2, <2>1, <2>2, <2>3, <2>4, <2>5, <2>6, <2>7, Zenon DEF MainThread
<1>3. CASE Server
  <2>0. mainPc' = mainPc /\ startIpc' = startIpc
    BY <1>3 DEF Server, HandleRead, ServerEnds, CallEnters, CallExecutes, CallLeaves, mainVars
  <2>1. CASE HandleRead \/ ServerEnds
    <3>1. /\ UNCHANGED mutexVars /\ ipcPc \notin {"inside", "leaving"} /\ ipcPc' \notin {"inside", "leaving"}
          /\ ipcPc' = "called" => mutexOn /\ Alive
      BY <1>0, <2>1 DEF HandleRead, ServerEnds, CallAllowed, Running
    <3> QED
      BY <2>0, <3>1 DEF mutexVars
  <2>2. CASE CallEnters
    <3>1. ipcPc = "called" /\ ipcPc' = "inside" /\ LockApiMutex("ipc")
      BY <2>2 DEF CallEnters
    <3> QED
      BY <1>0, <2>0, <3>1 DEF LockApiMutex, CanLock
  <2>3. CASE CallExecutes
    <3>1. ipcPc = "inside" /\ ipcPc' = "leaving" /\ UNCHANGED mutexVars
      BY <2>3 DEF CallExecutes
    <3> QED
      BY <2>0, <3>1 DEF mutexVars
  <2>4. CASE CallLeaves
    <3>1. ipcPc = "leaving" /\ ipcPc' = "listen" /\ UnlockApiMutex("ipc")
      BY <2>4 DEF CallLeaves
    <3> QED
      BY <1>0, <2>0, <3>1 DEF UnlockApiMutex
  <2> QED
    BY <1>3, <2>1, <2>2, <2>3, <2>4, Zenon DEF Server
<1>4. CASE \E s \in {"TERM", "USR1", "USR2"} : Signal(s)
  <2>1. /\ ~MainInside /\ ~MainInside' /\ Alive'
        /\ mutexOn => mainPc' \in AfterActivation
        /\ UNCHANGED <<mutexVars, ipcPc, startIpc>>
    BY <1>4 DEF Signal
  <2> QED
    BY <1>1, <2>1
<1>5. CASE UNCHANGED vars
  BY <1>5 DEF vars, mainVars, mutexVars
<1> QED
  BY <1>2, <1>3, <1>4, <1>5 DEF Next, Ended

\* The mutex is on only with a server and after its only start(), and only then it has an owner.
LateMutex == (mutexOn => startIpc /\ mainPc \in AfterActivation) /\ (owner # Nil => mutexOn)

\* start() never owns the mutex that stop() would lock again, whenever the clients call: main()
\* switches it on after start(), and refuses to resume while the server runs
\* (activateMutexHandling(), the signals of main()).
THEOREM StartIsUnlocked == Spec => []StartOwnsNoMutex
<1>1. Init => LateMutex
  BY DEF Init, LateMutex
<1>2. LateMutex /\ [Next]_vars => LateMutex'
  <2> SUFFICES ASSUME LateMutex, [Next]_vars PROVE LateMutex'
    OBVIOUS
  <2> USE DEF LateMutex
  <2>1. ASSUME UNCHANGED <<mutexVars, startIpc>>, mutexOn => mainPc' \in AfterActivation
        PROVE  LateMutex'
    BY <2>1 DEF mutexVars
  <2>2. CASE MainThread
    <3>1. CASE InitStage \/ InitFails \/ Initialized \/ Setup \/ SetupFails \/ SetupEnds \/ Spawn \/ CheckStartup
      <4>1. mainPc \in {"init", "setup", "spawn", "check"} /\ UNCHANGED <<mutexVars, startIpc>>
        BY <3>1 DEF InitStage, LoadPlugin, CreateEnvironment, RegisterDltContexts, LoadClockDriver, SetTxRingSize,
           CreateIgbDevice, CreatePtpProxy, CreateClockDomains, CreateWatchdog, Acquire, Main,
           InitFails, Initialized, Setup, SetupFails, SetupEnds, Spawn, CheckStartup
      <4> QED
        BY <2>1, <4>1
    <3>2. CASE ActivateMutexHandling
      BY <3>2 DEF ActivateMutexHandling
    <3>3. CASE StartTransmit \/ StartReceive \/ StartAlsa \/ StopAlsa \/ StopTransmit \/ StopReceive \/ Delete \/ Exit
      <4>1. /\ mainPc \in AfterActivation => mainPc' \in AfterActivation
            /\ UNCHANGED <<mutexVars, startIpc>>
        BY <3>3 DEF StartTransmit, StartReceive, StartAlsa, StopAlsa, StopTransmit, StopReceive, EngineStarts,
           EngineStops, Main, MainCall, Delete, Exit
      <4> QED
        BY <2>1, <4>1
    <3>4. CASE StartEnters \/ StopEnters
      <4>1. /\ mainPc \in {"start", "stop", "suspend"}
            /\ mainPc = "stop" => mainPc' \in AfterActivation
            /\ LockApiMutex("main") /\ startIpc' = startIpc
        BY <3>4 DEF StartEnters, StopEnters, Main, MainCall
      <4> QED
        BY <4>1 DEF LockApiMutex
    <3>5. CASE StartFails \/ StartLeaves \/ StopLeaves
      <4>1. /\ mainPc \in AfterActivation => mainPc' \in AfterActivation
            /\ UnlockApiMutex("main") /\ startIpc' = startIpc
        BY <3>5 DEF StartFails, StartLeaves, StopLeaves, Main, MainCall
      <4> QED
        BY <4>1 DEF UnlockApiMutex
    <3> QED
      BY <2>2, <3>1, <3>2, <3>3, <3>4, <3>5, Zenon DEF MainThread
  <2>3. CASE Server
    <3>1. mainPc' = mainPc /\ startIpc' = startIpc
      BY <2>3 DEF Server, HandleRead, ServerEnds, CallEnters, CallExecutes, CallLeaves, mainVars
    <3>2. UNCHANGED mutexVars \/ LockApiMutex("ipc") \/ UnlockApiMutex("ipc")
      BY <2>3 DEF Server, HandleRead, ServerEnds, CallEnters, CallExecutes, CallLeaves
    <3> QED
      BY <3>1, <3>2 DEF mutexVars, LockApiMutex, UnlockApiMutex
  <2>4. CASE \E s \in {"TERM", "USR1", "USR2"} : Signal(s)
    <3>1. /\ UNCHANGED <<mutexVars, startIpc>>
          /\ mutexOn => mainPc' \in AfterActivation
      BY <2>4 DEF Signal
    <3> QED
      BY <2>1, <3>1
  <2>5. CASE UNCHANGED vars
    BY <2>5 DEF vars, mainVars, mutexVars
  <2> QED
    BY <2>2, <2>3, <2>4, <2>5 DEF Next, Ended
<1>3. LateMutex => StartOwnsNoMutex
  BY NilIsNothing DEF LateMutex, StartOwnsNoMutex, Threads
<1> QED
  BY <1>1, <1>2, <1>3, PTL DEF Spec

----------------------------------------------------------------------------
(* The engines and the state of the handler                                *)

Media == {"tx", "rx", "alsa"}

\* an engine that was created late is started with a started handler, and start() and stop()
\* leave the engines they have passed started and stopped
EnginesInv ==
  /\ mState = "Started" /\ mainPc \in {"activate", "wait", "start"} => \A e \in Media : engine[e] # "idle"
  /\ mainPc \in {"startRx", "startAlsa", "startDone"} => engine["tx"] # "idle"
  /\ mainPc \in {"startAlsa", "startDone"} => engine["rx"] # "idle"
  /\ mainPc = "startDone" => engine["alsa"] # "idle"
  /\ mState # "Started" /\ mainPc \in (Stopped \ {"delete"}) \cup {"wait", "suspend"} =>
       \A e \in Media : engine[e] # "running"
  /\ mainPc = "stopped" /\ resuming => mState # "Started" /\ \A e \in Media : engine[e] # "running"
  /\ mainPc \in {"stopTx", "stopRx"} => engine["alsa"] # "running"
  /\ mainPc = "stopRx" => engine["tx"] # "running"
  /\ mainPc \in {"init", "setup", "spawn", "check"} => mState # "Started"
  /\ mainPc = "activate" => mState = "Started"
  /\ "ring" \notin held
  /\ ~Alive => /\ held = {} /\ \A e \in Engines : engine[e] = "none"
               /\ domains = {} /\ \A s \in Slots : net[s] = Nil
               /\ \A i \in LocalIds : audio[i] = Nil /\ video[i] = Nil

\* The variables outside the tables and the mutex have their types.
ControlOK ==
  /\ mainPc \in Stopped \cup {"startTx", "startRx", "startAlsa", "startDone", "activate", "wait", "stop",
        "suspend", "stopAlsa", "stopTx", "stopRx", "stopped", "failed", "deleted", "exit"}
  /\ stage \in 0 .. 10 /\ resuming \in BOOLEAN /\ terminate \in BOOLEAN /\ held \subseteq Resources
  /\ mState \in {"Dead", "Initialized", "Started"}
  /\ engine \in [Engines -> {"none", "idle", "running"}]
  /\ ipcPc \in {"off", "listen", "called", "inside", "leaving", "ended"}

\* the nine stages of init() and what they acquire
LEMMA StagesAre ==
  /\ Len(Stages) = 9 /\ DOMAIN Stages = 1 .. 9
  /\ Resources = {"plugin", "environment", "dlt", "driver", "ring", "igb", "ptp", "domains", "watchdog"}
<1>1. Len(Stages) = 9
  BY DEF Stages
<1>2. DOMAIN Stages = 1 .. 9
  BY DEF Stages
<1>3. Resources = {"plugin", "environment", "dlt", "driver", "ring", "igb", "ptp", "domains", "watchdog"}
  <2>1. 1 .. 9 = {1, 2, 3, 4, 5, 6, 7, 8, 9}
    OBVIOUS
  <2>2. /\ Stages[1] = "plugin" /\ Stages[2] = "environment" /\ Stages[3] = "dlt" /\ Stages[4] = "driver"
        /\ Stages[5] = "ring" /\ Stages[6] = "igb" /\ Stages[7] = "ptp" /\ Stages[8] = "domains" /\ Stages[9] = "watchdog"
    BY DEF Stages
  <2> QED
    BY <1>2, <2>1, <2>2 DEF Resources
<1> QED
  BY <1>1, <1>2, <1>3

\* what the types and the state of the engines are proved from
HandlerInv == ControlOK /\ TablesInv /\ MutexInv /\ EnginesInv

\* the type invariant from its parts
LEMMA TypeParts == ControlOK /\ TablesInv /\ MutexInv => TypeOK
<1>1. Len(Stages) + 1 = 10
  BY StagesAre
<1> QED
  BY <1>1, Zenon DEF TypeOK, ControlOK, TablesInv, TablesOK, MutexInv

\* An engine that is created late is idle or runs, as the state of the handler asks for.
LEMMA CreatedIs ==
  ASSUME engine \in [Engines -> {"none", "idle", "running"}], EnginesCreated
  PROVE  /\ engine' \in [Engines -> {"none", "idle", "running"}]
         /\ \A e \in Media : /\ mState = "Started" /\ engine[e] # "idle" => engine'[e] # "idle"
                             /\ mState # "Started" /\ engine[e] # "running" => engine'[e] # "running"
<1>1. PICK e \in Engines : engine' = engine \/ engine' = Created(e)
  BY DEF EnginesCreated
<1>2. CASE engine' = engine
  BY <1>2
<1>3. CASE engine' = Created(e) /\ engine[e] = "none"
  <2>1. engine' = [engine EXCEPT ![e] = IF mState = "Started" \/ e = "video" THEN "running" ELSE "idle"]
    BY <1>3 DEF Created
  <2> QED
    BY <2>1 DEF Media, Engines
<1>4. CASE engine' = Created(e) /\ engine[e] # "none"
  BY <1>4 DEF Created
<1> QED
  BY <1>1, <1>2, <1>3, <1>4

\* Everything init() acquired is released by cleanup().
LEMMA CleanupReleases ==
  ASSUME ControlOK, EnginesInv, Cleanup
  PROVE  /\ held' = {} /\ mState' = "Dead" /\ domains' = {}
         /\ \A e \in Engines : engine'[e] = "none"
         /\ engine' \in [Engines -> {"none", "idle", "running"}]
         /\ \A s \in Slots : net'[s] = Nil
         /\ \A i \in LocalIds : audio'[i] = Nil /\ video'[i] = Nil
<1>1. held' = {}
  BY StagesAre DEF Cleanup, ControlOK, EnginesInv, EnvironmentResources
<1> QED
  BY <1>1 DEF Cleanup

\* There is no engine at first.
LEMMA InitEngines == Init => ControlOK /\ EnginesInv
<1> SUFFICES ASSUME Init PROVE ControlOK /\ EnginesInv
  OBVIOUS
<1>1. /\ mainPc = "init" /\ stage = 1 /\ resuming = FALSE /\ terminate = FALSE /\ held = {} /\ mState = "Dead"
      /\ engine = [e \in Engines |-> "none"] /\ ipcPc = "off"
  BY DEF Init
<1>2. ControlOK
  <2>1. engine \in [Engines -> {"none", "idle", "running"}]
    BY <1>1
  <2>2. resuming \in BOOLEAN /\ terminate \in BOOLEAN /\ held \subseteq Resources
    BY <1>1
  <2> QED
    BY <1>1, <2>1, <2>2 DEF ControlOK, Stopped
<1>3. EnginesInv
  BY <1>1 DEF EnginesInv, Stopped, Media, Engines
<1> QED
  BY <1>2, <1>3

\* The steps of main() that change an engine or the state of the handler.
LEMMA MainKeepsEngines ==
  ASSUME HandlerInv, MainThread, ~Setup
  PROVE  ControlOK' /\ EnginesInv'
<1> USE DEF Main, MainCall, Media, Engines, Stopped, handlerVars, tables
<1>0. ControlOK /\ EnginesInv
  BY DEF HandlerInv
<1>1. ASSUME NEW r \in Resources, Acquire(r)
      PROVE  ControlOK' /\ EnginesInv'
  <2>1. stage \in 1 .. 9
    BY <1>1, StagesAre DEF Acquire
  <2>2. ControlOK'
    BY <1>0, <1>1, <2>1 DEF Acquire, ControlOK
  <2>3. EnginesInv'
    BY <1>0, <1>1 DEF Acquire, EnginesInv
  <2> QED
    BY <2>2, <2>3
<1>2. CASE InitStage
  <2>1. \E r \in Resources : Acquire(r)
    BY <1>2, StagesAre DEF InitStage, LoadPlugin, CreateEnvironment, RegisterDltContexts, LoadClockDriver, SetTxRingSize,
       CreateIgbDevice, CreatePtpProxy, CreateClockDomains, CreateWatchdog
  <2> QED
    BY <1>1, <2>1
<1>3. CASE InitFails \/ SetupFails \/ Delete
  <2>1. /\ held' = {} /\ mState' = "Dead" /\ domains' = {}
        /\ \A e \in Engines : engine'[e] = "none"
        /\ engine' \in [Engines -> {"none", "idle", "running"}]
        /\ \A s \in Slots : net'[s] = Nil
        /\ \A i \in LocalIds : audio'[i] = Nil /\ video'[i] = Nil
    BY <1>0, <1>3, CleanupReleases DEF InitFails, SetupFails, Delete
  <2>2. /\ mainPc' \in {"spawn", "deleted"} /\ ipcPc' = ipcPc
        /\ resuming' = resuming /\ terminate' = terminate /\ stage' \in {0, stage}
    BY <1>3 DEF InitFails, SetupFails, Delete
  <2>3. ControlOK'
    BY <1>0, <2>1, <2>2 DEF ControlOK
  <2>4. EnginesInv'
    BY <2>1, <2>2 DEF EnginesInv
  <2> QED
    BY <2>3, <2>4
<1>4. CASE Initialized \/ SetupEnds \/ Spawn \/ CheckStartup \/ ActivateMutexHandling \/ Exit
  <2>1. ControlOK'
    BY <1>0, <1>4 DEF ControlOK, Initialized, SetupEnds, Spawn, CheckStartup, ActivateMutexHandling, Exit
  <2>2. EnginesInv'
    BY <1>0, <1>4 DEF EnginesInv, Initialized, SetupEnds, Spawn, CheckStartup, ActivateMutexHandling, Exit
  <2> QED
    BY <2>1, <2>2
<1>5. CASE StartEnters \/ StartFails \/ StartLeaves
  <2>1. ControlOK'
    BY <1>0, <1>5 DEF ControlOK, StartEnters, StartFails, StartLeaves
  <2>2. EnginesInv'
    BY <1>0, <1>5 DEF EnginesInv, StartEnters, StartFails, StartLeaves
  <2> QED
    BY <2>1, <2>2
<1>6. CASE StartTransmit \/ StartReceive \/ StartAlsa
  <2>1. ControlOK'
    BY <1>0, <1>6 DEF ControlOK, StartTransmit, StartReceive, StartAlsa, EngineStarts
  <2>2. EnginesInv'
    BY <1>0, <1>6 DEF ControlOK, EnginesInv, StartTransmit, StartReceive, StartAlsa, EngineStarts
  <2> QED
    BY <2>1, <2>2
<1>7. CASE StopEnters \/ StopLeaves
  <2>1. ControlOK'
    BY <1>0, <1>7 DEF ControlOK, StopEnters, StopLeaves
  <2>2. EnginesInv'
    BY <1>0, <1>7 DEF ControlOK, EnginesInv, StopEnters, StopLeaves
  <2> QED
    BY <2>1, <2>2
<1>8. CASE StopAlsa \/ StopTransmit \/ StopReceive
  <2>1. ControlOK'
    BY <1>0, <1>8 DEF ControlOK, StopAlsa, StopTransmit, StopReceive, EngineStops
  <2>2. EnginesInv'
    BY <1>0, <1>8 DEF ControlOK, EnginesInv, StopAlsa, StopTransmit, StopReceive, EngineStops
  <2> QED
    BY <2>1, <2>2
<1> QED
  BY <1>2, <1>3, <1>4, <1>5, <1>6, <1>7, <1>8, Zenon DEF MainThread

\* A call creates an engine as the state of the handler asks for.
LEMMA CallKeepsEngines ==
  ASSUME HandlerInv, "tones" \in Assume, Setup \/ CallExecutes
  PROVE  ControlOK' /\ EnginesInv'
<1>1. engine \in [Engines -> {"none", "idle", "running"}] /\ MutexInv /\ TablesInv
  BY DEF HandlerInv, ControlOK
<1>2. EnginesCreated
  <2>1. Query => EnginesCreated
    BY DEF Query, EnginesCreated, Engines
  <2>2. Setup => EnginesCreated
    BY <1>1, SetupKeeps, Zenon DEF CallKeeps
  <2>3. CallExecutes => EnginesCreated
    BY <1>1, <2>1, CommandKeeps, Zenon DEF CallExecutes, Execute, CallKeeps
  <2> QED
    BY <2>2, <2>3
<1>3. /\ engine' \in [Engines -> {"none", "idle", "running"}]
      /\ \A e \in Media : /\ mState = "Started" /\ engine[e] # "idle" => engine'[e] # "idle"
                          /\ mState # "Started" /\ engine[e] # "running" => engine'[e] # "running"
  BY <1>1, <1>2, CreatedIs
<1>4. /\ mainPc' = mainPc /\ stage' = stage /\ resuming' = resuming /\ terminate' = terminate /\ held' = held
      /\ mState' = mState /\ ipcPc' \in {ipcPc, "leaving"}
  BY DEF Setup, CallExecutes, Main, mainVars
<1>5. mainPc \in {"setup", "wait", "stop", "delete"}
  <2>1. CASE Setup
    BY <2>1 DEF Setup, Main
  <2>2. CASE CallExecutes
    <3>1. ipcPc = "inside"
      BY <2>2 DEF CallExecutes
    <3>2. "ipc" \in inside /\ mutexOn /\ mainPc \in AfterActivation /\ Alive /\ inside = {"ipc"}
      BY <1>1, <3>1 DEF MutexInv
    <3>3. "main" \notin inside
      BY <3>2
    <3> QED
      BY <1>1, <3>2, <3>3 DEF MutexInv
  <2> QED
    BY <2>1, <2>2
<1>6. ControlOK'
  BY <1>3, <1>4 DEF HandlerInv, ControlOK
<1>7. EnginesInv'
  BY <1>3, <1>4, <1>5 DEF HandlerInv, EnginesInv, Stopped
<1> QED
  BY <1>6, <1>7

\* every step keeps the invariant of the handler
LEMMA StepKeepsHandler ==
  ASSUME HandlerInv, {"startup", "shutdown", "tones"} \subseteq Assume, [Next]_vars
  PROVE  HandlerInv'
<1>0. "tones" \in Assume /\ {"startup", "shutdown"} \subseteq Assume /\ ControlOK /\ TablesInv /\ MutexInv /\ EnginesInv
  BY DEF HandlerInv
<1>1. TablesInv' /\ MutexInv'
  BY <1>0, StepKeepsTables, StepKeepsMutex
<1>2. ControlOK' /\ EnginesInv'
  <2>1. CASE MainThread \/ CallExecutes
    BY <1>0, <2>1, MainKeepsEngines, CallKeepsEngines, Zenon
  <2>2. CASE HandleRead \/ ServerEnds \/ CallEnters \/ CallLeaves \/ UNCHANGED vars
    <3>1. UNCHANGED <<mainVars, handlerVars>> /\ ipcPc' \in {ipcPc, "listen", "called", "inside", "ended"}
      BY <2>2 DEF HandleRead, ServerEnds, CallEnters, CallLeaves, vars
    <3>2. ControlOK'
      BY <1>0, <3>1 DEF ControlOK, mainVars, handlerVars
    <3>3. EnginesInv'
      BY <1>0, <3>1 DEF EnginesInv, mainVars, handlerVars, tables
    <3> QED
      BY <3>2, <3>3
  <2>3. CASE \E s \in {"TERM", "USR1", "USR2"} : Signal(s)
    <3>1. ControlOK'
      BY <1>0, <2>3 DEF Signal, ControlOK, Stopped, handlerVars
    <3>2. EnginesInv'
      BY <1>0, <2>3 DEF Signal, EnginesInv, Stopped, handlerVars, tables
    <3> QED
      BY <3>1, <3>2
  <2> QED
    BY <2>1, <2>2, <2>3 DEF Next, Server, Ended
<1> QED
  BY <1>1, <1>2, Zenon DEF HandlerInv

\* The engines follow the state of the handler, and nothing outlives it: outside start() and
\* stop() a started handler has no engine that was created and never started, a handler that is
\* not started has none that runs, and cleanup() releases all that init() acquired (start(),
\* stop(), createTransmitEngine() and its siblings, cleanup()).
THEOREM EnginesAreInStep ==
  ASSUME {"startup", "shutdown", "tones"} \subseteq Assume
  PROVE  Spec => []EnginesFollowState
<1>1. Init => HandlerInv
  BY InitTables, InitMutex, InitEngines, Zenon DEF HandlerInv
<1>2. HandlerInv /\ [Next]_vars => HandlerInv'
  BY StepKeepsHandler, Zenon
<1>3. HandlerInv => EnginesFollowState
  <2> SUFFICES ASSUME HandlerInv PROVE EnginesFollowState
    OBVIOUS
  <2>1. TypeOK
    BY TypeParts DEF HandlerInv
  <2>2. EnginesInv
    BY DEF HandlerInv
  <2>3. ~Alive => NetworkStreams = {} /\ AudioInUse \cup VideoInUse = {}
    BY <2>2 DEF EnginesInv, NetworkStreams, AudioInUse, VideoInUse
  <2>4. ~Alive => held = {} /\ domains = {} /\ \A e \in Engines : engine[e] = "none"
    BY <2>2 DEF EnginesInv
  <2>5. \A e \in {"tx", "rx", "alsa"} :
          /\ mainPc \in {"activate", "wait"} /\ mState = "Started" => engine[e] # "idle"
          /\ mState # "Started" /\ mainPc \in (Stopped \ {"delete"}) \cup {"wait"} => engine[e] # "running"
    BY <2>2 DEF EnginesInv, Media
  <2> QED
    BY <2>1, <2>3, <2>4, <2>5 DEF EnginesFollowState
<1> QED
  BY <1>1, <1>2, <1>3, PTL DEF Spec

=============================================================================
