---------------------- MODULE TransmitSequencerProofs ----------------------
(***************************************************************************)
(* Safety of activating, deactivating and destroying transmit streams and  *)
(* the bandwidth they reserve, for any set of streams, pool size and       *)
(* number of requests under way.                                           *)
(***************************************************************************)
EXTENDS TransmitSequencer, FiniteSetTheorems, NaturalsInduction, WellFoundedInduction, TLAPS

(* The inductive invariant. *)

\* what the API call under way has done to mActiveStreams so far
CallInv ==
  /\ apiPc \in {"insert", "requestInsert", "activate", "erase", "requestErase", "check",
                "wait", "removed"} => apiStream \in mAvbStreams
  /\ apiPc \in {"requestInsert", "activate", "erase"} => apiStream \in mActiveStreams
  /\ apiPc \in {"requestErase", "check", "wait", "removed"} => apiStream \notin mActiveStreams
  /\ mActiveStreams \subseteq mAvbStreams

\* The handshake: a stream that is erased but still in the sequence is that of
\* the call under way, and the request that will remove it is not answered. A
\* copy that was taken before the erase is answered by an earlier request.
Unanswered(n) ==
  \/ apiPc = "requestErase" /\ outstanding >= n
  \/ apiPc \in {"check", "wait"} /\ outstanding >= n + 1
  \/ apiPc = "insert"

HandshakeInv ==
  /\ \A s \in mSequence \ mActiveStreams : s = apiStream /\ Unanswered(0)
  /\ workerPc = "respond" =>
       outstanding >= 1 /\ \A s \in mSequence \ mActiveStreams : Unanswered(1)
  /\ workerPc \in {"off", "started", "entered", "outer", "head", "reset"} => mSequence = {}
  /\ ~mRunning => workerPc = "off"

\* the worker toggles only streams it may touch, under mLock after a restart
ToggleInv ==
  /\ toReset \subseteq mActiveStreams
  /\ toReset # {} => workerPc \in {"reset", "toggle"} /\ mSequence = {}
  /\ workerPc = "toggle" => workerStream \in (IF toReset = {} THEN mSequence ELSE toReset)
  /\ workerPc = "fetch" => workerStream \in mSequence
  /\ workerStream # NoStream => workerPc \in {"toggle", "fetch", "flag", "store"}
  /\ workerPc \in {"flag", "store"} /\ workerStream # NoStream => workerStream \in mSequence

\* mActive and mActiveStreams differ only for the stream of the call under
\* way and for the one the worker is toggling
FlagInv ==
  \A s \in Streams :
    /\ s \in mActiveStreams /\ ~mActive[s] =>
         \/ workerPc = "toggle" /\ workerStream = s
         \/ apiPc \in {"erase", "requestInsert", "activate"} /\ apiStream = s
    /\ s \notin mActiveStreams /\ mActive[s] =>
         apiPc \in {"requestErase", "check", "wait", "removed", "insert"} /\ apiStream = s

SafetyInv == TypeOK /\ CallInv /\ HandshakeInv /\ ToggleInv /\ FlagInv

\* where packets can be
PacketInv ==
  /\ PacketsConserved
  /\ \A s \in Streams \ mAvbStreams : doubled[s] = 0 /\ lost[s] = 0
  /\ \A s \in Streams \ mAvbStreams : queued[s] = 0
  /\ \A s \in Streams \ mSequence : packet[s] = "none"

\* the bandwidth of a set of streams
BandwidthOf(S) == MapThenSumSet(LAMBDA s : Bandwidth[s], S)

\* what is reserved: the bandwidth of the active streams, and that of the stream of a
\* call that has reserved it already or has still to release it
BandwidthInv ==
  /\ IsFiniteSet(mActiveStreams)
  /\ apiPc = "insert" => apiStream \notin mActiveStreams
  /\ mCurrentBandwidth = BandwidthOf(mActiveStreams)
       + IF apiPc \in {"insert", "requestErase", "check", "wait", "removed"}
         THEN Bandwidth[apiStream] ELSE 0

----------------------------------------------------------------------------
(* Sums over finite sets of streams. *)

USE TransmitConstants

\* the stream a sum takes out of s next
Picked(s) == CHOOSE x \in s : TRUE

\* g is the sum of the bandwidths for the sets in D
Sums(g, D) ==
  \A s \in D : g[s] = IF s = {} THEN 0 ELSE Bandwidth[Picked(s)] + g[s \ {Picked(s)}]

\* Every nonempty set of natural numbers has a least element.
LEMMA LeastNatural ==
  ASSUME NEW T \in SUBSET Nat, T # {}
  PROVE  \E x \in T : \A y \in T : x <= y
<1> DEFINE R == {ss \in Nat \X Nat : ss[1] < ss[2]}
<1>1. IsWellFoundedOn(R, Nat)
  BY NatLessThanWellFounded, Zenon DEF OpToRel
<1>2. PICK x \in T : \A y \in T : ~(<<y, x>> \in R)
  <2> HIDE DEF R
  <2> QED  BY <1>1, WFMin, Zenon
<1>3. \A y \in T : ~(y < x)
  BY <1>2
<1> QED  BY <1>3

\* A stream that is taken out of a finite set is in it, and leaves a smaller set.
LEMMA PickedLeavesLess ==
  ASSUME NEW s \in SUBSET Streams, IsFiniteSet(s), NEW x \in s
  PROVE  /\ Picked(s) \in s /\ IsFiniteSet(s \ {x})
         /\ Cardinality(s) \in Nat /\ Cardinality(s \ {x}) \in Nat
         /\ Cardinality(s \ {x}) = Cardinality(s) - 1
<1>1. Picked(s) \in s
  BY DEF Picked
<1>2. IsFiniteSet(s \ {x}) /\ Cardinality(s \ {x}) = Cardinality(s) - 1
  BY FS_RemoveElement, Zenon
<1> QED  BY <1>1, <1>2, FS_CardinalityType

\* The sums over the subsets of a finite set exist, whatever order they are taken in:
\* those of the sets with n members are made from those of the sets with fewer.
LEMMA SumsExist ==
  ASSUME NEW T \in SUBSET Streams, IsFiniteSet(T)
  PROVE  \E g \in [SUBSET T -> Nat] : Sums(g, SUBSET T)
<1> DEFINE Small(n) == {s \in SUBSET T : Cardinality(s) <= n}
           Bad == {n \in Nat : ~\E g \in [Small(n) -> Nat] : Sums(g, Small(n))}
<1>0. \A s \in SUBSET T : IsFiniteSet(s) /\ Cardinality(s) \in Nat /\ Cardinality(s) <= Cardinality(T)
  BY FS_Subset, FS_CardinalityType
<1>1. Bad = {}
  <2> SUFFICES ASSUME Bad # {} PROVE FALSE
    OBVIOUS
  <2>1. PICK m \in Bad : \A k \in Bad : m <= k
    <3>1. Bad \in SUBSET Nat
      OBVIOUS
    <3> HIDE DEF Bad
    <3> QED  BY <3>1, LeastNatural, Zenon
  <2>2. \E g \in [Small(m) -> Nat] : Sums(g, Small(m))
    <3>1. CASE m = 0
      <4> DEFINE g == [s \in Small(m) |-> 0]
      <4>1. \A s \in Small(m) : s = {}
        <5> SUFFICES ASSUME NEW s \in Small(m) PROVE s = {}
          OBVIOUS
        <5>1. IsFiniteSet(s) /\ Cardinality(s) = 0
          BY <1>0, <3>1
        <5> QED  BY <5>1, FS_EmptySet
      <4>2. g \in [Small(m) -> Nat] /\ Sums(g, Small(m))
        BY <4>1 DEF Sums
      <4> QED  BY <4>2
    <3>2. CASE m # 0
      <4>1. m \in Nat /\ m - 1 \in Nat /\ m - 1 \notin Bad
        <5>1. m \in Nat
          OBVIOUS
        <5>2. m - 1 \in Nat
          BY <5>1, <3>2
        <5> HIDE DEF Bad
        <5> QED  BY <5>1, <5>2, <2>1
      <4>2. PICK g \in [Small(m - 1) -> Nat] : Sums(g, Small(m - 1))
        BY <4>1
      <4> DEFINE Next1(s) == IF s = {} THEN 0 ELSE Bandwidth[Picked(s)] + g[s \ {Picked(s)}]
                 h == [s \in Small(m) |-> Next1(s)]
      <4>3. ASSUME NEW s \in Small(m), s # {}
            PROVE  /\ s \ {Picked(s)} \in Small(m - 1) /\ s \ {Picked(s)} \in Small(m)
                   /\ Picked(s) \in Streams
        <5>1. IsFiniteSet(s) /\ Cardinality(s) <= m /\ s \in SUBSET T /\ s \in SUBSET Streams
          BY <1>0
        <5>2. PICK x : x \in s
          BY <4>3
        <5>3. Picked(s) \in s
          BY <5>1, <5>2, PickedLeavesLess
        <5>4. /\ Cardinality(s) \in Nat /\ Cardinality(s \ {Picked(s)}) \in Nat
              /\ Cardinality(s \ {Picked(s)}) = Cardinality(s) - 1
          BY <5>1, <5>3, PickedLeavesLess
        <5>5. /\ Cardinality(s \ {Picked(s)}) <= m - 1
              /\ Cardinality(s \ {Picked(s)}) <= m
          BY <5>1, <5>4, <4>1
        <5> QED  BY <5>1, <5>3, <5>5
      <4>4. \A s \in Small(m - 1) : s \in Small(m) /\ g[s] = Next1(s)
        <5> SUFFICES ASSUME NEW s \in Small(m - 1)
                     PROVE  s \in Small(m) /\ g[s] = Next1(s)
          OBVIOUS
        <5>1. s \in Small(m)
          <6>1. Cardinality(s) \in Nat /\ Cardinality(s) <= m - 1
            BY <1>0
          <6> QED  BY <6>1, <4>1
        <5>2. g[s] = Next1(s)
          BY <4>2 DEF Sums
        <5> QED  BY <5>1, <5>2
      <4>5. h \in [Small(m) -> Nat]
        <5> SUFFICES ASSUME NEW s \in Small(m) PROVE Next1(s) \in Nat
          OBVIOUS
        <5>1. CASE s = {}
          BY <5>1
        <5>2. CASE s # {}
          <6>1. g[s \ {Picked(s)}] \in Nat /\ Bandwidth[Picked(s)] \in Nat
            <7> HIDE DEF Small
            <7> QED  BY <5>2, <4>3
          <6> QED  BY <6>1, <5>2
        <5> QED  BY <5>1, <5>2
      <4>6. Sums(h, Small(m))
        <5> SUFFICES ASSUME NEW s \in Small(m)
                     PROVE  h[s] = IF s = {} THEN 0 ELSE Bandwidth[Picked(s)] + h[s \ {Picked(s)}]
          BY DEF Sums
        <5>1. CASE s = {}
          <6> HIDE DEF Small
          <6> QED  BY <5>1
        <5>2. CASE s # {}
          <6>1. s \ {Picked(s)} \in Small(m - 1) /\ s \ {Picked(s)} \in Small(m)
            BY <5>2, <4>3
          <6>2. h[s \ {Picked(s)}] = g[s \ {Picked(s)}]
            <7> HIDE DEF Small
            <7>1. h[s \ {Picked(s)}] = Next1(s \ {Picked(s)})
              BY <6>1
            <7> QED  BY <7>1, <6>1, <4>4
          <6>3. h[s] = Next1(s)
            <7> HIDE DEF Small
            <7> QED  OBVIOUS
          <6> QED  BY <5>2, <6>2, <6>3
        <5> QED  BY <5>1, <5>2
      <4> QED  BY <4>5, <4>6
    <3> QED  BY <3>1, <3>2
  <2> QED  BY <2>1, <2>2
<1>2. Cardinality(T) \in Nat /\ Small(Cardinality(T)) = SUBSET T
  BY <1>0, FS_CardinalityType
<1> QED  BY <1>1, <1>2

\* A sum may take out any stream first.
LEMMA SumsRemove ==
  ASSUME NEW T \in SUBSET Streams, IsFiniteSet(T), NEW g \in [SUBSET T -> Nat], Sums(g, SUBSET T)
  PROVE  \A s \in SUBSET T : \A x \in s : g[s] = Bandwidth[x] + g[s \ {x}]
<1> DEFINE Bad == {n \in Nat : \E s \in SUBSET T : \E x \in s :
                      Cardinality(s) = n /\ g[s] # Bandwidth[x] + g[s \ {x}]}
<1>0. \A s \in SUBSET T : IsFiniteSet(s) /\ Cardinality(s) \in Nat
  BY FS_Subset, FS_CardinalityType
<1>1. Bad = {}
  <2> SUFFICES ASSUME Bad # {} PROVE FALSE
    OBVIOUS
  <2>1. PICK m \in Bad : \A k \in Bad : m <= k
    <3>1. Bad \in SUBSET Nat
      OBVIOUS
    <3> HIDE DEF Bad
    <3> QED  BY <3>1, LeastNatural, Zenon
  <2>2. PICK s \in SUBSET T : \E x \in s :
             Cardinality(s) = m /\ g[s] # Bandwidth[x] + g[s \ {x}]
    OBVIOUS
  <2>3. PICK x \in s : Cardinality(s) = m /\ g[s] # Bandwidth[x] + g[s \ {x}]
    BY <2>2
  <2> DEFINE c == Picked(s)
  <2>4. /\ c \in s /\ IsFiniteSet(s) /\ s \in SUBSET Streams
        /\ Cardinality(s \ {c}) = m - 1 /\ Cardinality(s \ {x}) = m - 1 /\ m - 1 \in Nat
    <3>1. IsFiniteSet(s) /\ s \in SUBSET Streams
      BY <1>0
    <3>2. c \in s
      BY <3>1, PickedLeavesLess
    <3> HIDE DEF c
    <3> QED  BY <3>1, <3>2, <2>3, PickedLeavesLess
  <2>5. g[s] = Bandwidth[c] + g[s \ {c}]
    BY <2>3 DEF Sums
  <2> HIDE DEF c
  <2>6. c # x
    BY <2>3, <2>5
  <2>7. ASSUME NEW t \in SUBSET T, NEW y \in t, Cardinality(t) = m - 1
        PROVE  g[t] = Bandwidth[y] + g[t \ {y}]
    <3> SUFFICES ASSUME g[t] # Bandwidth[y] + g[t \ {y}] PROVE FALSE
      OBVIOUS
    <3>1. m - 1 \in Bad
      BY <2>7, <2>4
    <3>2. m \in Nat
      OBVIOUS
    <3> HIDE DEF Bad
    <3> QED  BY <3>1, <3>2, <2>1
  <2>8. g[s \ {c}] = Bandwidth[x] + g[(s \ {c}) \ {x}]
    BY <2>7, <2>4, <2>6
  <2>9. g[s \ {x}] = Bandwidth[c] + g[(s \ {x}) \ {c}]
    BY <2>7, <2>4, <2>6
  <2>10. (s \ {c}) \ {x} = (s \ {x}) \ {c}
    OBVIOUS
  <2>11. /\ Bandwidth[c] \in Nat /\ Bandwidth[x] \in Nat
         /\ g[(s \ {c}) \ {x}] \in Nat
    <3>1. c \in Streams /\ x \in Streams /\ (s \ {c}) \ {x} \in SUBSET T
      BY <2>4
    <3> QED  BY <3>1
  <2>12. g[s] = Bandwidth[x] + g[s \ {x}]
    <3>1. PICK r \in Nat : r = g[(s \ {c}) \ {x}]
      BY <2>11
    <3>2. PICK bc \in Nat : bc = Bandwidth[c]
      BY <2>11
    <3>3. PICK bx \in Nat : bx = Bandwidth[x]
      BY <2>11
    <3>4. g[s \ {c}] = bx + r /\ g[s \ {x}] = bc + r
      BY <2>8, <2>9, <2>10, <3>1, <3>2, <3>3
    <3>5. g[s] = bc + (bx + r)
      BY <2>5, <3>2, <3>4
    <3> QED  BY <3>3, <3>4, <3>5
  <2> QED  BY <2>3, <2>12
<1>2. \A s \in SUBSET T : \A x \in s : Cardinality(s) \in Nat
  BY <1>0
<1> QED  BY <1>1, <1>2

\* Two sums agree where both are defined.
LEMMA SumsAgree ==
  ASSUME NEW T \in SUBSET Streams, IsFiniteSet(T), NEW U \in SUBSET T, NEW g, NEW h,
         Sums(g, SUBSET T), Sums(h, SUBSET U)
  PROVE  g[U] = h[U]
<1> DEFINE Bad == {n \in Nat : \E s \in SUBSET U : Cardinality(s) = n /\ g[s] # h[s]}
<1>0. \A s \in SUBSET U : IsFiniteSet(s) /\ Cardinality(s) \in Nat /\ s \in SUBSET T
  BY FS_Subset, FS_CardinalityType
<1>1. Bad = {}
  <2> SUFFICES ASSUME Bad # {} PROVE FALSE
    OBVIOUS
  <2>1. PICK m \in Bad : \A k \in Bad : m <= k
    <3>1. Bad \in SUBSET Nat
      OBVIOUS
    <3> HIDE DEF Bad
    <3> QED  BY <3>1, LeastNatural, Zenon
  <2>2. PICK s \in SUBSET U : Cardinality(s) = m /\ g[s] # h[s]
    OBVIOUS
  <2>3. /\ g[s] = IF s = {} THEN 0 ELSE Bandwidth[Picked(s)] + g[s \ {Picked(s)}]
        /\ h[s] = IF s = {} THEN 0 ELSE Bandwidth[Picked(s)] + h[s \ {Picked(s)}]
    BY <1>0 DEF Sums
  <2>4. s # {}
    BY <2>2, <2>3
  <2>5. /\ Picked(s) \in s /\ Cardinality(s \ {Picked(s)}) = m - 1 /\ m - 1 \in Nat
    <3>1. IsFiniteSet(s) /\ s \in SUBSET Streams
      BY <1>0
    <3>2. Picked(s) \in s
      BY <2>4 DEF Picked
    <3> QED  BY <3>1, <3>2, <2>2, PickedLeavesLess
  <2>6. g[s \ {Picked(s)}] = h[s \ {Picked(s)}]
    <3> SUFFICES ASSUME g[s \ {Picked(s)}] # h[s \ {Picked(s)}] PROVE FALSE
      OBVIOUS
    <3>1. m - 1 \in Bad
      BY <2>5
    <3>2. m \in Nat
      OBVIOUS
    <3> HIDE DEF Bad
    <3> QED  BY <3>1, <3>2, <2>1
  <2> QED  BY <2>2, <2>3, <2>6
<1> QED  BY <1>0, <1>1

\* The operator of the model computes such a sum.
LEMMA BandwidthIsSum ==
  ASSUME NEW T \in SUBSET Streams, IsFiniteSet(T)
  PROVE  \E g \in [SUBSET T -> Nat] : Sums(g, SUBSET T) /\ BandwidthOf(T) = g[T]
<1>1. PICK g \in [SUBSET T -> Nat] : Sums(g, SUBSET T)
  BY SumsExist
<1> DEFINE Defines(f) ==
      f = [s \in SUBSET T |->
             IF s = {} THEN 0 ELSE Bandwidth[Picked(s)] + f[s \ {Picked(s)}]]
           f1 == CHOOSE f : Defines(f)
<1>2. BandwidthOf(T) = f1[T]
  BY Zenon DEF BandwidthOf, MapThenSumSet, MapThenFoldSet, Picked
<1>3. Defines(g)
  BY <1>1 DEF Sums
<1>4. Defines(f1)
  BY <1>3
<1> HIDE DEF f1
<1>5. Sums(f1, SUBSET T)
  BY <1>4 DEF Sums
<1>6. f1[T] = g[T]
  BY <1>1, <1>5, SumsAgree
<1> QED  BY <1>1, <1>2, <1>6

\* The bandwidth of a set with one stream less.
LEMMA BandwidthRemove ==
  ASSUME NEW T \in SUBSET Streams, IsFiniteSet(T), NEW x \in T
  PROVE  BandwidthOf(T) = Bandwidth[x] + BandwidthOf(T \ {x}) /\ BandwidthOf(T \ {x}) \in Nat
<1> DEFINE U == T \ {x}
<1>1. U \in SUBSET T /\ U \in SUBSET Streams /\ IsFiniteSet(U)
  BY FS_RemoveElement
<1> HIDE DEF U
<1>2. PICK g \in [SUBSET T -> Nat] : Sums(g, SUBSET T) /\ BandwidthOf(T) = g[T]
  BY BandwidthIsSum
<1>3. PICK h \in [SUBSET U -> Nat] : Sums(h, SUBSET U) /\ BandwidthOf(U) = h[U]
  BY <1>1, BandwidthIsSum
<1>4. g[U] = h[U]
  BY <1>1, <1>2, <1>3, SumsAgree
<1>5. g[T] = Bandwidth[x] + g[U]
  BY <1>2, SumsRemove DEF U
<1>6. h[U] \in Nat
  BY <1>3
<1>7. BandwidthOf(T) = Bandwidth[x] + BandwidthOf(U) /\ BandwidthOf(U) \in Nat
  BY <1>2, <1>3, <1>4, <1>5, <1>6
<1> QED  BY <1>7 DEF U

----------------------------------------------------------------------------
(* Every action preserves the invariant. *)

USE DEF engineVars, apiVars, workerVars, packetVars, errorVars, sharedVars

\* The first step of an API call keeps the invariant: creating a stream, reserving
\* bandwidth for it (addStreamToTransmitList), deactivating or deleting it, starting
\* and stopping the engine.
LEMMA CallKeepsSafety ==
  ASSUME AtomicToggle, SafetyInv, Call
  PROVE  SafetyInv'
<1> USE DEF SafetyInv, TypeOK, CallInv, HandshakeInv, Unanswered, ToggleInv, FlagInv
<1>1. ASSUME NEW s \in Streams, CreateStream(s)
     PROVE  SafetyInv'
  BY <1>1 DEF CreateStream
<1>2. ASSUME NEW s \in Streams, ActivateAvbStream(s)
     PROVE  SafetyInv'
  BY <1>2 DEF ActivateAvbStream, Reserve, Settled
<1>3. ASSUME NEW s \in Streams, DestroyInactive(s)
     PROVE  SafetyInv'
  BY <1>3 DEF DestroyInactive, Settled, Delete
<1>4. ASSUME NEW s \in Streams, NEW destroy \in BOOLEAN, DeactivateAvbStream(s, destroy)
     PROVE  SafetyInv'
  BY <1>4 DEF DeactivateAvbStream, Settled
<1>5. ASSUME NEW succeeds \in BOOLEAN, Start(succeeds)
     PROVE  SafetyInv'
  BY <1>5 DEF Start
<1>6. CASE Stop
  <2>1. TypeOK'
    BY <1>6 DEF Stop
  <2>2. CallInv' /\ HandshakeInv'
    BY <1>6 DEF Stop
  <2>3. ToggleInv' /\ FlagInv'
    BY <1>6 DEF Stop
  <2> QED  BY <2>1, <2>2, <2>3
<1> QED  BY <1>1, <1>2, <1>3, <1>4, <1>5, <1>6 DEF Call

\* So do the later steps of a call: the changes of mActiveStreams under mLock, the
\* increments of mRequestCount, the wait of removeStreamFromTransmitList for the
\* response, and what deactivateAvbStream and destroyAvbStream do once it came.
LEMMA ApiStepKeepsSafety ==
  ASSUME AtomicToggle, SafetyInv, ApiStep
  PROVE  SafetyInv'
<1> USE DEF SafetyInv, TypeOK, CallInv, HandshakeInv, Unanswered, ToggleInv, FlagInv
<1>1. CASE InsertStream
  BY <1>1 DEF InsertStream, MLockFree
<1>2. CASE RequestInsert
  BY <1>2 DEF RequestInsert
<1>3. CASE FinishActivate
  BY <1>3 DEF FinishActivate
<1>4. CASE EraseStream
  BY <1>4 DEF EraseStream, MLockFree
<1>5. CASE RequestErase
  BY <1>5 DEF RequestErase
<1>6. CASE CheckRunning
  BY <1>6 DEF CheckRunning
<1>7. CASE WaitResponse
  BY <1>7 DEF WaitResponse
<1>8. CASE FinishRemove
  <2>1. TypeOK'
    <3>1. apiStream \in Streams /\ mCurrentBandwidth' \in Int
      BY <1>8 DEF FinishRemove, Release
    <3>2. free' \in [Streams -> 0..(PoolSize + 1)] /\ queued' \in [Streams -> Nat]
      BY <1>8, <3>1 DEF FinishRemove, Delete
    <3>3. mAvbStreams' \subseteq Streams
      BY <1>8 DEF FinishRemove, Delete
    <3>4. doubled' \in [Streams -> Nat] /\ lost' \in [Streams -> Nat]
      BY <1>8, <3>1 DEF FinishRemove, Delete
    <3> QED  BY <1>8, <3>1, <3>2, <3>3, <3>4 DEF FinishRemove
  <2>2. CallInv' /\ HandshakeInv'
    BY <1>8 DEF FinishRemove, Delete
  <2>3. ToggleInv' /\ FlagInv'
    BY <1>8 DEF FinishRemove
  <2> QED  BY <2>1, <2>2, <2>3
<1>9. CASE RequestStart
  BY <1>9 DEF RequestStart
<1>10. CASE ShutDown
  BY <1>10 DEF ShutDown
<1>11. CASE Join
  BY <1>11 DEF Join
<1> QED  BY <1>1, <1>2, <1>3, <1>4, <1>5, <1>6, <1>7, <1>8, <1>9, <1>10, <1>11 DEF ApiStep

\* So does every step of the worker thread: run, updateSequence and serviceStream.
LEMMA WorkerStepKeepsSafety ==
  ASSUME AtomicToggle, SafetyInv, WorkerStep
  PROVE  SafetyInv'
<1> USE DEF SafetyInv, TypeOK, CallInv, HandshakeInv, Unanswered, ToggleInv, FlagInv
<1>1. CASE BeforeRun
  BY <1>1 DEF BeforeRun
<1>2. CASE EnterRun
  BY <1>2 DEF EnterRun
<1>3. CASE OuterLoop
  BY <1>3 DEF OuterLoop
<1>4. CASE FinishReset
  BY <1>4 DEF FinishReset
<1>5. ASSUME NEW s \in Streams, ResetStream(s)
     PROVE  SafetyInv'
  BY <1>5 DEF ResetStream
<1>6. ASSUME NEW s \in Streams, ServiceEmpty(s)
     PROVE  SafetyInv'
  BY <1>6 DEF ServiceEmpty, Serving, HeldReturned, Returned
<1>7. CASE ReactivateStream
  BY <1>7 DEF ReactivateStream
<1>8. ASSUME NEW retry \in BOOLEAN, FinishToggle(retry)
     PROVE  SafetyInv'
  BY <1>8 DEF FinishToggle, MayRetry
<1>9. CASE InnerLoop
  BY <1>9 DEF InnerLoop
<1>10. CASE UpdateSequence
  BY <1>10 DEF UpdateSequence, HeldReturned, Returned
<1>11. CASE Respond
  BY <1>11 DEF Respond
<1>12. ASSUME NEW changed \in BOOLEAN, LinkUp(changed)
     PROVE  SafetyInv'
  BY <1>12 DEF LinkUp
<1>13. ASSUME NEW left \in Leftovers, LinkDown(left)
     PROVE  SafetyInv'
  BY <1>13 DEF LinkDown, Leftovers, Reclaim, Returned
<1>14. ASSUME NEW left \in Leftovers, EndWindow(left)
     PROVE  SafetyInv'
  BY <1>14 DEF EndWindow, Leftovers, Reclaim, Returned
<1>15. ASSUME NEW left \in Leftovers, ExitInner(left)
     PROVE  SafetyInv'
  BY <1>15 DEF ExitInner, Leftovers, HeldReturned, Returned
<1>16. CASE LoadFlags
  BY <1>16 DEF LoadFlags
<1>17. CASE StoreFlags
  BY <1>17 DEF StoreFlags
<1>18. CASE TimeWarp
  BY <1>18 DEF TimeWarp
<1>19. CASE WorkerFails
  BY <1>19 DEF WorkerFails
<1>20. ASSUME NEW s \in Streams, NEW result \in XmitResults, Send(s, result)
     PROVE  SafetyInv'
  BY <1>20 DEF Send, Serving, HeldReturned, Returned
<1>21. CASE FetchDry
  BY <1>21 DEF FetchDry, Overwrites
<1>22. CASE FetchReset
  BY <1>22 DEF FetchReset, Overwrites
<1>23. ASSUME NEW kind \in {"data", "dummy"}, FetchPacket(kind)
     PROVE  SafetyInv'
  BY <1>23 DEF FetchPacket, Overwrites
<1>24. CASE CheckRestart
  BY <1>24 DEF CheckRestart
<1> QED  BY <1>1, <1>2, <1>3, <1>4, <1>5, <1>6, <1>7, <1>8, <1>9, <1>10, <1>11, <1>12, <1>13,
     <1>14, <1>15, <1>16, <1>17, <1>18, <1>19, <1>20, <1>21, <1>22, <1>23, <1>24 DEF WorkerStep

\* The first step of an API call loses and duplicates no packet: only createTransmit...
\* and destroyAvbStream touch a packet pool.
LEMMA CallKeepsPackets ==
  ASSUME SafetyInv, PacketInv, Call
  PROVE  PacketInv'
<1>0. TypeOK /\ CallInv /\ HandshakeInv /\ ToggleInv
  BY DEF SafetyInv
<1>1. ASSUME NEW s \in Streams, CreateStream(s)
     PROVE  PacketInv'
  BY <1>0, <1>1 DEF CreateStream, PacketInv, PacketsConserved, Places, TypeOK, CallInv, HandshakeInv,
       Unanswered
<1>2. ASSUME NEW s \in Streams, ActivateAvbStream(s)
     PROVE  PacketInv'
  BY <1>0, <1>2 DEF ActivateAvbStream, Settled, PacketInv, PacketsConserved, Places
<1>3. ASSUME NEW s \in Streams, DestroyInactive(s)
     PROVE  PacketInv'
  BY <1>0, <1>3 DEF DestroyInactive, Settled, Delete, PacketInv, PacketsConserved, Places, TypeOK
<1>4. ASSUME NEW s \in Streams, NEW destroy \in BOOLEAN, DeactivateAvbStream(s, destroy)
     PROVE  PacketInv'
  BY <1>0, <1>4 DEF DeactivateAvbStream, Settled, PacketInv, PacketsConserved, Places
<1>5. ASSUME NEW succeeds \in BOOLEAN, Start(succeeds)
     PROVE  PacketInv'
  BY <1>0, <1>5 DEF Start, PacketInv, PacketsConserved, Places
<1>6. CASE Stop
  BY <1>0, <1>6 DEF Stop, PacketInv, PacketsConserved, Places
<1> QED  BY <1>1, <1>2, <1>3, <1>4, <1>5, <1>6 DEF Call

\* Neither does a later step of a call; a stream is deleted only when the sequence
\* has let go of it.
LEMMA ApiStepKeepsPackets ==
  ASSUME SafetyInv, PacketInv, ApiStep
  PROVE  PacketInv'
<1>0. TypeOK /\ CallInv /\ HandshakeInv /\ ToggleInv
  BY DEF SafetyInv
<1>1. CASE InsertStream
  BY <1>0, <1>1 DEF InsertStream, MLockFree, PacketInv, PacketsConserved, Places
<1>2. CASE RequestInsert
  BY <1>0, <1>2 DEF RequestInsert, PacketInv, PacketsConserved, Places
<1>3. CASE FinishActivate
  BY <1>0, <1>3 DEF FinishActivate, PacketInv, PacketsConserved, Places
<1>4. CASE EraseStream
  BY <1>0, <1>4 DEF EraseStream, MLockFree, PacketInv, PacketsConserved, Places
<1>5. CASE RequestErase
  BY <1>0, <1>5 DEF RequestErase, PacketInv, PacketsConserved, Places
<1>6. CASE CheckRunning
  BY <1>0, <1>6 DEF CheckRunning, PacketInv, PacketsConserved, Places
<1>7. CASE WaitResponse
  BY <1>0, <1>7 DEF WaitResponse, PacketInv, PacketsConserved, Places
<1>8. CASE FinishRemove
  BY <1>0, <1>8 DEF FinishRemove, Delete, PacketInv, PacketsConserved, Places, TypeOK
<1>9. CASE RequestStart
  BY <1>0, <1>9 DEF RequestStart, PacketInv, PacketsConserved, Places
<1>10. CASE ShutDown
  BY <1>0, <1>10 DEF ShutDown, PacketInv, PacketsConserved, Places
<1>11. CASE Join
  BY <1>0, <1>11 DEF Join, PacketInv, PacketsConserved, Places
<1> QED  BY <1>1, <1>2, <1>3, <1>4, <1>5, <1>6, <1>7, <1>8, <1>9, <1>10, <1>11 DEF ApiStep

\* One fetch takes a packet out of the pool for each it leaves in the sequence, and loses
\* exactly the packet it overwrites.
LEMMA FetchKeepsPackets ==
  ASSUME TypeOK, CallInv, HandshakeInv, ToggleInv, PacketInv, workerPc = "fetch", Overwrites,
         UNCHANGED <<mAvbStreams, mSequence, queued>>,
         \/ packet' = [packet EXCEPT ![workerStream] = "none"] /\ free' = free
         \/ \E kind \in {"data", "dummy"} :
              /\ free[workerStream] > 0
              /\ packet' = [packet EXCEPT ![workerStream] = kind]
              /\ free' = [free EXCEPT ![workerStream] = @ - 1]
  PROVE  PacketInv'
<1>0. PICK w : w = workerStream
  OBVIOUS
<1>1. w \in Streams /\ w \in mSequence /\ w \in mAvbStreams
  BY <1>0 DEF ToggleInv, TypeOK, CallInv, HandshakeInv, Unanswered
<1>2. /\ doubled' = doubled
      /\ \A s \in Streams \ {w} :
           packet'[s] = packet[s] /\ free'[s] = free[s] /\ queued'[s] = queued[s] /\ lost'[s] = lost[s]
  BY <1>0, <1>1 DEF TypeOK, Overwrites
<1>3. /\ free[w] \in Int /\ queued[w] \in Int /\ lost[w] \in Nat /\ doubled[w] \in Nat
      /\ PoolSize \in Int /\ queued'[w] = queued[w]
  BY <1>0, <1>1 DEF TypeOK
<1>4. \/ packet[w] = "none" /\ lost'[w] = lost[w]
      \/ packet[w] # "none" /\ lost'[w] = lost[w] + 1
  <2>1. lost'[w] = IF packet[w] = "none" THEN lost[w] ELSE lost[w] + 1
    BY <1>0, <1>1 DEF TypeOK, Overwrites
  <2> QED  BY <2>1
<1>5. \/ packet'[w] = "none" /\ free'[w] = free[w]
      \/ packet'[w] # "none" /\ free'[w] = free[w] - 1
  BY <1>0, <1>1 DEF TypeOK
<1>8. PacketsConserved'
  <2> SUFFICES ASSUME NEW s \in mAvbStreams
               PROVE  /\ Places(s)' >= PoolSize - lost'[s]
                      /\ Places(s)' <= PoolSize - lost'[s] + doubled'[s]
    BY DEF PacketsConserved
  <2>1. /\ Places(s) >= PoolSize - lost[s]
        /\ Places(s) <= PoolSize - lost[s] + doubled[s]
    BY DEF PacketInv, PacketsConserved
  <2>2. CASE s = w
    <3> DEFINE held == IF packet[w] = "none" THEN 0 ELSE 1
               heldNext == IF packet'[w] = "none" THEN 0 ELSE 1
    <3>1. lost'[w] = lost[w] + held /\ free'[w] = free[w] - heldNext
      BY <1>3, <1>4, <1>5
    <3>2. Places(w) = free[w] + queued[w] + held /\ Places(w)' = free'[w] + queued'[w] + heldNext
      BY DEF Places
    <3>3. held \in Int /\ heldNext \in Int
      OBVIOUS
    <3> HIDE DEF held, heldNext
    <3> QED  BY <2>1, <2>2, <1>2, <1>3, <3>1, <3>2, <3>3
  <2>3. CASE s # w
    <3>1. s \in Streams \ {w}
      BY <2>3 DEF TypeOK
    <3> QED  BY <2>1, <3>1, <1>2 DEF Places
  <2> QED  BY <2>2, <2>3
<1>6. \A s \in Streams \ mAvbStreams' : queued'[s] = 0 /\ doubled'[s] = 0 /\ lost'[s] = 0
  BY <1>1, <1>2 DEF PacketInv
<1>7. \A s \in Streams \ mSequence' : packet'[s] = "none"
  BY <1>1, <1>2 DEF PacketInv
<1> QED  BY <1>6, <1>7, <1>8 DEF PacketInv

\* Nor does the worker, but for the packet kept after a fatal error and the one fetched over:
\* serviceStream, updateSequence, reclaimPackets and the end of the inner loop.
LEMMA WorkerStepKeepsPackets ==
  ASSUME SafetyInv, PacketInv, WorkerStep
  PROVE  PacketInv'
<1>0. TypeOK /\ CallInv /\ HandshakeInv /\ ToggleInv
  BY DEF SafetyInv
<1>1. CASE BeforeRun
  BY <1>0, <1>1 DEF BeforeRun, PacketInv, PacketsConserved, Places
<1>2. CASE EnterRun
  BY <1>0, <1>2 DEF EnterRun, PacketInv, PacketsConserved, Places
<1>3. CASE OuterLoop
  BY <1>0, <1>3 DEF OuterLoop, PacketInv, PacketsConserved, Places
<1>4. CASE FinishReset
  BY <1>0, <1>4 DEF FinishReset, PacketInv, PacketsConserved, Places
<1>5. ASSUME NEW s \in Streams, ResetStream(s)
     PROVE  PacketInv'
  BY <1>0, <1>5 DEF ResetStream, PacketInv, PacketsConserved, Places
<1>6. ASSUME NEW s \in Streams, ServiceEmpty(s)
     PROVE  PacketInv'
  BY <1>0, <1>6 DEF ServiceEmpty, Serving, HeldReturned, Returned, PacketInv, PacketsConserved, Places,
       TypeOK
<1>7. CASE ReactivateStream
  BY <1>0, <1>7 DEF ReactivateStream, PacketInv, PacketsConserved, Places
<1>8. ASSUME NEW retry \in BOOLEAN, FinishToggle(retry)
     PROVE  PacketInv'
  BY <1>0, <1>8 DEF FinishToggle, PacketInv, PacketsConserved, Places
<1>9. CASE InnerLoop
  BY <1>0, <1>9 DEF InnerLoop, PacketInv, PacketsConserved, Places
<1>10. CASE UpdateSequence
  BY <1>0, <1>10 DEF UpdateSequence, HeldReturned, Returned, PacketInv, PacketsConserved, Places, TypeOK
<1>11. CASE Respond
  BY <1>0, <1>11 DEF Respond, PacketInv, PacketsConserved, Places
<1>12. ASSUME NEW changed \in BOOLEAN, LinkUp(changed)
     PROVE  PacketInv'
  BY <1>0, <1>12 DEF LinkUp, PacketInv, PacketsConserved, Places, ToggleInv
<1>13. ASSUME NEW left \in Leftovers, LinkDown(left)
     PROVE  PacketInv'
  BY <1>0, <1>13 DEF LinkDown, Leftovers, Reclaim, Returned, PacketInv, PacketsConserved, Places, TypeOK
<1>14. ASSUME NEW left \in Leftovers, EndWindow(left)
     PROVE  PacketInv'
  BY <1>0, <1>14 DEF EndWindow, Leftovers, Reclaim, Returned, PacketInv, PacketsConserved, Places, TypeOK
<1>15. ASSUME NEW left \in Leftovers, ExitInner(left)
     PROVE  PacketInv'
  BY <1>0, <1>15 DEF ExitInner, Leftovers, HeldReturned, Returned, PacketInv, PacketsConserved, Places,
       TypeOK
<1>16. CASE LoadFlags
  BY <1>0, <1>16 DEF LoadFlags, PacketInv, PacketsConserved, Places
<1>17. CASE StoreFlags
  BY <1>0, <1>17 DEF StoreFlags, PacketInv, PacketsConserved, Places
<1>18. CASE TimeWarp
  BY <1>0, <1>18 DEF TimeWarp, PacketInv, PacketsConserved, Places, ToggleInv
<1>19. CASE WorkerFails
  BY <1>0, <1>19 DEF WorkerFails, PacketInv, PacketsConserved, Places
<1>20. ASSUME NEW s \in Streams, NEW result \in XmitResults, Send(s, result)
     PROVE  PacketInv'
  <2>1. s \in mSequence /\ s \in mAvbStreams /\ packet[s] = "data"
    BY <1>0, <1>20 DEF Send, Serving, TypeOK, CallInv, HandshakeInv, Unanswered
  <2>2. UNCHANGED <<mAvbStreams, mSequence, lost>>
    BY <1>20 DEF Send
  <2>3. \/ /\ queued' = [queued EXCEPT ![s] = @ + 1] /\ packet' = [packet EXCEPT ![s] = "none"]
           /\ free' = free /\ doubled' = doubled
        \/ /\ free' = HeldReturned({s}) /\ doubled' = [doubled EXCEPT ![s] = @ + 1]
           /\ queued' = queued /\ packet' = packet
        \/ UNCHANGED <<free, doubled, queued, packet>>
    BY <1>20, Zenon DEF Send
  <2> QED  BY <1>0, <2>1, <2>2, <2>3 DEF HeldReturned, Returned, PacketInv, PacketsConserved, Places,
                TypeOK
<1>21. CASE FetchDry
  BY <1>0, <1>21, FetchKeepsPackets DEF FetchDry
<1>22. CASE FetchReset
  BY <1>0, <1>22, FetchKeepsPackets DEF FetchReset
<1>23. ASSUME NEW kind \in {"data", "dummy"}, FetchPacket(kind)
     PROVE  PacketInv'
  BY <1>0, <1>23, FetchKeepsPackets DEF FetchPacket
<1>24. CASE CheckRestart
  BY <1>0, <1>24 DEF CheckRestart, PacketInv, PacketsConserved, Places
<1> QED  BY <1>1, <1>2, <1>3, <1>4, <1>5, <1>6, <1>7, <1>8, <1>9, <1>10, <1>11, <1>12, <1>13,
     <1>14, <1>15, <1>16, <1>17, <1>18, <1>19, <1>20, <1>21, <1>22, <1>23, <1>24 DEF WorkerStep

\* A transmit engine that was just initialised satisfies the invariants.
LEMMA InitSafety == Init => SafetyInv /\ PacketInv
<1> SUFFICES ASSUME Init PROVE SafetyInv /\ PacketInv
  OBVIOUS
<1>1. TypeOK
  <2>1. mActive \in [Streams -> BOOLEAN]
    BY Zenon DEF Init
  <2>2. /\ packet \in [Streams -> {"none", "data", "dummy"}]
        /\ free \in [Streams -> 0..(PoolSize + 1)] /\ queued \in [Streams -> Nat]
        /\ doubled \in [Streams -> Nat] /\ lost \in [Streams -> Nat]
    BY DEF Init
  <2>3. /\ resetCnt \in 0..MaxResetCount /\ mCurrentBandwidth \in Int /\ outstanding \in Nat
    BY DEF Init
  <2>4. mRunning \in BOOLEAN /\ apiDestroys \in BOOLEAN
    BY Zenon DEF Init
  <2> QED  BY <2>1, <2>2, <2>3, <2>4, Zenon DEF Init, TypeOK
<1>2. CallInv /\ HandshakeInv /\ ToggleInv /\ FlagInv
  BY DEF Init, CallInv, HandshakeInv, ToggleInv, FlagInv
<1>3. PacketInv
  BY DEF Init, PacketInv, PacketsConserved, Places
<1> QED  BY <1>1, <1>2, <1>3 DEF SafetyInv

\* The invariant of the request and response handshake holds for ever.
LEMMA SafetyIsInvariant ==
  ASSUME AtomicToggle
  PROVE  Spec => []SafetyInv
<1>1. SafetyInv /\ [Next]_vars => SafetyInv'
  <2>1. ASSUME SafetyInv, Next PROVE SafetyInv'
    BY <2>1, CallKeepsSafety, ApiStepKeepsSafety, WorkerStepKeepsSafety DEF Next
  <2>2. ASSUME SafetyInv, UNCHANGED vars PROVE SafetyInv'
    BY <2>2 DEF vars, SafetyInv, TypeOK, CallInv, HandshakeInv, Unanswered, ToggleInv, FlagInv
  <2> QED  BY <2>1, <2>2
<1> QED  BY <1>1, InitSafety, PTL DEF Spec

\* Type correctness of the engine and the sequencer; mResponseCount never overtakes
\* mRequestCount, and serviceStream never resets a stream more often than
\* txWindowMaxResetCount allows.
THEOREM TypeCorrect ==
  ASSUME AtomicToggle
  PROVE  Spec => []TypeOK
<1>1. SafetyInv => TypeOK
  BY DEF SafetyInv
<1> QED  BY <1>1, SafetyIsInvariant, PTL

\* destroyAvbStream deletes a stream only after the worker has let go of it: whatever
\* the worker finds in mSequence or mActiveStreams exists, through restarts of the
\* worker, timeouts of removeStreamFromTransmitList and engine stops.
THEOREM DestroyIsSafe ==
  ASSUME AtomicToggle
  PROVE  Spec => []NoDestroyedStream
<1>1. SafetyInv => NoDestroyedStream
  BY DEF SafetyInv, CallInv, HandshakeInv, Unanswered, NoDestroyedStream
<1> QED  BY <1>1, SafetyIsInvariant, PTL

\* Between API calls mActive of a stream tells whether it is in mActiveStreams, in
\* spite of the resets by the worker; the second deactivate() of deactivateAvbStream
\* ("defect#230217") is what the proof of FinishRemove needs.
THEOREM FlagsAreConsistent ==
  ASSUME AtomicToggle
  PROVE  Spec => []FlagsConsistent
<1>1. SafetyInv => FlagsConsistent
  BY DEF SafetyInv, TypeOK, FlagInv, FlagsConsistent
<1> QED  BY <1>1, SafetyIsInvariant, PTL

\* Whatever igb_xmit returns, a stream's packets are in the free stack, in the driver or in
\* the sequence, each in one of them only, but for at most one packet more per fatal error
\* and exactly one less per fetch over a packet the driver had no descriptor for.
THEOREM PacketsAreConserved ==
  ASSUME AtomicToggle
  PROVE  Spec => []PacketsConserved
<1>1. SafetyInv /\ PacketInv /\ [Next]_vars => PacketInv'
  <2>1. ASSUME SafetyInv, PacketInv, Next PROVE PacketInv'
    BY <2>1, CallKeepsPackets, ApiStepKeepsPackets, WorkerStepKeepsPackets DEF Next
  <2>2. ASSUME PacketInv, UNCHANGED vars PROVE PacketInv'
    BY <2>2 DEF vars, PacketInv, PacketsConserved, Places
  <2> QED  BY <2>1, <2>2
<1>2. PacketInv => PacketsConserved
  BY DEF PacketInv
<1> QED  BY <1>1, <1>2, InitSafety, SafetyIsInvariant, PTL DEF Spec

\* No step but the calls changes what is reserved or which streams are active.
LEMMA WorkerStepKeepsBandwidth ==
  ASSUME BandwidthInv, WorkerStep
  PROVE  BandwidthInv'
<1>1. UNCHANGED <<mActiveStreams, mCurrentBandwidth, apiPc, apiStream>>
  <2>1. CASE \/ BeforeRun \/ EnterRun \/ OuterLoop \/ CheckRestart \/ FinishReset
             \/ \E s \in Streams : ResetStream(s) \/ ServiceEmpty(s)
    BY <2>1 DEF BeforeRun, EnterRun, OuterLoop, CheckRestart, FinishReset, ResetStream, ServiceEmpty
  <2>2. CASE \/ ReactivateStream \/ \E retry \in BOOLEAN : FinishToggle(retry)
             \/ InnerLoop \/ UpdateSequence \/ Respond
             \/ \E changed \in BOOLEAN : LinkUp(changed)
             \/ \E left \in Leftovers : LinkDown(left) \/ EndWindow(left) \/ ExitInner(left)
    BY <2>2 DEF ReactivateStream, FinishToggle, InnerLoop, UpdateSequence, Respond, LinkUp,
                LinkDown, EndWindow, ExitInner
  <2>3. CASE \/ LoadFlags \/ StoreFlags \/ TimeWarp \/ WorkerFails
             \/ \E s \in Streams, result \in XmitResults : Send(s, result)
             \/ FetchDry \/ FetchReset
             \/ \E kind \in {"data", "dummy"} : FetchPacket(kind)
    BY <2>3 DEF LoadFlags, StoreFlags, TimeWarp, WorkerFails, Send, FetchDry, FetchReset, FetchPacket
  <2> QED  BY <2>1, <2>2, <2>3 DEF WorkerStep
<1>2. BandwidthOf(mActiveStreams)' = BandwidthOf(mActiveStreams)
  BY <1>1, Zenon DEF BandwidthOf, MapThenSumSet, MapThenFoldSet
<1> QED  BY <1>1, <1>2 DEF BandwidthInv

\* A call begins with the bandwidth of a stream that is not active.
LEMMA CallKeepsBandwidth ==
  ASSUME AtomicToggle, SafetyInv, BandwidthInv, Call
  PROVE  BandwidthInv'
<1>0. mActiveStreams' = mActiveStreams
  BY DEF Call, CreateStream, ActivateAvbStream, DestroyInactive, DeactivateAvbStream, Start, Stop
<1>1. BandwidthOf(mActiveStreams)' = BandwidthOf(mActiveStreams)
  BY <1>0, Zenon DEF BandwidthOf, MapThenSumSet, MapThenFoldSet
<1>2. ASSUME NEW s \in Streams, ActivateAvbStream(s)
      PROVE  BandwidthInv'
  <2>1. s \notin mActiveStreams
    BY <1>2 DEF ActivateAvbStream, Settled, SafetyInv, FlagInv
  <2>2. /\ mCurrentBandwidth = BandwidthOf(mActiveStreams) + 0
        /\ mCurrentBandwidth \in Int
        /\ mCurrentBandwidth' = mCurrentBandwidth + Bandwidth[s]
        /\ apiPc' = "insert" /\ apiStream' = s
    BY <1>2 DEF ActivateAvbStream, Reserve, BandwidthInv, SafetyInv, TypeOK
  <2>3. IsFiniteSet(mActiveStreams)
    BY DEF BandwidthInv
  <2>4. mCurrentBandwidth = BandwidthOf(mActiveStreams)
    <3>1. PICK g \in [SUBSET mActiveStreams -> Nat] : BandwidthOf(mActiveStreams) = g[mActiveStreams]
      BY <2>3, BandwidthIsSum DEF SafetyInv, TypeOK
    <3> QED  BY <3>1, <2>2
  <2> QED  BY <2>1, <2>2, <2>3, <2>4, <1>0, <1>1 DEF BandwidthInv
<1>3. ASSUME ~\E s \in Streams : ActivateAvbStream(s)
      PROVE  BandwidthInv'
  <2>1. /\ apiPc = "idle" /\ apiPc' \in {"idle", "erase", "requestStart", "stop"}
        /\ mCurrentBandwidth' = mCurrentBandwidth
    BY <1>3 DEF Call, CreateStream, DestroyInactive, DeactivateAvbStream, Start, Stop
  <2> QED  BY <2>1, <1>0, <1>1 DEF BandwidthInv
<1> QED  BY <1>2, <1>3

\* The bandwidth is released exactly once, when the stream is off the list for good, and a
\* stream that is put back after a timeout keeps what it has.
LEMMA ApiStepKeepsBandwidth ==
  ASSUME SafetyInv, BandwidthInv, ApiStep
  PROVE  BandwidthInv'
<1>0. /\ IsFiniteSet(mActiveStreams) /\ mActiveStreams \in SUBSET Streams
      /\ apiPc \in {"insert", "erase", "removed"} => apiStream \in Streams
  BY DEF BandwidthInv, SafetyInv, TypeOK, CallInv
<1>1. CASE InsertStream
  <2> DEFINE T == mActiveStreams \union {apiStream}
  <2>1. /\ apiStream \notin mActiveStreams /\ mActiveStreams' = T
        /\ mCurrentBandwidth = BandwidthOf(mActiveStreams) + Bandwidth[apiStream]
        /\ apiPc' = "requestInsert" /\ mCurrentBandwidth' = mCurrentBandwidth
    BY <1>1 DEF InsertStream, BandwidthInv
  <2>2. T \in SUBSET Streams /\ IsFiniteSet(T) /\ apiStream \in T /\ T \ {apiStream} = mActiveStreams
    <3>1. apiStream \in Streams
      BY <1>0, <1>1 DEF InsertStream
    <3> QED  BY <1>0, <2>1, <3>1, FS_AddElement
  <2> HIDE DEF T
  <2>3. /\ BandwidthOf(T) = Bandwidth[apiStream] + BandwidthOf(mActiveStreams)
        /\ BandwidthOf(mActiveStreams) \in Nat /\ Bandwidth[apiStream] \in Nat
    BY <2>2, BandwidthRemove
  <2>4. mCurrentBandwidth' = BandwidthOf(T) + 0
    BY <2>1, <2>3
  <2>5. BandwidthOf(mActiveStreams)' = BandwidthOf(T)
    BY <2>1, Zenon DEF BandwidthOf, MapThenSumSet, MapThenFoldSet
  <2> QED  BY <2>1, <2>2, <2>4, <2>5 DEF BandwidthInv
<1>2. CASE EraseStream
  <2> DEFINE T == mActiveStreams \ {apiStream}
  <2>1. /\ apiStream \in mActiveStreams /\ mActiveStreams' = T
        /\ mCurrentBandwidth = BandwidthOf(mActiveStreams) + 0
        /\ apiPc' = "requestErase" /\ mCurrentBandwidth' = mCurrentBandwidth
        /\ apiStream' = apiStream
    BY <1>2 DEF EraseStream, BandwidthInv, SafetyInv, CallInv
  <2>2. /\ BandwidthOf(mActiveStreams) = Bandwidth[apiStream] + BandwidthOf(T)
        /\ BandwidthOf(T) \in Nat /\ Bandwidth[apiStream] \in Nat
    BY <2>1, <1>0, BandwidthRemove
  <2>3. IsFiniteSet(T)
    BY <1>0, FS_RemoveElement
  <2> HIDE DEF T
  <2>4. mCurrentBandwidth' = BandwidthOf(T) + Bandwidth[apiStream]
    BY <2>1, <2>2
  <2>5. BandwidthOf(mActiveStreams)' = BandwidthOf(T)
    BY <2>1, Zenon DEF BandwidthOf, MapThenSumSet, MapThenFoldSet
  <2> QED  BY <2>1, <2>3, <2>4, <2>5 DEF BandwidthInv
<1>3. CASE FinishRemove
  <2>1. /\ mActiveStreams' = mActiveStreams /\ apiPc' = "idle"
        /\ mCurrentBandwidth = BandwidthOf(mActiveStreams) + Bandwidth[apiStream]
        /\ mCurrentBandwidth' = mCurrentBandwidth - Bandwidth[apiStream]
    BY <1>3 DEF FinishRemove, Release, BandwidthInv
  <2>2. Bandwidth[apiStream] \in Nat
    BY <1>0, <1>3 DEF FinishRemove
  <2>3. BandwidthOf(mActiveStreams) \in Nat
    <3>1. PICK g \in [SUBSET mActiveStreams -> Nat] : BandwidthOf(mActiveStreams) = g[mActiveStreams]
      BY <1>0, BandwidthIsSum
    <3> QED  BY <3>1
  <2>4. mCurrentBandwidth' = BandwidthOf(mActiveStreams) + 0
    BY <2>1, <2>2, <2>3
  <2>5. BandwidthOf(mActiveStreams)' = BandwidthOf(mActiveStreams)
    BY <2>1, Zenon DEF BandwidthOf, MapThenSumSet, MapThenFoldSet
  <2> QED  BY <2>1, <2>4, <2>5, <1>0 DEF BandwidthInv
<1>4. ASSUME ~InsertStream, ~EraseStream, ~FinishRemove
      PROVE  BandwidthInv'
  <2>1. mActiveStreams' = mActiveStreams /\ mCurrentBandwidth' = mCurrentBandwidth
    BY <1>4 DEF ApiStep, RequestInsert, FinishActivate, RequestErase, CheckRunning, WaitResponse,
                RequestStart, ShutDown, Join
  <2>2. \/ /\ apiPc \in {"requestInsert", "activate", "requestStart", "stop", "join"}
           /\ apiPc' \in {"activate", "idle", "join"}
        \/ /\ apiPc \in {"requestErase", "check", "wait"} /\ apiStream' = apiStream
           /\ apiPc' \in {"check", "wait", "removed", "insert"}
           /\ apiStream \notin mActiveStreams
    BY <1>4 DEF ApiStep, RequestInsert, FinishActivate, RequestErase, CheckRunning, WaitResponse,
                RequestStart, ShutDown, Join, SafetyInv, CallInv
  <2>3. BandwidthOf(mActiveStreams)' = BandwidthOf(mActiveStreams)
    BY <2>1, Zenon DEF BandwidthOf, MapThenSumSet, MapThenFoldSet
  <2> QED  BY <2>1, <2>2, <2>3 DEF BandwidthInv
<1> QED  BY <1>1, <1>2, <1>3, <1>4

\* Between API calls mCurrentBandwidth is what the active streams need, however many
\* streams were activated, deactivated, destroyed or put back after a timeout of
\* removeStreamFromTransmitList: none is counted twice and none is forgotten.
THEOREM BandwidthIsExact ==
  ASSUME AtomicToggle
  PROVE  Spec => []BandwidthExact
<1>1. Init => BandwidthInv
  <2> SUFFICES ASSUME Init PROVE BandwidthInv
    OBVIOUS
  <2>1. mActiveStreams = {} /\ apiPc = "idle" /\ mCurrentBandwidth = 0
    BY DEF Init
  <2>2. IsFiniteSet({}) /\ {} \in SUBSET Streams
    BY FS_EmptySet
  <2>3. PICK g \in [SUBSET {} -> Nat] : Sums(g, SUBSET {}) /\ BandwidthOf({}) = g[{}]
    BY <2>2, BandwidthIsSum
  <2>4. BandwidthOf({}) = 0
    BY <2>3 DEF Sums
  <2> QED  BY <2>1, <2>2, <2>4 DEF BandwidthInv
<1>2. SafetyInv /\ BandwidthInv /\ [Next]_vars => BandwidthInv'
  <2>1. ASSUME SafetyInv, BandwidthInv, Next PROVE BandwidthInv'
    BY <2>1, CallKeepsBandwidth, ApiStepKeepsBandwidth, WorkerStepKeepsBandwidth DEF Next
  <2>2. ASSUME BandwidthInv, UNCHANGED vars PROVE BandwidthInv'
    <3>1. UNCHANGED <<mActiveStreams, mCurrentBandwidth, apiPc, apiStream>>
      BY <2>2 DEF vars
    <3>2. BandwidthOf(mActiveStreams)' = BandwidthOf(mActiveStreams)
      BY <3>1, Zenon DEF BandwidthOf, MapThenSumSet, MapThenFoldSet
    <3> QED  BY <2>2, <3>1, <3>2 DEF BandwidthInv
  <2> QED  BY <2>1, <2>2
<1>3. SafetyInv /\ BandwidthInv => BandwidthExact
  <2> SUFFICES ASSUME SafetyInv, BandwidthInv, apiPc = "idle"
               PROVE  mCurrentBandwidth = BandwidthOf(mActiveStreams)
    BY DEF BandwidthExact, BandwidthOf
  <2>1. PICK g \in [SUBSET mActiveStreams -> Nat] : BandwidthOf(mActiveStreams) = g[mActiveStreams]
    BY BandwidthIsSum DEF SafetyInv, TypeOK, BandwidthInv
  <2>2. mCurrentBandwidth = BandwidthOf(mActiveStreams) + 0
    BY DEF BandwidthInv
  <2> QED  BY <2>1, <2>2
<1> QED  BY <1>1, <1>2, <1>3, SafetyIsInvariant, InitSafety, PTL DEF Spec

============================================================================
