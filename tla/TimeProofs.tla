----------------------------- MODULE TimeProofs -----------------------------
(***************************************************************************)
(* Time stamps: local time, and the stamps of received and transmitted     *)
(* streams, for every length of the round, all steps of the PTP clock, all *)
(* sample rates and windows and all thresholds: time does not jump within  *)
(* an epoch, an extended stamp is the presentation time, and the stamps of *)
(* a transmit stream are consecutive events of its master clock. Capture   *)
(* of an external clock: the count of events is off by one period for each *)
(* edge that is mistaken for another, for every event rate, nominal        *)
(* frequency and number of edges. Adjustment of an ALSA device to its      *)
(* clock: none takes more frames from the ring than there are, for every   *)
(* size of a period, every number of periods but one and every length of   *)
(* the start-up phase.                                                     *)
(***************************************************************************)
EXTENDS PtpClock, TransmitTiming, HwCapture, HwDevice, TLAPS

\* how far apart two readings may be without a new epoch
NearBound == EpochThreshold * UnsettledFactor

PtpFlags == {open, unseen} \subseteq BOOLEAN /\ coeff \in {"one", "high", "low"}

PtpTypes ==
  /\ ptp \in 1 .. MaxTime /\ tsc \in 1 .. MaxTime /\ steps \in 0 .. MaxSteps
  /\ lastTime \in 0 .. MaxTime /\ lastTsc \in 0 .. tsc /\ factor \in Factors
  /\ epoch \in 0 .. MaxEpoch /\ local \in {"idle", "call", "done"}
  /\ holder \in {"none", "real", "force", "local", "rx"} /\ attempt \in 0 .. 3
  /\ domEpoch \in 0 .. epoch
  /\ stamp \in {NoTime} \cup 0 .. MaxStamp /\ pres \in 0 .. MaxTime + Wrap
  /\ packet \in {NoTime} \cup 1 .. MaxTime + Wrap

\* the base is only invalid while somebody is replacing it, and a packet is in the hands of the
\* one who reads the time for it; nobody asks for the time of a closed clock
MutexHeld ==
  /\ lastTime = 0 => holder # "none"
  /\ packet # NoTime <=> holder = "rx"
  /\ ~open => holder = "none" /\ local = "idle"

\* a time that was read in this epoch, now or after the base was, is close to what the base
\* extrapolates to
NearBase(r) ==
  /\ lastTime # 0 /\ lastTsc <= r.tsc
  /\ Abs(r.time - (lastTime + Scaled(factor, r.tsc - lastTsc))) <= NearBound

ReadNearBase ==
  read # NoTime =>
    /\ read.time \in Int /\ read.tsc \in 0 .. tsc /\ read.epoch \in 0 .. epoch
    /\ read.epoch = epoch => NearBase(read)

\* the packet lies less than half a round ahead of the clock, unless a step of the clock waits to
\* be noticed, or has been noticed as a new epoch that the domain does not know of
PacketAhead ==
  packet # NoTime =>
    \/ packet - ptp \in 0 .. Wrap \div 2 - 1
    \/ stamp # NoTime /\ (unseen \/ domEpoch # epoch)

StampTrue == stamp # NoTime /\ packet = NoTime /\ domEpoch = epoch /\ ~unseen => stamp = pres

ClockInv == PtpFlags /\ PtpTypes /\ MutexHeld /\ ReadNearBase
StampInv == PacketAhead /\ StampTrue

----------------------------------------------------------------------------
(* Arithmetic of the stamps                                                *)

\* A stamp and its round: what the division by the round leaves.
LEMMA Rounds ==
  ASSUME NEW w \in Nat \ {0}, NEW x \in Nat
  PROVE  x % w \in 0 .. w - 1 /\ x \div w \in Nat /\ x = w * (x \div w) + (x % w)
<1>1. x % w \in 0 .. w - 1
  BY SMT
<1>2. x \div w \in Nat
  BY SMT
<1>3. x = w * (x \div w) + (x % w)
  BY Z3
<1> QED
  BY <1>1, <1>2, <1>3, Zenon

\* Two times less than a round apart lie in the same round or in neighbouring ones.
LEMMA NeighbourRounds ==
  ASSUME NEW w \in Nat \ {0}, NEW x \in Nat, NEW y \in Nat, x <= y, y - x < w
  PROVE  y - (y % w) = (x - (x % w)) + IF x % w <= y % w THEN 0 ELSE w
<1> DEFINE a == x \div w
           b == y \div w
           r == x % w
           q == y % w
<1>1. a \in Nat /\ b \in Nat /\ r \in 0 .. w - 1 /\ q \in 0 .. w - 1 /\ x = w * a + r /\ y = w * b + q
  BY Rounds
<1> HIDE DEF a, b, r, q
<1>2. w \in Nat /\ w > 0
  BY SMT
<1>3. \A n \in Nat : w * (a + n) = w * a + w * n /\ w * (b + n) = w * b + w * n
  BY <1>1, <1>2, SMT
<1>4. CASE b < a
  <2>1. PICK n \in Nat : a = b + n + 1
    <3>1. a - b - 1 \in Nat /\ a = b + (a - b - 1) + 1
      BY <1>1, <1>4, SMT
    <3> QED
      BY <3>1
  <2>2. w * a = w * b + w * (n + 1) /\ w * (n + 1) >= w
    <3>1. w * (n + 1) = w * n + w /\ w * n \in Nat
      BY <1>2, SMT
    <3>2. a = b + (n + 1) /\ n + 1 \in Nat
      BY <1>1, <2>1, SMT
    <3> QED
      BY <1>2, <1>3, <3>1, <3>2, SMT
  <2>3. w * b \in Nat /\ w * (n + 1) \in Nat
    BY <1>1, <1>2, <2>1, SMT
  <2> QED
    BY <1>1, <1>2, <2>2, <2>3, SMT
<1>5. CASE b = a
  <2>1. w * a \in Nat
    BY <1>1, <1>2, SMT
  <2>2. r <= q
    BY <1>1, <1>2, <1>5, <2>1, SMT
  <2>3. x - r = w * a /\ y - q = w * a
    BY <1>1, <1>2, <1>5, <2>1, SMT
  <2>4. y - q = (x - r) + IF r <= q THEN 0 ELSE w
    BY <2>1, <2>2, <2>3, SMT
  <2> QED
    BY <2>4, Zenon DEF r, q
<1>6. CASE b = a + 1
  <2>1. w * a \in Nat /\ w * b = w * a + w
    <3>1. w * a \in Nat /\ w * 1 = w
      BY <1>1, <1>2, SMT
    <3> QED
      BY <1>3, <1>6, <3>1
  <2>2. ~(r <= q)
    BY <1>1, <1>2, <2>1, SMT
  <2>3. x - r = w * a /\ y - q = w * a + w
    BY <1>1, <1>2, <2>1, SMT
  <2>4. y - q = (x - r) + IF r <= q THEN 0 ELSE w
    BY <2>1, <2>2, <2>3, SMT
  <2> QED
    BY <2>4, Zenon DEF r, q
<1>7. CASE b > a + 1
  <2>1. PICK n \in Nat : b = a + n + 2
    <3>1. b - a - 2 \in Nat /\ b = a + (b - a - 2) + 2
      BY <1>1, <1>7, SMT
    <3> QED
      BY <3>1
  <2>2. w * b = w * a + w * (n + 2) /\ w * (n + 2) >= 2 * w
    <3>1. w * (n + 2) = w * n + 2 * w /\ w * n \in Nat
      BY <1>2, SMT
    <3>2. b = a + (n + 2) /\ n + 2 \in Nat
      BY <1>1, <2>1, SMT
    <3> QED
      BY <1>2, <1>3, <3>1, <3>2, SMT
  <2>3. w * a \in Nat /\ w * (n + 2) \in Nat
    BY <1>1, <1>2, <2>1, SMT
  <2> QED
    BY <1>1, <1>2, <2>2, <2>3, SMT
<1> QED
  BY <1>1, <1>4, <1>5, <1>6, <1>7, SMT

\* update() finds the presentation time again when it follows the last one by less than a round.
LEMMA ExtendedExact ==
  ASSUME stamp \in Nat, NEW p \in Nat, p > stamp, p - stamp < Wrap
  PROVE  Extended(p) = p
<1>1. Wrap \in Nat \ {0}
  BY PtpConstants
<1>2. p - (p % Wrap) = (stamp - (stamp % Wrap)) + IF stamp % Wrap <= p % Wrap THEN 0 ELSE Wrap
  <2>1. stamp \in Nat /\ stamp <= p /\ p - stamp < Wrap
    BY SMT
  <2> QED
    BY <1>1, <2>1, NeighbourRounds, Zenon
<1> DEFINE r == stamp % Wrap
           q == p % Wrap
<1>3. r \in Int /\ q \in Int
  <2>1. r \in 0 .. Wrap - 1 /\ q \in 0 .. Wrap - 1
    BY <1>1, Rounds, SMT
  <2> QED
    BY <1>1, <2>1, SMT
<1>4. p - q = (stamp - r) + IF r <= q THEN 0 ELSE Wrap
  BY <1>2, Zenon DEF r, q
<1>5. Extended(p) = (stamp - r) + q + IF r < q THEN 0 ELSE Wrap
  BY DEF Extended
<1> HIDE DEF r, q
<1>6. r # q
  BY <1>1, <1>3, <1>4, SMT
<1> QED
  BY <1>1, <1>3, <1>4, <1>5, <1>6, SMT

\* initLastTimeStamp() finds the presentation time that lies less than half a round ahead.
LEMMA InitExact ==
  ASSUME NEW now \in Nat, NEW p \in Nat, p - now \in 0 .. Wrap \div 2 - 1
  PROVE  InitLastTimeStamp(now, p) = p
<1>1. Wrap \in Nat \ {0} /\ Wrap \div 2 \in Nat /\ Wrap \div 2 < Wrap
  BY PtpConstants, SMT
<1>2. p - (p % Wrap) = (now - (now % Wrap)) + IF now % Wrap <= p % Wrap THEN 0 ELSE Wrap
  <2>1. now <= p /\ p - now < Wrap
    BY <1>1, SMT
  <2> QED
    BY <1>1, <2>1, NeighbourRounds, Zenon
<1> DEFINE r == now % Wrap
           q == p % Wrap
           ahead == (p - now) % Wrap \in 1 .. Wrap \div 2 - 1
<1>3. r \in Int /\ q \in Int
  <2>1. r \in 0 .. Wrap - 1 /\ q \in 0 .. Wrap - 1
    BY <1>1, Rounds, SMT
  <2> QED
    BY <1>1, <2>1, SMT
<1>4. ahead <=> p # now
  <2>1. (p - now) % Wrap = p - now
    BY <1>1, SMT
  <2> QED
    BY <1>1, <2>1, SMT
<1>5. p - q = (now - r) + IF r <= q THEN 0 ELSE Wrap
  BY <1>2, Zenon DEF r, q
<1>6. InitLastTimeStamp(now, p) = (now - r) + q + IF ahead /\ q < r THEN Wrap ELSE 0
  BY DEF InitLastTimeStamp
<1>7. p = now => q = r
  OBVIOUS
<1> HIDE DEF r, q, ahead
<1>8. CASE p = now
  BY <1>3, <1>4, <1>6, <1>7, <1>8, SMT
<1>9. CASE p # now
  <2>1. InitLastTimeStamp(now, p) = (now - r) + q + IF q < r THEN Wrap ELSE 0
    BY <1>4, <1>6, <1>9, Zenon
  <2> QED
    BY <1>1, <1>3, <1>5, <2>1, SMT
<1> QED
  BY <1>8, <1>9

\* A stamp that is set for the first time in an epoch is a stamp.
LEMMA InitBounds ==
  ASSUME NEW now \in 1 .. MaxTime, NEW p \in Nat
  PROVE  InitLastTimeStamp(now, p) \in 0 .. MaxStamp
<1>1. Wrap \in Nat \ {0} /\ MaxTime \in Nat
  BY PtpConstants
<1> DEFINE r == now % Wrap
           q == p % Wrap
           carry == IF (p - now) % Wrap \in 1 .. Wrap \div 2 - 1 /\ q < r THEN Wrap ELSE 0
<1>2. r \in 0 .. Wrap - 1 /\ q \in 0 .. Wrap - 1
  BY <1>1, Rounds, SMT
<1>3. now - r \in 0 .. MaxTime
  <2> DEFINE n == now \div Wrap
  <2>1. n \in Nat /\ now = Wrap * n + r
    BY <1>1, Rounds, SMT
  <2> HIDE DEF n, r
  <2>2. Wrap * n \in Nat
    BY <1>1, <2>1, SMT
  <2> QED
    BY <1>1, <1>2, <2>1, <2>2, SMT
<1>4. carry \in {0, Wrap}
  OBVIOUS
<1>5. InitLastTimeStamp(now, p) = (now - r) + q + carry
  BY DEF InitLastTimeStamp
<1> HIDE DEF r, q, carry
<1> QED
  BY <1>1, <1>2, <1>3, <1>4, <1>5, SMT DEF MaxStamp

\* An extended stamp is not negative.
LEMMA ExtendedBounds ==
  ASSUME stamp \in Nat, NEW p \in Nat
  PROVE  Extended(p) \in Nat
<1>1. Wrap \in Nat \ {0}
  BY PtpConstants
<1> DEFINE r == stamp % Wrap
           q == p % Wrap
           carry == IF r < q THEN 0 ELSE Wrap
           n == stamp \div Wrap
<1>2. r \in 0 .. Wrap - 1 /\ q \in 0 .. Wrap - 1
  BY <1>1, Rounds, SMT
<1>3. n \in Nat /\ stamp = Wrap * n + r
  BY <1>1, Rounds, SMT
<1>4. carry \in {0, Wrap}
  OBVIOUS
<1>5. Extended(p) = (stamp - r) + q + carry
  BY DEF Extended
<1> HIDE DEF r, q, carry, n
<1>6. Wrap * n \in Nat
  BY <1>1, <1>3, SMT
<1> QED
  BY <1>1, <1>2, <1>3, <1>4, <1>5, <1>6, SMT

----------------------------------------------------------------------------
(* A reading of the clock                                                  *)

\* The bounds the readings are compared with.
LEMMA Bounds == NearBound \in Nat /\ EpochThreshold <= NearBound /\ Bound = 2 * NearBound
<1>1. EpochThreshold \in Nat /\ UnsettledFactor \in Nat \ {0}
  BY PtpConstants
<1>2. PICK n \in Nat : UnsettledFactor = n + 1
  <2>1. UnsettledFactor - 1 \in Nat /\ UnsettledFactor = (UnsettledFactor - 1) + 1
    BY <1>1, SMT
  <2> QED
    BY <2>1
<1>3. EpochThreshold * (n + 1) = EpochThreshold * n + EpochThreshold /\ EpochThreshold * n \in Nat
  BY <1>1, SMT
<1>4. NearBound \in Nat /\ EpochThreshold <= NearBound
  BY <1>1, <1>2, <1>3, SMT DEF NearBound
<1>5. Bound = 2 * NearBound
  BY <1>1, Z3 DEF Bound, NearBound
<1> QED
  BY <1>4, <1>5

\* The PTP clock's time of a span, and of no span at all.
LEMMA ScaledIsNat ==
  ASSUME NEW f \in Factors, NEW e \in Nat
  PROVE  Scaled(f, e) \in Nat /\ Scaled(f, 0) = 0
<1>1. Grain \in Nat \ {0} /\ f \in Nat
  BY PtpConstants, SMT DEF Factors
<1>2. e * f \in Nat /\ 0 * f = 0
  BY <1>1, SMT
<1>3. (e * f) \div Grain \in Nat
  BY <1>1, <1>2, Rounds, Zenon
<1>4. 0 \div Grain = 0
  BY <1>1, SMT
<1> QED
  BY <1>2, <1>3, <1>4, Zenon DEF Scaled

\* Whatever the factor, the time of a longer span exceeds that of a shorter one by no less than
\* 1 / 1.5 and no more than 1.5 times what the one is longer, rounded.
LEMMA ScaledSpan ==
  ASSUME NEW f \in Factors, NEW a \in Nat, NEW b \in Nat, a <= b
  PROVE  /\ 3 * (Scaled(f, b) - Scaled(f, a)) + 2 >= 2 * (b - a)
         /\ 2 * (Scaled(f, b) - Scaled(f, a)) <= 3 * (b - a) + 1
<1> DEFINE x == Scaled(f, a)
           y == Scaled(f, b)
           r == (a * f) % Grain
           q == (b * f) % Grain
           g == Grain
           n == b - a
           m == y - x
<1>1. g \in Nat \ {0} /\ f \in Nat /\ 3 * f >= 2 * g /\ 2 * f <= 3 * g
  BY PtpConstants, SMT DEF Factors, Believed
<1>2. a * f \in Nat /\ b * f \in Nat
  BY <1>1, SMT
<1>3. /\ x \in Nat /\ y \in Nat /\ r \in 0 .. g - 1 /\ q \in 0 .. g - 1
      /\ a * f = g * x + r /\ b * f = g * y + q
  BY <1>1, <1>2, Rounds, Zenon DEF Scaled
<1>4. n \in Nat /\ b = a + n
  BY SMT
<1> HIDE DEF x, y, r, q, g, n
<1>5. b * f = a * f + n * f /\ n * f \in Nat
  BY <1>1, <1>4, SMT
<1>6. m \in Int /\ g * m = g * y - g * x /\ g * m \in Int
  BY <1>1, <1>3, SMT
<1> HIDE DEF m
<1>7. g * m = n * f + r - q
  BY <1>1, <1>2, <1>3, <1>5, <1>6, SMT
<1>8. 3 * (n * f) >= 2 * (n * g) /\ 2 * (n * f) <= 3 * (n * g) /\ n * g \in Nat
  <2>1. \A i, j \in Nat : i <= j => n * i <= n * j
    BY <1>4, SMT
  <2>2. n * (3 * f) = 3 * (n * f) /\ n * (2 * g) = 2 * (n * g)
    BY <1>1, <1>4, SMT
  <2>3. n * (2 * f) = 2 * (n * f) /\ n * (3 * g) = 3 * (n * g) /\ n * g \in Nat
    BY <1>1, <1>4, SMT
  <2>4. 3 * f \in Nat /\ 2 * g \in Nat /\ 2 * f \in Nat /\ 3 * g \in Nat
    BY <1>1, SMT
  <2> QED
    BY <1>1, <2>1, <2>2, <2>3, <2>4, SMT
<1>9. g * (3 * m + 3) > g * (2 * n) /\ g * (2 * m) < g * (3 * n + 2)
  <2>1. g * (3 * m + 3) = 3 * (g * m) + 3 * g /\ g * (2 * n) = 2 * (n * g)
    BY <1>1, <1>4, <1>6, SMT
  <2>2. g * (2 * m) = 2 * (g * m) /\ g * (3 * n + 2) = 3 * (n * g) + 2 * g
    BY <1>1, <1>4, <1>6, SMT
  <2> QED
    BY <1>1, <1>3, <1>5, <1>6, <1>7, <1>8, <2>1, <2>2, SMT
<1>10. \A i, j \in Int : g * i < g * j => i < j
  BY <1>1, SMT
<1>11. 2 * n < 3 * m + 3 /\ 2 * m < 3 * n + 2
  <2>1. 2 * n \in Int /\ 3 * m + 3 \in Int /\ 2 * m \in Int /\ 3 * n + 2 \in Int
    BY <1>4, <1>6, SMT
  <2>2. g * (2 * n) < g * (3 * m + 3)
    BY <1>1, <1>4, <1>6, <1>9, SMT
  <2> QED
    BY <1>9, <1>10, <2>1, <2>2, Zenon
<1>12. 3 * m + 2 >= 2 * n /\ 2 * m <= 3 * n + 1
  BY <1>4, <1>6, <1>11, SMT
<1> QED
  BY <1>12, Zenon DEF m, n, x, y

\* A reading that starts no new epoch is close to what the base extrapolates to.
LEMMA NearUnlessChanged ==
  ASSUME PtpTypes, ~EpochChanged
  PROVE  Abs((ptp - lastTime) - Scaled(factor, tsc - lastTsc)) <= NearBound
<1>1. EpochThreshold \in Nat /\ UnsettledFactor \in Nat \ {0}
  BY PtpConstants
<1>2. PhaseError \in Int
  <2>1. /\ ptp \in Int /\ lastTime \in Int /\ factor \in Factors
        /\ tsc - lastTsc \in Nat
    BY PtpConstants, SMT DEF PtpTypes
  <2>2. Scaled(factor, tsc - lastTsc) \in Nat
    BY <2>1, ScaledIsNat, Zenon
  <2> QED
    BY <2>1, <2>2, SMT DEF PhaseError, Abs
<1>3. PhaseError <= NearBound
  <2>1. CASE coeff = "low"
    <3>1. EpochThreshold * (IF coeff = "low" THEN 1 ELSE UnsettledFactor) = EpochThreshold
      BY <1>1, <2>1, SMT
    <3> QED
      BY <1>1, <1>2, <3>1, Bounds, SMT DEF EpochChanged
  <2>2. CASE coeff # "low"
    <3>1. EpochThreshold * (IF coeff = "low" THEN 1 ELSE UnsettledFactor) = NearBound
      BY <2>2, Zenon DEF NearBound
    <3> QED
      BY <1>2, <3>1, Bounds, SMT DEF EpochChanged
  <2> QED
    BY <2>1, <2>2
<1> QED
  BY <1>3, Zenon DEF PhaseError

\* How a reading ends: the base is made anew, with or without a new epoch, or the reading is near.
Anew == lastTime' = ptp /\ lastTsc' = tsc
FirstReading == lastTime = 0 /\ Anew /\ epoch' = epoch /\ (unseen' <=> unseen)
EpochReading == lastTime # 0 /\ Anew /\ epoch' = epoch + 1 /\ epoch < MaxEpoch /\ unseen' = FALSE
NearReading ==
  /\ lastTime # 0 /\ epoch' = epoch /\ (unseen' <=> unseen)
  /\ Abs((ptp - lastTime) - Scaled(factor, tsc - lastTsc)) <= NearBound
  /\ Anew \/ (lastTime' = lastTime /\ lastTsc' = lastTsc /\ factor' = factor)

\* A reading of the device's clock ends in one of the three ways.
LEMMA Readings ==
  ASSUME PtpTypes, NEW force, ReadNewer(force)
  PROVE  FirstReading \/ EpochReading \/ NearReading
<1>1. CASE lastTime = 0
  BY <1>1, Zenon DEF ReadNewer, Rebase, FirstReading, Anew
<1>2. CASE lastTime # 0 /\ EpochChanged
  BY <1>2, Zenon DEF ReadNewer, Rebase, NextEpoch, EpochReading, Anew
<1>3. CASE lastTime # 0 /\ ~EpochChanged
  <2>1. Refresh(force) /\ epoch' = epoch /\ (unseen' <=> unseen)
    BY <1>3, Zenon DEF ReadNewer
  <2>2. Anew \/ (lastTime' = lastTime /\ lastTsc' = lastTsc /\ factor' = factor)
    BY <2>1, Zenon DEF Refresh, Anew
  <2> QED
    BY <1>3, <2>1, <2>2, NearUnlessChanged, Zenon DEF NearReading
<1> QED
  BY <1>1, <1>2, <1>3

\* No step takes over a factor that the code does not believe.
LEMMA FactorStep ==
  ASSUME PtpTypes, [PtpNext]_ptpVars
  PROVE  factor' \in Factors
<1>1. factor \in Factors
  BY Zenon DEF PtpTypes
<1>2. Grain \in Factors
  BY PtpConstants, SMT DEF Factors, Believed
<1>3. \A d, e : UpdateFactor(d, e) => factor' \in Factors
  <2>1. \A d, e : Smoothed(d, e) \subseteq Factors
    BY Zenon DEF Smoothed
  <2> QED
    BY <1>1, <2>1, Zenon DEF UpdateFactor
<1>4. \A force : ReadNewer(force) => factor' \in Factors
  BY <1>1, <1>2, <1>3, Zenon DEF ReadNewer, Rebase, Refresh
<1> QED
  BY <1>1, <1>2, <1>4, Zenon DEF PtpNext, ptpVars, Tick, Warp, CallReal, ReadAgain, RealReturns,
     GetLocalTime, GetLocalTimeUpdates, LocalCallsReal, LocalTimeUpdated, CleanUp,
     CalculateConversionCoeffs, Update, AskForTime, UpdateInNewEpoch, ProxyOnly, proxy, clocks, dom,
     Rebase

\* The flags stay flags.
LEMMA PtpFlagsStep ==
  ASSUME PtpFlags, [PtpNext]_ptpVars
  PROVE  PtpFlags'
<1>1. open \in BOOLEAN /\ unseen \in BOOLEAN
  BY Zenon DEF PtpFlags
<1>2. open' \in BOOLEAN
  BY <1>1, Zenon DEF PtpNext, ptpVars, Tick, Warp, CallReal, ReadAgain, RealReturns, GetLocalTime,
       GetLocalTimeUpdates, LocalCallsReal, LocalTimeUpdated, CleanUp, CalculateConversionCoeffs,
       Update, AskForTime, UpdateInNewEpoch, ProxyOnly, proxy, clocks, dom
<1>3. unseen' \in BOOLEAN
  <2>1. \A force : ReadNewer(force) => unseen' \in {unseen, FALSE}
    BY Zenon DEF ReadNewer
  <2> QED
    BY <1>1, <2>1, Zenon DEF PtpNext, ptpVars, Tick, Warp, CallReal, ReadAgain, RealReturns,
       GetLocalTime, GetLocalTimeUpdates, LocalCallsReal, LocalTimeUpdated, CleanUp,
       CalculateConversionCoeffs, Update, AskForTime, UpdateInNewEpoch, ProxyOnly, proxy, clocks,
       dom
<1>4. coeff' \in {"one", "high", "low"}
  <2>1. \A d, e : UpdateFactor(d, e) => coeff' \in {"high", "low", coeff}
    BY Zenon DEF UpdateFactor
  <2>2. \A force : ReadNewer(force) => coeff' \in {"one", "high", "low", coeff}
    BY <2>1, Zenon DEF ReadNewer, Rebase, Refresh
  <2>3. coeff \in {"one", "high", "low"}
    BY Zenon DEF PtpFlags
  <2> QED
    BY <2>2, <2>3, Zenon DEF PtpNext, ptpVars, Tick, Warp, CallReal, ReadAgain, RealReturns,
       GetLocalTime, GetLocalTimeUpdates, LocalCallsReal, LocalTimeUpdated, CleanUp,
       CalculateConversionCoeffs, Update, AskForTime, UpdateInNewEpoch, ProxyOnly, proxy, clocks,
       dom, Rebase
<1> QED
  BY <1>2, <1>3, <1>4, Zenon DEF PtpFlags

----------------------------------------------------------------------------
(* Time                                                                    *)

\* Every step keeps the types, the mutex, and the last read near the base.
LEMMA ClockStep ==
  ASSUME ClockInv, [PtpNext]_ptpVars
  PROVE  ClockInv'
<1>1. PtpFlags /\ PtpTypes /\ MutexHeld /\ ReadNearBase
  BY Zenon DEF ClockInv
<1>2. PtpFlags'
  BY <1>1, PtpFlagsStep, Zenon
<1>3. /\ Wrap \in Nat \ {0} /\ MaxTime \in Nat \ {0} /\ NoTime \notin Int /\ MaxSteps \in Nat
      /\ Steps \subseteq Int /\ MaxEpoch \in Nat \ {0}
      /\ \A d \in Transit : d \in Nat /\ d < Wrap
  BY PtpConstants, SMT
<1>4. NearBound \in Nat
  BY Bounds
<1>19. ptp \in Int /\ tsc \in Int /\ factor' \in Factors /\ factor \in Factors
  BY <1>1, FactorStep, SMT DEF PtpTypes
<1>5. CASE Tick
  <2>1. UNCHANGED <<steps, lastTime, lastTsc, factor, epoch, local, holder, attempt, stamp, domEpoch, pres,
                    packet, read, open>>
    BY <1>5, Zenon DEF Tick, proxy, dom
  <2>2. PtpTypes' /\ MutexHeld' /\ ReadNearBase'
    BY <1>1, <1>3, <1>5, <2>1, SMT DEF Tick, PtpTypes, MutexHeld, ReadNearBase, NearBase
  <2> QED
    BY <1>2, <2>2, Zenon DEF ClockInv
<1>6. CASE Warp
  <2>1. UNCHANGED <<tsc, lastTime, lastTsc, factor, epoch, local, holder, attempt, stamp, domEpoch, pres,
                    packet, read, open>>
    BY <1>6, Zenon DEF Warp, proxy, dom
  <2>2. ptp' \in 1 .. MaxTime /\ steps' \in 0 .. MaxSteps
    BY <1>1, <1>3, <1>6, SMT DEF Warp, PtpTypes
  <2>3. PtpTypes' /\ MutexHeld' /\ ReadNearBase'
    BY <1>1, <2>1, <2>2, SMT DEF PtpTypes, MutexHeld, ReadNearBase, NearBase
  <2> QED
    BY <1>2, <2>3, Zenon DEF ClockInv
<1>7. CASE CallReal
  <2>1. UNCHANGED <<ptp, tsc, steps, lastTime, lastTsc, factor, epoch, local, stamp, domEpoch, pres, packet,
                    read, open>>
    BY <1>7, Zenon DEF CallReal, ProxyOnly, proxy, clocks, dom
  <2>2. holder = "none" /\ holder' \in {"real", "force"} /\ attempt' = 1 /\ open
    BY <1>7, Zenon DEF CallReal
  <2>3. PtpTypes' /\ MutexHeld' /\ ReadNearBase'
    BY <1>1, <2>1, <2>2, SMT DEF PtpTypes, MutexHeld, ReadNearBase, NearBase
  <2> QED
    BY <1>2, <2>3, Zenon DEF ClockInv
<1>8. CASE ReadAgain
  <2>1. UNCHANGED <<ptp, tsc, steps, lastTsc, factor, local, holder, stamp, domEpoch, pres, packet, read, open>>
    BY <1>8, Zenon DEF ReadAgain, ProxyOnly, clocks, dom
  <2>2. \/ epoch < MaxEpoch /\ epoch' = epoch + 1 /\ lastTime' = 0 /\ attempt' = 1
        \/ attempt' \in 1 .. 3 /\ epoch' = epoch /\ lastTime' = lastTime
    <3>1. \E n \in {0, 1} :
             IF attempt + n >= 3
             THEN NextEpoch /\ lastTime' = 0 /\ attempt' = 1
             ELSE attempt' = attempt + n + 1 /\ epoch' = epoch /\ lastTime' = lastTime
      <4>1. CASE ptp < lastTime
        <5>1. LET a == attempt + 1 IN
              IF a >= 3
              THEN NextEpoch /\ lastTime' = 0 /\ attempt' = 1
              ELSE attempt' = a + 1 /\ epoch' = epoch /\ lastTime' = lastTime
          BY <1>8, <4>1, Zenon DEF ReadAgain
        <5> QED
          BY <5>1, Zenon
      <4>2. CASE ~(ptp < lastTime)
        <5>1. LET a == attempt + 0 IN
              IF a >= 3
              THEN NextEpoch /\ lastTime' = 0 /\ attempt' = 1
              ELSE attempt' = a + 1 /\ epoch' = epoch /\ lastTime' = lastTime
          BY <1>8, <4>2, Zenon DEF ReadAgain
        <5> QED
          BY <5>1, Zenon
      <4> QED
        BY <4>1, <4>2
    <3> QED
      BY <1>1, <3>1, SMT DEF NextEpoch, PtpTypes
  <2>3. holder # "none" /\ open
    BY <1>8, Zenon DEF ReadAgain
  <2>4. PtpTypes' /\ MutexHeld' /\ ReadNearBase'
    BY <1>1, <1>3, <1>19, <2>1, <2>2, <2>3, SMT DEF PtpTypes, MutexHeld, ReadNearBase, NearBase
  <2> QED
    BY <1>2, <2>4, Zenon DEF ClockInv
<1>9. ASSUME FirstReading \/ EpochReading \/ NearReading, Returned(ptp), ptp' = ptp, tsc' = tsc
      PROVE  /\ lastTime' \in 1 .. MaxTime /\ lastTsc' \in 0 .. tsc
             /\ epoch' \in 0 .. MaxEpoch /\ epoch <= epoch'
             /\ ReadNearBase'
  <2>1. read' = [time |-> ptp, tsc |-> tsc, epoch |-> epoch']
    BY <1>9, Zenon DEF Returned
  <2>2. read'.time = ptp /\ read'.tsc = tsc /\ read'.epoch = epoch'
    BY <2>1, SMT
  <2>3. /\ lastTime' \in 1 .. MaxTime /\ lastTsc' \in 0 .. tsc
        /\ epoch' \in 0 .. MaxEpoch /\ epoch <= epoch'
    BY <1>1, <1>3, <1>9, SMT DEF FirstReading, EpochReading, NearReading, Anew, PtpTypes
  <2>4. Abs(ptp - (lastTime' + Scaled(factor', tsc - lastTsc'))) <= NearBound
    <3>1. CASE Anew
      <4>1. tsc - lastTsc' = 0 /\ lastTime' = ptp
        BY <1>19, <3>1, SMT DEF Anew
      <4>2. Scaled(factor', tsc - lastTsc') = 0
        BY <1>19, <4>1, ScaledIsNat, Zenon
      <4> QED
        BY <1>4, <1>19, <4>1, <4>2, SMT DEF Abs
    <3>2. CASE NearReading /\ lastTime' = lastTime /\ lastTsc' = lastTsc /\ factor' = factor
      <4>1. tsc - lastTsc \in Nat /\ lastTime \in Int
        BY <1>1, <1>3, <1>19, SMT DEF PtpTypes
      <4>2. Scaled(factor, tsc - lastTsc) \in Nat
        BY <1>19, <4>1, ScaledIsNat, Zenon
      <4>3. Abs((ptp - lastTime) - Scaled(factor, tsc - lastTsc)) <= NearBound
        BY <3>2, Zenon DEF NearReading
      <4> QED
        BY <1>4, <1>19, <3>2, <4>1, <4>2, <4>3, SMT DEF Abs
    <3> QED
      BY <1>9, <3>1, <3>2, Zenon DEF FirstReading, EpochReading, NearReading
  <2>5. ReadNearBase'
    BY <1>1, <1>3, <1>9, <1>19, <2>2, <2>3, <2>4, SMT DEF ReadNearBase, NearBase, PtpTypes
  <2> QED
    BY <2>3, <2>5
<1>10. CASE RealReturns
  <2>1. /\ UNCHANGED <<ptp, tsc, steps, stamp, domEpoch, pres, packet, open>>
        /\ Returned(ptp) /\ Leave /\ holder \in {"real", "force", "local"}
    BY <1>10, Zenon DEF RealReturns, ProxyOnly, clocks, dom
  <2>2. FirstReading \/ EpochReading \/ NearReading
    BY <1>1, <1>10, Readings, Zenon DEF RealReturns
  <2>3. holder' = "none" /\ attempt' = 0 /\ local' \in {local, "done"}
    BY <2>1, Zenon DEF Leave
  <2>4. /\ lastTime' \in 1 .. MaxTime /\ lastTsc' \in 0 .. tsc
        /\ epoch' \in 0 .. MaxEpoch /\ epoch <= epoch' /\ ReadNearBase'
    BY <1>9, <2>1, <2>2, Zenon
  <2>5. PtpTypes' /\ MutexHeld'
    BY <1>1, <1>3, <1>19, <2>1, <2>3, <2>4, SMT DEF PtpTypes, MutexHeld
  <2> QED
    BY <1>2, <2>4, <2>5, Zenon DEF ClockInv
<1>11. CASE GetLocalTime
  <2>1. /\ UNCHANGED <<ptp, tsc, steps, lastTime, lastTsc, factor, epoch, local, holder, attempt, stamp,
                       domEpoch, pres, packet, open>>
        /\ Returned(Extrapolated) /\ holder = "none"
    BY <1>11, Zenon DEF GetLocalTime, ProxyOnly, proxy, clocks, dom
  <2>2. PtpTypes' /\ MutexHeld'
    BY <1>1, <2>1, SMT DEF PtpTypes, MutexHeld
  <2>3. read' = [time |-> Extrapolated, tsc |-> tsc, epoch |-> epoch']
    BY <2>1, Zenon DEF Returned
  <2>4. read'.time = Extrapolated /\ read'.tsc = tsc /\ read'.epoch = epoch'
    BY <2>3, SMT
  <2>5. /\ Scaled(factor, tsc - lastTsc) \in Nat /\ lastTime # 0
        /\ Extrapolated = lastTime + Scaled(factor, tsc - lastTsc)
    <3>1. tsc - lastTsc \in Nat /\ lastTime # 0
      BY <1>1, <1>3, <1>19, <2>1, SMT DEF PtpTypes, MutexHeld
    <3> QED
      BY <1>19, <3>1, ScaledIsNat, Zenon DEF Extrapolated
  <2>6. ReadNearBase'
    BY <1>1, <1>3, <1>4, <1>19, <2>1, <2>4, <2>5, SMT DEF ReadNearBase, NearBase, PtpTypes, Abs
  <2> QED
    BY <1>2, <2>2, <2>6, Zenon DEF ClockInv
<1>12. CASE GetLocalTimeUpdates \/ LocalCallsReal \/ LocalTimeUpdated
  <2>1. UNCHANGED <<ptp, tsc, steps, lastTime, lastTsc, factor, epoch, stamp, domEpoch, pres, packet, read, open>>
    BY <1>12, Zenon DEF GetLocalTimeUpdates, LocalCallsReal, LocalTimeUpdated, ProxyOnly, proxy,
         clocks, dom
  <2>2. local' \in {"idle", "call", "done"} /\ holder = "none"
    BY <1>1, <1>12, Zenon DEF GetLocalTimeUpdates, LocalCallsReal, LocalTimeUpdated, PtpTypes, proxy
  <2>3. \/ holder' = "none" /\ attempt' = attempt
        \/ holder' = "local" /\ attempt' = 1 /\ local = "call"
    BY <1>12, <2>2, Zenon DEF GetLocalTimeUpdates, LocalCallsReal, LocalTimeUpdated
  <2>4. PtpTypes' /\ ReadNearBase'
    BY <1>1, <2>1, <2>2, <2>3, SMT DEF PtpTypes, ReadNearBase, NearBase
  <2>5. /\ holder' = "none" \/ (holder' = "local" /\ local = "call" /\ holder' # "rx")
        /\ local' # "idle" => local # "idle" \/ open
    BY <1>12, <2>2, <2>3, Zenon DEF GetLocalTimeUpdates, LocalCallsReal, LocalTimeUpdated, proxy
  <2>6. MutexHeld'
    BY <1>1, <2>1, <2>2, <2>5, SMT DEF MutexHeld
  <2> QED
    BY <1>2, <2>4, <2>6, Zenon DEF ClockInv
<1>13. CASE CleanUp
  <2>1. /\ UNCHANGED <<ptp, tsc, steps, lastTime, lastTsc, factor, epoch, local, holder, attempt, stamp,
                       domEpoch, pres, packet, read>>
        /\ holder = "none" /\ local = "idle"
    BY <1>13, Zenon DEF CleanUp, ProxyOnly, clocks, dom
  <2>2. PtpTypes' /\ MutexHeld' /\ ReadNearBase'
    BY <1>1, <2>1, SMT DEF PtpTypes, MutexHeld, ReadNearBase, NearBase
  <2> QED
    BY <1>2, <2>2, Zenon DEF ClockInv
<1>14. CASE CalculateConversionCoeffs
  <2>1. /\ UNCHANGED <<ptp, tsc, steps, epoch, local, holder, attempt, domEpoch, pres, packet>>
        /\ ~open /\ lastTime' = ptp /\ lastTsc' = tsc /\ stamp' = NoTime /\ read' = NoTime /\ open'
    BY <1>14, Zenon DEF CalculateConversionCoeffs, Rebase, clocks
  <2>2. PtpTypes'
    BY <1>1, <1>3, <1>19, <2>1, SMT DEF PtpTypes
  <2>3. MutexHeld' /\ ReadNearBase'
    BY <1>1, <1>3, <2>1, SMT DEF PtpTypes, MutexHeld, ReadNearBase, NearBase
  <2> QED
    BY <1>2, <2>2, <2>3, Zenon DEF ClockInv
<1>15. CASE Update
  <2>1. UNCHANGED <<ptp, tsc, steps, lastTime, lastTsc, factor, epoch, local, holder, attempt, domEpoch,
                    packet, read, open>>
    BY <1>15, Zenon DEF Update, proxy, clocks
  <2>2. PICK d \in Transit : /\ Extended(ptp + d) <= MaxStamp
                             /\ stamp' = Extended(ptp + d) /\ pres' = ptp + d
    BY <1>15, Zenon DEF Update
  <2>3. ptp + d \in 1 .. MaxTime + Wrap /\ stamp # NoTime
    BY <1>1, <1>3, <1>15, SMT DEF PtpTypes, Update
  <2>4. stamp' \in 0 .. MaxStamp
    <3>1. stamp \in Nat /\ MaxStamp \in Nat
      BY <1>1, <1>3, <2>3, SMT DEF PtpTypes, MaxStamp
    <3>2. Extended(ptp + d) \in Nat
      <4>1. ptp + d \in Nat
        BY <1>3, <2>3, SMT
      <4> QED
        BY <3>1, <4>1, ExtendedBounds, Zenon
    <3> QED
      BY <2>2, <3>1, <3>2, SMT
  <2>5. pres' \in 0 .. MaxTime + Wrap
    BY <1>3, <2>2, <2>3, SMT
  <2>6. PtpTypes' /\ MutexHeld' /\ ReadNearBase'
    BY <1>1, <2>1, <2>4, <2>5, SMT DEF PtpTypes, MutexHeld, ReadNearBase, NearBase
  <2> QED
    BY <1>2, <2>6, Zenon DEF ClockInv
<1>16. CASE AskForTime
  <2>1. UNCHANGED <<ptp, tsc, steps, lastTime, lastTsc, factor, epoch, local, stamp, pres, read, open>>
    BY <1>16, Zenon DEF AskForTime, proxy, clocks
  <2>2. /\ open /\ holder' = "rx" /\ attempt' = 1 /\ domEpoch' \in {domEpoch, epoch}
        /\ \E d \in Transit : packet' = ptp + d
    BY <1>16, Zenon DEF AskForTime
  <2>3. packet' \in 1 .. MaxTime + Wrap /\ packet' # NoTime
    BY <1>1, <1>3, <2>2, SMT DEF PtpTypes
  <2>4. PtpTypes' /\ MutexHeld' /\ ReadNearBase'
    BY <1>1, <2>1, <2>2, <2>3, SMT DEF PtpTypes, MutexHeld, ReadNearBase, NearBase
  <2> QED
    BY <1>2, <2>4, Zenon DEF ClockInv
<1>17. CASE UpdateInNewEpoch
  <2>1. /\ UNCHANGED <<ptp, tsc, steps, open>>
        /\ Returned(ptp) /\ Leave /\ holder = "rx"
        /\ domEpoch' \in {epoch', domEpoch}
        /\ stamp' = InitLastTimeStamp(ptp, packet) /\ pres' = packet /\ packet' = NoTime
    BY <1>17, Zenon DEF UpdateInNewEpoch, clocks
  <2>2. FirstReading \/ EpochReading \/ NearReading
    BY <1>1, <1>17, Readings, Zenon DEF UpdateInNewEpoch
  <2>3. holder' = "none" /\ attempt' = 0 /\ local' = local
    BY <2>1, Zenon DEF Leave
  <2>4. /\ lastTime' \in 1 .. MaxTime /\ lastTsc' \in 0 .. tsc
        /\ epoch' \in 0 .. MaxEpoch /\ epoch <= epoch' /\ ReadNearBase'
    BY <1>9, <2>1, <2>2, Zenon
  <2>5. packet \in 1 .. MaxTime + Wrap /\ packet \in Nat
    BY <1>1, <1>3, <2>1, SMT DEF PtpTypes, MutexHeld
  <2>6. stamp' \in 0 .. MaxStamp
    <3>1. ptp \in 1 .. MaxTime
      BY <1>1, Zenon DEF PtpTypes
    <3> QED
      BY <2>1, <2>5, <3>1, InitBounds, Zenon
  <2>7. PtpTypes' /\ MutexHeld'
    BY <1>1, <1>3, <2>1, <2>3, <2>4, <2>5, <2>6, SMT DEF PtpTypes, MutexHeld
  <2> QED
    BY <1>2, <2>4, <2>7, Zenon DEF ClockInv
<1>18. CASE UNCHANGED ptpVars
  <2>1. UNCHANGED <<ptp, tsc, steps, lastTime, lastTsc, factor, epoch, local, holder, attempt, stamp,
                    domEpoch, pres, packet, read, open>>
    BY <1>18, Zenon DEF ptpVars, clocks, proxy, dom
  <2>2. PtpTypes' /\ MutexHeld' /\ ReadNearBase'
    BY <1>1, <2>1, SMT DEF PtpTypes, MutexHeld, ReadNearBase, NearBase
  <2> QED
    BY <1>2, <2>2, Zenon DEF ClockInv
<1> QED
  BY <1>5, <1>6, <1>7, <1>8, <1>10, <1>11, <1>12, <1>13, <1>14, <1>15, <1>16, <1>17, <1>18, Zenon
     DEF PtpNext

\* The clock starts in order.
LEMMA ClockInit == PtpInit => ClockInv
<1> SUFFICES ASSUME PtpInit PROVE ClockInv
  OBVIOUS
<1>1. PtpFlags
  BY Zenon DEF PtpInit, PtpFlags
<1>2. Grain \in Factors
  BY PtpConstants, SMT DEF Factors, Believed
<1>3. PtpTypes /\ MutexHeld /\ ReadNearBase
  BY <1>2, PtpConstants, SMT DEF PtpInit, PtpTypes, MutexHeld, ReadNearBase, NearBase
<1> QED
  BY <1>1, <1>3, Zenon DEF ClockInv

\* Two reads in a row that carry the same epoch are both near the base they share.
LEMMA EpochStep ==
  ASSUME ClockInv, [PtpNext]_ptpVars, read # NoTime, read' # NoTime, read.epoch = read'.epoch
  PROVE  /\ 3 * ((read'.time - read.time) + Bound) + 2 >= 2 * (read'.tsc - read.tsc)
         /\ 2 * ((read'.time - read.time) - Bound) - 1 <= 3 * (read'.tsc - read.tsc)
<1>1. PtpTypes /\ MutexHeld /\ ReadNearBase
  BY Zenon DEF ClockInv
<1>2. NearBound \in Nat /\ Bound = 2 * NearBound
  BY Bounds
<1>3. read.time \in Int /\ read.tsc \in 0 .. tsc /\ read.epoch \in 0 .. epoch
  BY <1>1, Zenon DEF ReadNearBase
<1>4. CASE read' = read
  BY <1>1, <1>2, <1>3, <1>4, PtpConstants, SMT DEF PtpTypes
<1>5. ASSUME read.epoch = epoch, NEW t \in Int, read' = [time |-> t, tsc |-> tsc, epoch |-> epoch'],
             Abs(t - (lastTime + Scaled(factor, tsc - lastTsc))) <= NearBound
      PROVE  /\ 3 * ((read'.time - read.time) + Bound) + 2 >= 2 * (read'.tsc - read.tsc)
             /\ 2 * ((read'.time - read.time) - Bound) - 1 <= 3 * (read'.tsc - read.tsc)
  <2> DEFINE a == read.tsc - lastTsc
             b == tsc - lastTsc
             x == Scaled(factor, a)
             y == Scaled(factor, b)
             s == read.time
  <2>1. read'.time = t /\ read'.tsc = tsc
    BY <1>5, SMT
  <2>2. lastTsc <= read.tsc /\ Abs(s - (lastTime + x)) <= NearBound
    BY <1>1, <1>5, Zenon DEF ReadNearBase, NearBase
  <2>3. /\ a \in Nat /\ b \in Nat /\ a <= b /\ b - a = tsc - read.tsc
        /\ factor \in Factors /\ lastTime \in Int /\ s \in Int
    BY <1>1, <1>3, <2>2, PtpConstants, SMT DEF PtpTypes
  <2>4. x \in Nat /\ y \in Nat
    BY <2>3, ScaledIsNat, Zenon
  <2>5. 3 * (y - x) + 2 >= 2 * (b - a) /\ 2 * (y - x) <= 3 * (b - a) + 1
    BY <2>3, ScaledSpan, Zenon
  <2>6. Abs(t - (lastTime + y)) <= NearBound
    BY <1>5, Zenon
  <2> HIDE DEF a, b, x, y, s
  <2>7. 3 * ((t - s) + Bound) + 2 >= 2 * (b - a) /\ 2 * ((t - s) - Bound) - 1 <= 3 * (b - a)
    BY <1>2, <1>5, <2>2, <2>3, <2>4, <2>5, <2>6, SMT DEF Abs
  <2> QED
    BY <2>1, <2>3, <2>7, Zenon DEF s
<1>6. CASE RealReturns \/ UpdateInNewEpoch
  <2>1. Returned(ptp) /\ tsc' = tsc
    BY <1>6, Zenon DEF RealReturns, UpdateInNewEpoch, ProxyOnly, clocks
  <2>2. FirstReading \/ EpochReading \/ NearReading
    BY <1>1, <1>6, Readings, Zenon DEF RealReturns, UpdateInNewEpoch
  <2>3. read' = [time |-> ptp, tsc |-> tsc, epoch |-> epoch'] /\ read'.epoch = epoch'
    BY <2>1, SMT DEF Returned
  <2>4. epoch' = epoch /\ read.epoch = epoch
    BY <1>1, <1>3, <2>2, <2>3, SMT DEF FirstReading, EpochReading, NearReading, PtpTypes
  <2>5. NearReading
    BY <1>1, <1>3, <2>2, <2>4, SMT DEF FirstReading, EpochReading, ReadNearBase, NearBase, PtpTypes
  <2>6. /\ ptp \in Int /\ lastTime \in Int /\ tsc - lastTsc \in Nat /\ factor \in Factors
        /\ Abs((ptp - lastTime) - Scaled(factor, tsc - lastTsc)) <= NearBound
    BY <1>1, <2>5, PtpConstants, SMT DEF NearReading, PtpTypes
  <2>7. Scaled(factor, tsc - lastTsc) \in Nat
    BY <2>6, ScaledIsNat, Zenon
  <2>8. Abs(ptp - (lastTime + Scaled(factor, tsc - lastTsc))) <= NearBound
    BY <1>2, <2>6, <2>7, SMT DEF Abs
  <2> QED
    BY <1>5, <2>3, <2>4, <2>6, <2>8, Zenon
<1>7. CASE GetLocalTime
  <2>1. Returned(Extrapolated) /\ epoch' = epoch
    BY <1>7, Zenon DEF GetLocalTime, proxy
  <2>2. read' = [time |-> Extrapolated, tsc |-> tsc, epoch |-> epoch'] /\ read'.epoch = epoch'
    BY <2>1, SMT DEF Returned
  <2>3. lastTime \in Int /\ tsc - lastTsc \in Nat /\ factor \in Factors
    BY <1>1, PtpConstants, SMT DEF PtpTypes
  <2>4. Scaled(factor, tsc - lastTsc) \in Nat
    BY <2>3, ScaledIsNat, Zenon
  <2>5. /\ Extrapolated \in Int
        /\ Abs(Extrapolated - (lastTime + Scaled(factor, tsc - lastTsc))) <= NearBound
    BY <1>2, <2>3, <2>4, SMT DEF Extrapolated, Abs
  <2> QED
    BY <1>5, <2>1, <2>2, <2>5, Zenon
<1> QED
  BY <1>4, <1>6, <1>7, Zenon DEF PtpNext, ptpVars, Tick, Warp, CallReal, ReadAgain,
     GetLocalTimeUpdates, LocalCallsReal, LocalTimeUpdated, CleanUp, CalculateConversionCoeffs,
     Update, AskForTime

\* getLocalTime() and getRealLocalTime() never let the time jump within an epoch: between two reads
\* in a row that carry the same epoch counter it moves on with the system clock, by a factor of no
\* less than 1 / 1.5 and no more than 1.5, up to the threshold, for all steps of the clock and
\* whoever replaces the base and the factor in between.
THEOREM TimeIsBounded == PtpSpec => EpochBoundsError
<1>1. PtpInit => ClockInv
  BY ClockInit
<1>2. ClockInv /\ [PtpNext]_ptpVars => ClockInv'
  BY ClockStep
<1>3. ClockInv /\ [PtpNext]_ptpVars =>
        [read # NoTime /\ read' # NoTime /\ read.epoch = read'.epoch =>
           LET d == read'.time - read.time
               e == read'.tsc - read.tsc IN
           /\ 3 * (d + Bound) + 2 >= 2 * e
           /\ 2 * (d - Bound) - 1 <= 3 * e]_ptpVars
  BY EpochStep
<1> QED
  BY <1>1, <1>2, <1>3, PTL DEF PtpSpec, EpochBoundsError

----------------------------------------------------------------------------
(* Stamps                                                                  *)

\* Every step keeps the stamp true, if no step of the clock hits a reset and no packet is late.
LEMMA StampStep ==
  ASSUME {"reset", "late"} \subseteq TimeAssume, ClockInv, StampInv, [PtpNext]_ptpVars
  PROVE  StampInv'
<1>1. PtpFlags /\ PtpTypes /\ MutexHeld /\ PacketAhead /\ StampTrue
  BY Zenon DEF ClockInv, StampInv
<1>2. /\ Wrap \in Nat \ {0} /\ MaxTime \in Nat \ {0} /\ NoTime \notin Int /\ Wrap \div 2 \in Nat
      /\ Steps \subseteq Int
      /\ \A d \in Transit : d \in 0 .. Wrap \div 2 - 1
  BY PtpConstants, SMT
<1>3. packet # NoTime <=> holder = "rx"
  BY <1>1, Zenon DEF MutexHeld
<1>4. CASE Tick
  <2>1. /\ UNCHANGED <<epoch, stamp, domEpoch, pres, packet, unseen>>
        /\ ptp' = ptp + 1 /\ (packet = NoTime \/ ptp # packet)
    BY <1>4, Zenon DEF Tick, proxy, dom
  <2>2. StampTrue'
    BY <1>1, <2>1, Zenon DEF StampTrue
  <2>3. PacketAhead'
    <3>1. CASE packet - ptp \in 0 .. Wrap \div 2 - 1 /\ packet # NoTime
      BY <1>1, <1>2, <2>1, <3>1, SMT DEF PacketAhead, PtpTypes
    <3>2. CASE packet = NoTime \/ (stamp # NoTime /\ (unseen \/ domEpoch # epoch))
      BY <2>1, <3>2, Zenon DEF PacketAhead
    <3> QED
      BY <1>1, <3>1, <3>2, Zenon DEF PacketAhead
  <2> QED
    BY <2>2, <2>3, Zenon DEF StampInv
<1>5. CASE Warp
  <2>1. UNCHANGED <<epoch, stamp, domEpoch, pres, packet>>
    BY <1>5, Zenon DEF Warp, proxy, dom
  <2>2. PICK d \in Steps :
          /\ packet # NoTime /\ Abs(d) <= EpochThreshold => packet - (ptp + d) \in 0 .. Wrap \div 2 - 1
          /\ packet = NoTime \/ stamp # NoTime
          /\ ptp' = ptp + d
          /\ unseen' = (unseen \/ Abs(d) > EpochThreshold)
    BY <1>5, Zenon DEF Warp
  <2>3. unseen => unseen'
    BY <2>2, Zenon
  <2>4. StampTrue'
    BY <1>1, <2>1, <2>3, Zenon DEF StampTrue
  <2>5. CASE Abs(d) > EpochThreshold
    <3>1. unseen'
      BY <2>2, <2>5, Zenon
    <3>2. packet' # NoTime => stamp' # NoTime
      BY <2>1, <2>2, Zenon
    <3>3. PacketAhead'
      BY <3>1, <3>2, Zenon DEF PacketAhead
    <3> QED
      BY <2>4, <3>3, Zenon DEF StampInv
  <2>6. CASE ~(Abs(d) > EpochThreshold)
    <3>1. Abs(d) <= EpochThreshold
      BY <1>2, <2>6, PtpConstants, SMT DEF Abs
    <3>2. packet' # NoTime => packet' - ptp' \in 0 .. Wrap \div 2 - 1
      BY <2>1, <2>2, <3>1, Zenon
    <3>3. PacketAhead'
      BY <3>2, Zenon DEF PacketAhead
    <3> QED
      BY <2>4, <3>3, Zenon DEF StampInv
  <2> QED
    BY <2>5, <2>6
<1>6. CASE CallReal \/ GetLocalTime \/ GetLocalTimeUpdates \/ LocalCallsReal \/ LocalTimeUpdated
           \/ CleanUp \/ UNCHANGED ptpVars
  <2>1. UNCHANGED <<ptp, epoch, stamp, domEpoch, pres, packet, unseen>>
    BY <1>6, Zenon DEF CallReal, GetLocalTime, GetLocalTimeUpdates, LocalCallsReal,
         LocalTimeUpdated, CleanUp, ProxyOnly, proxy, clocks, dom, ptpVars
  <2> QED
    BY <1>1, <2>1, Zenon DEF StampInv, StampTrue, PacketAhead
<1>7. CASE ReadAgain
  <2>1. /\ UNCHANGED <<ptp, stamp, domEpoch, pres, packet>>
        /\ NextEpoch \/ UNCHANGED <<epoch, unseen>>
    BY <1>7, Zenon DEF ReadAgain, ProxyOnly, clocks, dom
  <2>2. CASE UNCHANGED <<epoch, unseen>>
    BY <1>1, <2>1, <2>2, Zenon DEF StampInv, StampTrue, PacketAhead
  <2>3. CASE NextEpoch
    <3>1. domEpoch' # epoch'
      BY <1>1, <2>1, <2>3, PtpConstants, SMT DEF NextEpoch, PtpTypes
    <3> QED
      BY <1>1, <2>1, <3>1, Zenon DEF StampInv, StampTrue, PacketAhead
  <2> QED
    BY <2>1, <2>2, <2>3
<1>8. CASE RealReturns
  <2>1. /\ UNCHANGED <<stamp, domEpoch, pres, packet>>
        /\ packet = NoTime
    BY <1>3, <1>8, Zenon DEF RealReturns, ProxyOnly, dom
  <2>2. FirstReading \/ EpochReading \/ NearReading
    BY <1>1, <1>8, Readings, Zenon DEF RealReturns, ClockInv
  <2>3. domEpoch' # epoch' \/ (epoch' = epoch /\ (unseen' <=> unseen))
    <3>1. CASE EpochReading
      BY <1>1, <2>1, <3>1, PtpConstants, SMT DEF EpochReading, PtpTypes
    <3> QED
      BY <2>2, <3>1, Zenon DEF FirstReading, NearReading
  <2> QED
    BY <1>1, <2>1, <2>3, Zenon DEF StampInv, StampTrue, PacketAhead
<1>9. CASE CalculateConversionCoeffs
  <2>1. stamp' = NoTime /\ packet' = packet /\ holder = "none"
    BY <1>1, <1>9, Zenon DEF CalculateConversionCoeffs, MutexHeld
  <2> QED
    BY <1>3, <2>1, Zenon DEF StampInv, StampTrue, PacketAhead
<1>10. CASE Update
  <2>1. /\ UNCHANGED <<epoch, domEpoch, packet, unseen>>
        /\ packet = NoTime /\ stamp # NoTime /\ domEpoch = epoch
    BY <1>10, Zenon DEF Update, proxy
  <2>2. PICK d \in Transit : Arrives(ptp + d) /\ stamp' = Extended(ptp + d) /\ pres' = ptp + d
    BY <1>10, Zenon DEF Update
  <2>3. unseen \/ stamp' = pres'
    <3> SUFFICES ASSUME ~unseen PROVE stamp' = pres'
      OBVIOUS
    <3>1. stamp = pres
      BY <1>1, <2>1, Zenon DEF StampTrue
    <3>2. stamp \in Nat /\ ptp + d \in Nat
      BY <1>1, <1>2, <2>1, PtpConstants, SMT DEF PtpTypes
    <3>3. ptp + d > stamp /\ (ptp + d) - stamp < Wrap
      BY <2>1, <2>2, <3>1, Zenon DEF Arrives
    <3>4. Extended(ptp + d) = ptp + d
      BY <3>2, <3>3, ExtendedExact, Zenon
    <3> QED
      BY <2>2, <3>4, Zenon
  <2> QED
    BY <2>1, <2>3, Zenon DEF StampInv, StampTrue, PacketAhead
<1>11. CASE AskForTime
  <2>1. /\ ptp' = ptp /\ holder' = "rx"
        /\ \E d \in Transit : packet' = ptp + d
    BY <1>11, Zenon DEF AskForTime, clocks
  <2>2. packet' - ptp' \in 0 .. Wrap \div 2 - 1 /\ packet' # NoTime
    BY <1>1, <1>2, <2>1, SMT DEF PtpTypes
  <2> QED
    BY <2>2, Zenon DEF StampInv, StampTrue, PacketAhead
<1>12. CASE UpdateInNewEpoch
  <2>1. /\ holder = "rx" /\ packet # NoTime
        /\ domEpoch' = IF stamp = NoTime THEN epoch' ELSE domEpoch
        /\ stamp' = InitLastTimeStamp(ptp, packet) /\ pres' = packet /\ packet' = NoTime
    BY <1>3, <1>12, Zenon DEF UpdateInNewEpoch
  <2>2. FirstReading \/ EpochReading \/ NearReading
    BY <1>1, <1>12, Readings, Zenon DEF UpdateInNewEpoch
  <2>3. CASE packet - ptp \in 0 .. Wrap \div 2 - 1
    <3>1. ptp \in Nat /\ packet \in Nat
      BY <1>1, <1>2, <2>1, SMT DEF PtpTypes
    <3>2. stamp' = pres'
      BY <2>1, <2>3, <3>1, InitExact, Zenon
    <3> QED
      BY <2>1, <3>2, Zenon DEF StampInv, StampTrue, PacketAhead
  <2>4. CASE stamp # NoTime /\ (unseen \/ domEpoch # epoch)
    <3>1. domEpoch' = domEpoch
      BY <2>1, <2>4, Zenon
    <3>2. domEpoch' # epoch' \/ unseen'
      <4>1. CASE EpochReading
        BY <1>1, <3>1, <4>1, PtpConstants, SMT DEF EpochReading, PtpTypes
      <4> QED
        BY <2>2, <2>4, <3>1, <4>1, Zenon DEF FirstReading, NearReading
    <3> QED
      BY <2>1, <3>2, Zenon DEF StampInv, StampTrue, PacketAhead
  <2> QED
    BY <1>1, <2>1, <2>3, <2>4, Zenon DEF PacketAhead
<1> QED
  BY <1>4, <1>5, <1>6, <1>7, <1>8, <1>9, <1>10, <1>11, <1>12, Zenon DEF PtpNext

\* IasAvbRxStreamClockDomain recovers the presentation time of the packet it has processed last,
\* across wraps of the 32-bit stamp and steps of the clock, provided that no packet is late and no
\* step of the clock falls between a reset and the reading the packet is compared with.
THEOREM StampIsExact ==
  ASSUME {"reset", "late"} \subseteq TimeAssume
  PROVE  PtpSpec => []StampExact
<1>1. PtpInit => ClockInv /\ StampInv
  <2> SUFFICES ASSUME PtpInit PROVE ClockInv /\ StampInv
    OBVIOUS
  <2>1. ClockInv
    BY ClockInit
  <2>2. StampInv
    BY Zenon DEF PtpInit, StampInv, StampTrue, PacketAhead
  <2> QED
    BY <2>1, <2>2
<1>2. ClockInv /\ StampInv /\ [PtpNext]_ptpVars => ClockInv' /\ StampInv'
  BY ClockStep, StampStep
<1>3. ClockInv /\ StampInv => StampExact
  <2> SUFFICES ASSUME ClockInv, StampInv PROVE StampExact
    OBVIOUS
  <2>1. PtpFlags /\ PtpTypes /\ StampTrue
    BY Zenon DEF ClockInv, StampInv
  <2>2. open \in BOOLEAN /\ unseen \in BOOLEAN /\ coeff \in {"one", "high", "low"}
    BY <2>1, Zenon DEF PtpFlags
  <2>3. domEpoch \in 0 .. MaxEpoch /\ lastTsc \in 0 .. MaxTime
    BY <2>1, PtpConstants, SMT DEF PtpTypes
  <2>4. PtpTypeOK
    BY <2>1, <2>2, <2>3, Zenon DEF PtpTypeOK, PtpTypes
  <2> QED
    BY <2>1, <2>4, Zenon DEF StampExact, StampTrue
<1> QED
  BY <1>1, <1>2, <1>3, PTL DEF PtpSpec

----------------------------------------------------------------------------
(* Arithmetic of multiples and quotients                                   *)

\* What a quotient is.
LEMMA DivMod ==
  ASSUME NEW a \in Nat, NEW b \in Nat \ {0}
  PROVE  a \div b \in Nat /\ b * (a \div b) <= a /\ a < b * (a \div b) + b
OBVIOUS

\* A multiple divided by its factor.
LEMMA Quotient ==
  ASSUME NEW k \in Nat \ {0}, NEW i \in Nat
  PROVE  (k * i) \div k = i
OBVIOUS

\* A multiple has no remainder.
LEMMA NoRemainder ==
  ASSUME NEW k \in Int, NEW i \in Nat \ {0}
  PROVE  (k * i) % i = 0
OBVIOUS

\* The next multiple.
LEMMA NextMultiple ==
  ASSUME NEW k \in Int, NEW i \in Nat
  PROVE  (k + 1) * i = k * i + i /\ k * i \in Int
OBVIOUS

\* A quotient rounded up is enough, and as large as it has to be.
LEMMA CeilBound ==
  ASSUME NEW a \in Nat, NEW b \in Nat \ {0}
  PROVE  CeilDiv(a, b) \in Nat /\ a <= CeilDiv(a, b) * b /\ (a # 0 => CeilDiv(a, b) # 0)
<1>1. a + b - 1 \in Nat
  OBVIOUS
<1> DEFINE q == (a + b - 1) \div b
<1>2. q \in Nat /\ b * q <= a + b - 1 /\ a + b - 1 < b * q + b
  BY <1>1, DivMod
<1>3. CeilDiv(a, b) = q
  BY DEF CeilDiv
<1> HIDE DEF q
<1>4. q * b = b * q /\ b * 0 = 0 /\ b * q \in Nat
  BY <1>2
<1>5. a <= b * q
  BY <1>2, <1>4
<1>6. a # 0 => q # 0
  BY <1>4, <1>5
<1> QED
  BY <1>2, <1>3, <1>4, <1>5, <1>6

\* A supported frequency has an interval of whole clock ticks.
LEMMA Intervals ==
  ASSUME NEW f \in Supported
  PROVE  Second \div f \in Nat \ {0}
<1>1. f \in Nat \ {0} /\ Second \in Nat \ {0} /\ Second % f = 0
  BY TimingConstants
<1>2. CASE Second < f
  <2>1. Second % f = Second
    BY <1>1, <1>2
  <2> QED
    BY <1>1, <2>1
<1>3. CASE Second >= f
  BY <1>1, <1>3, DivMod
<1> QED
  BY <1>1, <1>2, <1>3
----------------------------------------------------------------------------
(* The stamps of a transmit stream: the invariant                          *)

\* the types of the variables
StreamTypes ==
  [kind : {"none", "audio", "crf"}, ready : BOOLEAN, active : BOOLEAN,
   samples : Nat, interval : Nat \ {0}, minUpdate : Nat]
RefTypes == [count : Nat, time : Nat, offset : Int, launch : Nat]
MasterTypes == [count : Nat, time : Nat, lastCount : Nat, lastTime : Nat, lastRef : Nat]
ClkTypes == [count : Nat, time : Nat, zero : Nat, seen : BOOLEAN, starts : Nat]

\* the time of event n of the clock
EventTime(n) == clk.zero + n * txs.interval

\* a stream that is set up has packets of at least one sample, and waits for one only then
StreamInv ==
  /\ txs \in StreamTypes
  /\ txs.ready <=> txs.kind # "none"
  /\ txs.ready => txs.samples # 0
  /\ ~txs.ready => clk.count = 0 /\ ref.time = 0

CallInv ==
  /\ ttCall \in {"idle", "wait"} /\ ttLock \in BOOLEAN /\ window \in 0 .. TimingEnd /\ ttLaunch \in Nat
  /\ ttCall = "wait" => txs.ready

\* the clock is at an event, and has none before it starts
ClkInv ==
  /\ clk \in ClkTypes
  /\ clk.time = EventTime(clk.count)
  /\ clk.zero = 0 => clk.time = 0
  /\ clk.time = 0 => clk.seen /\ master.lastRef = 0 /\ ref.time = 0

\* the pair m is of the clock as it is, and the stream with the reference plane r follows it
Follows(r, m) ==
  /\ r \in RefTypes /\ m \in MasterTypes
  /\ r.time # 0 /\ m.time # 0 /\ m.lastRef = 0 /\ m.time <= clk.time
  /\ m.time = EventTime(m.count)
  /\ m.lastTime # 0 => m.lastTime = EventTime(m.lastCount) /\ m.lastCount < m.count
  /\ r.count - r.offset \in Nat
  /\ txs.kind = "audio" => r.time = EventTime(r.count - r.offset)

\* the stream follows its clock, or the clock has started again and cannot be taken for the old one
ReferenceInv ==
  /\ ref \in RefTypes /\ master \in MasterTypes
  /\ ref.time = 0 => ref.count = 0
  /\ txs.kind # "audio" => master.lastRef = 0
  /\ ref.time # 0 => IF clk.seen THEN Follows(ref, master)
                     ELSE master.lastRef = 0 /\ master.time < clk.time /\ clk.count <= master.count

\* the next stamp is the one due, and a stream that starts anew goes on after the time it had reached
JudgedInv ==
  /\ judged.onGrid /\ judged.inOrder /\ judged.next \in Nat
  /\ judged.floor = IF ref.time = 0 THEN master.lastRef ELSE 0
  /\ ref.time = 0 => judged.next = 0
  /\ judged.next # 0 /\ clk.seen => judged.next = EventTime(ref.count - ref.offset)
  /\ judged.next # 0 /\ txs.kind = "audio" => judged.next = ref.time

TimingInv == StreamInv /\ CallInv /\ ClkInv /\ ReferenceInv /\ JudgedInv

\* No stream, no clock and no reference to begin with.
LEMMA TimingInitInv == TimingInit => TimingInv
<1> SUFFICES ASSUME TimingInit PROVE TimingInv
  OBVIOUS
<1> USE DEF TimingInit, NoReference, NoMaster, NewStamps
<1>1. StreamInv
  BY DEF StreamInv, StreamTypes
<1>2. CallInv
  <2>1. TimingEnd \in Nat
    BY TimingConstants
  <2>2. window \in 0 .. TimingEnd /\ ttLaunch \in Nat /\ ttCall = "idle"
    BY <2>1
  <2>3. ttLock \in BOOLEAN
    BY Zenon
  <2> QED
    BY <2>2, <2>3, Zenon DEF CallInv
<1>3. ClkInv
  BY DEF ClkInv, ClkTypes, EventTime
<1>4. ReferenceInv
  BY DEF ReferenceInv, RefTypes, MasterTypes
<1>5. JudgedInv
  BY DEF JudgedInv
<1> QED
  BY <1>1, <1>2, <1>3, <1>4, <1>5 DEF TimingInv

\* The property is a part of the invariant.
LEMMA TimingParts == TimingInv => StampsOnGrid
BY DEF TimingInv, StreamInv, StreamTypes, CallInv, ReferenceInv, RefTypes, JudgedInv, StampsOnGrid, TimingTypeOK

\* There is a reference when the clock has started.
LEMMA ResetSucceeds ==
  ASSUME NEW start
  PROVE  ResetTime(start).ok <=> clk.time # 0
<1> DEFINE R(a, b, c) == [ref |-> a, master |-> b, ok |-> c]
<1>1. \A a, b, c : R(a, b, c).ok = c
  OBVIOUS
<1>2. \E a, b : ResetTime(start) = R(a, b, clk.time # 0)
  BY Zenon DEF ResetTime
<1> QED
  BY <1>1, <1>2, Zenon

----------------------------------------------------------------------------
(* A packet                                                                *)

\* A stream that starts anew follows the clock, and starts after the time it had reached.
LEMMA ResetFollows ==
  ASSUME TimingInv, txs.ready, NeedsReset, clk.time # 0, NEW start \in Nat
  PROVE  /\ Follows(ResetTime(start).ref, ResetTime(start).master)
         /\ ResetTime(start).ref.time >= master.lastRef
<1> DEFINE skip == SkippedSamples(start)
           r == [count |-> ref.count + skip, time |-> clk.time + skip * txs.interval,
                 offset |-> ref.count - clk.count, launch |-> clk.time + skip * txs.interval]
           m == [NoMaster EXCEPT !.count = clk.count, !.time = clk.time]
<1>1. /\ ref \in RefTypes /\ master \in MasterTypes /\ clk \in ClkTypes /\ ref.count = 0
      /\ txs.kind # "audio" => master.lastRef = 0
      /\ txs.kind \in {"audio", "crf"} /\ txs.interval \in Nat \ {0}
      /\ clk.time = EventTime(clk.count)
  BY DEF TimingInv, StreamInv, StreamTypes, ClkInv, ReferenceInv, NeedsReset
<1>2. /\ clk.time \in Nat /\ clk.count \in Nat /\ clk.zero \in Nat /\ master.lastRef \in Nat
  BY <1>1 DEF ClkTypes, MasterTypes
<1>3. skip \in Nat /\ clk.time + skip * txs.interval >= master.lastRef
  <2> DEFINE behind == IF start > clk.time THEN CeilDiv(start - clk.time, txs.interval) ELSE 0
             sent == IF master.lastRef > clk.time THEN CeilDiv(master.lastRef - clk.time, txs.interval) ELSE 0
  <2>1. behind \in Nat
    <3>1. CASE start > clk.time
      <4>1. start - clk.time \in Nat
        BY <1>2, <3>1
      <4> QED
        BY <1>1, <3>1, <4>1, CeilBound
    <3> QED
      BY <3>1, <1>2
  <2>2. sent \in Nat /\ clk.time + sent * txs.interval >= master.lastRef
    <3>1. CASE master.lastRef > clk.time
      <4>1. master.lastRef - clk.time \in Nat
        BY <1>2, <3>1
      <4>2. sent = CeilDiv(master.lastRef - clk.time, txs.interval)
        BY <3>1
      <4>3. sent \in Nat /\ master.lastRef - clk.time <= sent * txs.interval
        BY <1>1, <4>1, <4>2, CeilBound
      <4> HIDE DEF sent
      <4>4. sent * txs.interval \in Nat
        BY <1>1, <4>3
      <4> QED
        BY <1>2, <4>3, <4>4
    <3>2. CASE master.lastRef <= clk.time
      BY <1>1, <1>2, <3>2
    <3> QED
      BY <3>1, <3>2, <1>2
  <2>3. skip = IF txs.kind = "crf" THEN 0 ELSE IF behind < sent THEN sent ELSE behind
    BY DEF SkippedSamples
  <2> HIDE DEF behind, sent, skip
  <2>4. CASE txs.kind = "crf"
    BY <1>1, <1>2, <2>3, <2>4
  <2>5. CASE txs.kind = "audio"
    <3>1. skip \in Nat /\ skip >= sent
      BY <2>1, <2>2, <2>3, <2>5
    <3>2. skip * txs.interval >= sent * txs.interval /\ skip * txs.interval \in Nat /\ sent * txs.interval \in Nat
      BY <1>1, <2>2, <3>1
    <3> QED
      BY <1>2, <2>2, <3>1, <3>2
  <2> QED
    BY <1>1, <2>4, <2>5
<1>4. ResetTime(start) = [ref |-> r, master |-> m, ok |-> clk.time # 0]
  BY DEF ResetTime
<1> HIDE DEF skip
<1>5. skip * txs.interval \in Nat
  BY <1>1, <1>3
<1>6. r \in RefTypes /\ r.count - r.offset = skip + clk.count /\ r.time # 0 /\ r.time = clk.time + skip * txs.interval
  BY <1>1, <1>2, <1>3, <1>5 DEF RefTypes
<1>7. m \in MasterTypes /\ m.time = clk.time /\ m.count = clk.count /\ m.lastTime = 0 /\ m.lastRef = 0
  BY <1>2 DEF MasterTypes, NoMaster
<1>8. r.time = EventTime(r.count - r.offset)
  <2>1. (skip + clk.count) * txs.interval = skip * txs.interval + clk.count * txs.interval
    BY <1>1, <1>2, <1>3
  <2>2. clk.count * txs.interval \in Nat
    BY <1>1, <1>2
  <2> QED
    BY <1>1, <1>2, <1>5, <1>6, <2>1, <2>2 DEF EventTime
<1>9. Follows(r, m)
  BY <1>1, <1>2, <1>3, <1>6, <1>7, <1>8 DEF Follows
<1>10. clk.time # 0
  OBVIOUS
<1>13. r.time = clk.time + skip * txs.interval
  BY <1>6
<1> HIDE DEF r, m
<1>11. ResetTime(start).ref = r /\ ResetTime(start).master = m
  BY <1>4
<1> QED
  BY <1>3, <1>9, <1>11, <1>13

\* A newer pair of the same clock is a pair of it, and the time of an event is computed exactly.
LEMMA UpdateFollows ==
  ASSUME TimingInv, NEW r, NEW m, Follows(r, m), clk.time \in Nat
  PROVE  /\ Updated(m) \in MasterTypes /\ Updated(m).lastRef = 0
         /\ Updated(m).time # 0 =>
              /\ Follows(r, Updated(m))
              /\ \A count \in Nat : TimeOfEvent(Updated(m), r, count) = EventTime(count - r.offset)
<1>1. /\ m \in MasterTypes /\ r \in RefTypes /\ clk \in ClkTypes /\ clk.time = EventTime(clk.count)
      /\ txs.interval \in Nat \ {0} /\ txs.minUpdate \in Nat
  BY DEF Follows, TimingInv, ClkInv, StreamInv, StreamTypes
<1>2. /\ m.count \in Nat /\ m.time \in Nat /\ m.lastCount \in Nat /\ m.lastTime \in Nat /\ m.lastRef = 0
      /\ clk.count \in Nat /\ clk.zero \in Nat /\ r.offset \in Int
  BY <1>1 DEF Follows, MasterTypes, ClkTypes, RefTypes
<1> DEFINE given == [m EXCEPT !.time = 0]
           taken == [m EXCEPT !.lastTime = m.time, !.time = clk.time, !.lastCount = m.count, !.count = clk.count]
<1>3. \/ Updated(m) = m
      \/ Updated(m) = given
      \/ Updated(m) = taken /\ clk.count > m.count /\ clk.time >= m.time
  BY <1>1, <1>2 DEF Updated
<1>4. given \in MasterTypes /\ given.time = 0 /\ given.lastRef = 0
  BY <1>1, <1>2 DEF MasterTypes
<1>5. /\ taken \in MasterTypes /\ taken.lastTime = m.time /\ taken.time = clk.time
      /\ taken.lastCount = m.count /\ taken.count = clk.count /\ taken.lastRef = 0
  BY <1>1, <1>2 DEF MasterTypes
<1> HIDE DEF given, taken
<1>6. ASSUME clk.count > m.count, clk.time >= m.time
      PROVE  Follows(r, taken)
  BY <1>1, <1>2, <1>5, <1>6 DEF Follows
<1>7. Updated(m) \in MasterTypes /\ Updated(m).lastRef = 0
  BY <1>1, <1>2, <1>3, <1>4, <1>5
<1>8. Updated(m).time # 0 => Follows(r, Updated(m))
  BY <1>3, <1>4, <1>6
<1>9. ASSUME NEW n, Follows(r, n)
      PROVE  \A count \in Nat : TimeOfEvent(n, r, count) = EventTime(count - r.offset)
  <2>1. /\ n \in MasterTypes /\ n.time = EventTime(n.count)
        /\ n.lastTime # 0 => n.lastTime = EventTime(n.lastCount) /\ n.lastCount < n.count
    BY <1>9 DEF Follows
  <2>2. n.count \in Nat /\ n.time \in Nat /\ n.lastCount \in Nat /\ n.lastTime \in Nat
    BY <2>1 DEF MasterTypes
  <2>3. Duration(n) = txs.interval
    <3>1. CASE n.lastTime = 0
      BY <3>1 DEF Duration
    <3>2. CASE n.lastTime # 0
      <4>1. n.count - n.lastCount \in Nat \ {0}
        BY <2>1, <2>2, <3>2
      <4>2. n.time - n.lastTime = (n.count - n.lastCount) * txs.interval
        <5>1. (n.count - n.lastCount) * txs.interval = n.count * txs.interval - n.lastCount * txs.interval
          BY <1>1, <2>2
        <5>2. n.count * txs.interval \in Nat /\ n.lastCount * txs.interval \in Nat
          BY <1>1, <2>2
        <5> QED
          BY <1>2, <2>1, <3>2, <5>1, <5>2 DEF EventTime
      <4> QED
        BY <1>1, <3>2, <4>1, <4>2, Quotient DEF Duration
    <3> QED
      BY <3>1, <3>2
  <2> TAKE count \in Nat
  <2>4. TimeOfEvent(n, r, count) = n.time + txs.interval * (count - (n.count + r.offset))
    BY <2>3 DEF TimeOfEvent
  <2>5. txs.interval * (count - (n.count + r.offset)) = (count - r.offset) * txs.interval - n.count * txs.interval
    BY <1>1, <1>2, <2>2
  <2>6. n.count * txs.interval \in Int /\ (count - r.offset) * txs.interval \in Int
    BY <1>1, <1>2, <2>2
  <2> QED
    BY <1>2, <2>1, <2>4, <2>5, <2>6 DEF EventTime
<1> QED
  BY <1>7, <1>8, <1>9

\* A clock that has started again is noticed.
LEMMA RestartNoticed ==
  ASSUME TimingInv, ref.time # 0, ~clk.seen
  PROVE  Updated(master).time = 0 /\ Updated(master) \in MasterTypes /\ Updated(master).lastRef = 0
<1>1. /\ master \in MasterTypes /\ clk \in ClkTypes /\ master.lastRef = 0
      /\ master.time < clk.time /\ clk.count <= master.count
  BY DEF TimingInv, ReferenceInv, ClkInv
<1>2. master.time \in Nat /\ clk.time \in Nat /\ master.count \in Nat /\ clk.count \in Nat
  BY <1>1 DEF MasterTypes, ClkTypes
<1>3. Updated(master) = [master EXCEPT !.time = 0]
  BY <1>1, <1>2 DEF Updated
<1> QED
  BY <1>1, <1>2, <1>3 DEF MasterTypes

\* the stream can go on from the reference plane r and the pair m, or gives the clock up
Usable(r, m) ==
  \/ Follows(r, m)
  \/ r \in RefTypes /\ Updated(m).time = 0 /\ Updated(m) \in MasterTypes /\ Updated(m).lastRef = 0

\* what a packet leaves behind: nothing to go on from, or the plane of the next packet
LeavesPlane(p) ==
  /\ p.launch \in Nat /\ p.master \in MasterTypes /\ p.master.lastRef = 0 /\ p.ref \in RefTypes
  /\ IF p.ref.time = 0 THEN p.ref.count = 0 ELSE Follows(p.ref, p.master)

\* the stamps of a packet of a stream that goes on are consecutive events of the clock
StampsEvents(p, r, m) ==
  /\ Follows(r, m) /\ p.ref.count = r.count + txs.samples /\ p.ref.offset = r.offset
  /\ p.stamps # <<>> /\ Len(p.stamps) = IF txs.kind = "audio" THEN 1 ELSE txs.samples
  /\ DOMAIN p.stamps = 1 .. Len(p.stamps)
  /\ \A i \in DOMAIN p.stamps : p.stamps[i] = EventTime(r.count - r.offset + i - 1)

\* Events have a time once the clock has started.
LEMMA EventTimes ==
  ASSUME TimingInv, clk.time # 0, NEW n \in Nat
  PROVE  EventTime(n) \in Nat \ {0}
<1>1. clk.zero \in Nat \ {0} /\ txs.interval \in Nat
  BY DEF TimingInv, ClkInv, ClkTypes, StreamInv, StreamTypes
<1>2. n * txs.interval \in Nat
  BY <1>1
<1> QED
  BY <1>1, <1>2 DEF EventTime

\* What a change of a reference plane leaves.
LEMMA PlaneGivenUp ==
  ASSUME NEW r \in RefTypes, NEW q, q = [r EXCEPT !.count = 0, !.time = 0]
  PROVE  q \in RefTypes /\ q.count = 0 /\ q.time = 0
BY DEF RefTypes

\* What an audio stream puts into its packet, and into its reference plane.
LEMMA AudioPacketIs ==
  ASSUME TimingInv, txs.ready, txs.kind = "audio", NEW r, NEW m, Usable(r, m)
  PROVE  LET p == AudioPacket(r, m) IN
           /\ LeavesPlane(p) /\ p.stamps = <<r.time>>
           /\ p.ref.time # 0 => StampsEvents(p, r, m) /\ Updated(m).time # 0
<1> DEFINE p == AudioPacket(r, m)
           new == Updated(m)
           count == r.count + txs.samples
           time == TimeOfEvent(new, r, count)
<1>1. /\ r \in RefTypes /\ r.count \in Nat /\ r.offset \in Int /\ r.launch \in Nat /\ r.time \in Nat
      /\ txs.samples \in Nat /\ clk \in ClkTypes /\ clk.time \in Nat
  BY DEF TimingInv, StreamInv, StreamTypes, ClkInv, ClkTypes, Usable, Follows, RefTypes
<1>2. new \in MasterTypes /\ new.lastRef = 0
  BY <1>1, UpdateFollows DEF Usable
<1>3. p = [stamps |-> <<r.time>>, launch |-> r.launch, master |-> new,
           ref |-> IF new.time = 0 THEN [r EXCEPT !.count = 0, !.time = 0]
                   ELSE [r EXCEPT !.count = count, !.time = time, !.launch = time]]
  BY DEF AudioPacket
<1>4. ASSUME new.time = 0
      PROVE  LeavesPlane(p) /\ p.stamps = <<r.time>> /\ p.ref.time = 0
  <2>1. p.ref = [r EXCEPT !.count = 0, !.time = 0] /\ p.master = new /\ p.launch = r.launch /\ p.stamps = <<r.time>>
    BY <1>3, <1>4
  <2> HIDE DEF p, new
  <2>2. p.ref \in RefTypes /\ p.ref.time = 0 /\ p.ref.count = 0
    BY <1>1, <2>1, PlaneGivenUp, Zenon
  <2> QED
    BY <1>1, <1>2, <2>1, <2>2 DEF LeavesPlane
<1>5. ASSUME new.time # 0
      PROVE  LeavesPlane(p) /\ p.stamps = <<r.time>> /\ StampsEvents(p, r, m)
  <2>1. Follows(r, m) /\ Follows(r, new)
    BY <1>1, <1>5, UpdateFollows DEF Usable
  <2>2. r.count - r.offset \in Nat /\ r.time = EventTime(r.count - r.offset) /\ clk.time # 0
    BY <1>1, <2>1 DEF Follows, MasterTypes
  <2>3. count \in Nat /\ count - r.offset \in Nat
    BY <1>1, <2>2
  <2>4. time = EventTime(count - r.offset)
    BY <1>1, <1>5, <2>1, <2>3, UpdateFollows
  <2>5. time \in Nat \ {0}
    BY <2>2, <2>3, <2>4, EventTimes
  <2> HIDE DEF time, count
  <2>6. /\ p.ref = [r EXCEPT !.count = count, !.time = time, !.launch = time] /\ p.master = new
        /\ p.launch = r.launch /\ p.stamps = <<r.time>>
    BY <1>3, <1>5
  <2> HIDE DEF p, new
  <2>7. p.ref \in RefTypes /\ p.ref.time = time /\ p.ref.count = count /\ p.ref.offset = r.offset
    BY <1>1, <2>3, <2>5, <2>6 DEF RefTypes
  <2>8. Follows(p.ref, p.master)
    BY <2>1, <2>3, <2>4, <2>5, <2>6, <2>7 DEF Follows
  <2>9. StampsEvents(p, r, m)
    BY <1>1, <2>1, <2>2, <2>6, <2>7 DEF StampsEvents, count
  <2> QED
    BY <1>1, <1>2, <2>5, <2>6, <2>7, <2>8, <2>9 DEF LeavesPlane
<1>6. p.ref.time # 0 => new.time # 0
  BY <1>4
<1> QED
  BY <1>4, <1>5, <1>6

\* The same of a clock reference stream.
LEMMA ClockReferencePacketIs ==
  ASSUME TimingInv, txs.ready, txs.kind = "crf", NEW r, NEW m, Usable(r, m)
  PROVE  LET p == ClockReferencePacket(r, m) IN
           /\ LeavesPlane(p)
           /\ p.ref.time = 0 => p.stamps = <<>>
           /\ p.ref.time # 0 => StampsEvents(p, r, m) /\ Updated(m).time # 0
<1> DEFINE p == ClockReferencePacket(r, m)
           new == Updated(m)
           stamps == [i \in 1 .. txs.samples |-> TimeOfEvent(new, r, r.count + i - 1)]
<1>1. /\ r \in RefTypes /\ r.count \in Nat /\ r.offset \in Int /\ r.launch \in Nat /\ r.time \in Nat
      /\ txs.samples \in Nat \ {0} /\ clk \in ClkTypes /\ clk.time \in Nat
  BY DEF TimingInv, StreamInv, StreamTypes, ClkInv, ClkTypes, Usable, Follows, RefTypes
<1>2. new \in MasterTypes /\ new.lastRef = 0
  BY <1>1, UpdateFollows DEF Usable
<1>3. ASSUME new.time = 0
      PROVE  LeavesPlane(p) /\ p.stamps = <<>> /\ p.ref.time = 0
  <2>1. p = [stamps |-> <<>>, launch |-> r.launch, master |-> new, ref |-> [r EXCEPT !.count = 0, !.time = 0]]
    BY <1>3 DEF ClockReferencePacket
  <2> HIDE DEF p, new
  <2>3. p.ref = [r EXCEPT !.count = 0, !.time = 0] /\ p.master = new /\ p.launch = r.launch /\ p.stamps = <<>>
    BY <2>1
  <2>2. p.ref \in RefTypes /\ p.ref.time = 0 /\ p.ref.count = 0
    BY <1>1, <2>3, PlaneGivenUp, Zenon
  <2> QED
    BY <1>1, <1>2, <2>2, <2>3 DEF LeavesPlane
<1>4. ASSUME new.time # 0
      PROVE  LeavesPlane(p) /\ StampsEvents(p, r, m) /\ p.ref.time # 0
  <2>1. Follows(r, m) /\ Follows(r, new)
    BY <1>1, <1>4, UpdateFollows DEF Usable
  <2>2. r.count - r.offset \in Nat /\ clk.time # 0
    BY <1>1, <2>1 DEF Follows, MasterTypes
  <2>3. \A i \in 1 .. txs.samples : stamps[i] = EventTime(r.count - r.offset + i - 1) /\ stamps[i] \in Nat \ {0}
    <3> SUFFICES ASSUME NEW i \in 1 .. txs.samples
                 PROVE  stamps[i] = EventTime(r.count - r.offset + i - 1) /\ stamps[i] \in Nat \ {0}
      OBVIOUS
    <3>1. i \in Nat /\ r.count + i - 1 \in Nat /\ (r.count + i - 1) - r.offset = r.count - r.offset + i - 1
      BY <1>1
    <3>2. stamps[i] = TimeOfEvent(new, r, r.count + i - 1)
      OBVIOUS
    <3>3. stamps[i] = EventTime((r.count + i - 1) - r.offset)
      BY <1>1, <1>4, <2>1, <3>1, <3>2, UpdateFollows
    <3>4. r.count - r.offset + i - 1 \in Nat
      BY <2>2, <3>1
    <3> HIDE DEF stamps, new
    <3> QED
      BY <2>2, <3>1, <3>3, <3>4, EventTimes
  <2>4. DOMAIN stamps = 1 .. txs.samples /\ Len(stamps) = txs.samples /\ stamps # <<>>
    <3>1. stamps \in [1 .. txs.samples -> Nat] /\ DOMAIN stamps = 1 .. txs.samples
      <4>1. DOMAIN stamps = 1 .. txs.samples
        OBVIOUS
      <4>2. stamps = [i \in 1 .. txs.samples |-> stamps[i]]
        BY <4>1
      <4> HIDE DEF stamps
      <4> QED
        BY <2>3, <4>1, <4>2
    <3> HIDE DEF stamps
    <3>2. stamps \in Seq(Nat)
      BY <1>1, <3>1
    <3> QED
      BY <1>1, <3>1, <3>2
  <2>5. p = [stamps |-> stamps, launch |-> stamps[1], master |-> new,
             ref |-> [r EXCEPT !.count = @ + txs.samples, !.time = stamps[txs.samples], !.launch = stamps[1]]]
    BY <1>4 DEF ClockReferencePacket
  <2> HIDE DEF stamps, new
  <2>6. /\ p.ref = [r EXCEPT !.count = @ + txs.samples, !.time = stamps[txs.samples], !.launch = stamps[1]]
        /\ p.master = new /\ p.launch = stamps[1] /\ p.stamps = stamps
    BY <2>5
  <2>7. 1 \in 1 .. txs.samples /\ txs.samples \in 1 .. txs.samples
    BY <1>1
  <2>8. stamps[1] \in Nat \ {0} /\ stamps[txs.samples] \in Nat \ {0}
    BY <2>3, <2>7
  <2> HIDE DEF p
  <2>9. /\ p.ref \in RefTypes /\ p.ref.time = stamps[txs.samples] /\ p.ref.count = r.count + txs.samples
        /\ p.ref.offset = r.offset
    <3> DEFINE c == r.count + txs.samples
               t == stamps[txs.samples]
               l == stamps[1]
    <3>1. c \in Nat /\ t \in Nat /\ l \in Nat
      BY <1>1, <2>8
    <3>2. p.ref = [r EXCEPT !.count = c, !.time = t, !.launch = l]
      BY <2>6
    <3> HIDE DEF c, t, l
    <3>3. p.ref \in RefTypes /\ p.ref.count = c /\ p.ref.time = t /\ p.ref.offset = r.offset
      BY <1>1, <3>1, <3>2 DEF RefTypes
    <3> QED
      BY <3>3 DEF c, t
  <2>10. p.ref.count - p.ref.offset \in Nat
    BY <1>1, <2>2, <2>9
  <2>11. Follows(p.ref, p.master)
    BY <2>1, <2>6, <2>8, <2>9, <2>10 DEF Follows
  <2>12. StampsEvents(p, r, m)
    BY <2>1, <2>3, <2>4, <2>6, <2>9 DEF StampsEvents
  <2> QED
    BY <1>1, <1>2, <2>6, <2>8, <2>9, <2>11, <2>12 DEF LeavesPlane
<1>5. p.ref.time = 0 => new.time = 0
  BY <1>4
<1> QED
  BY <1>3, <1>4, <1>5

\* What writeToAvbPacket() starts from: the plane and the pair of the stream, or new ones.
LEMMA ResetUsable ==
  ASSUME TimingInv, txs.ready, Reset.ok
  PROVE  LET r == Reset.ref
             m == Reset.master
         IN /\ Usable(r, m) /\ clk.time # 0
            /\ txs.kind = "audio" => r.time >= judged.floor
            /\ txs.kind = "crf" => judged.floor = 0
            /\ judged.next # 0 /\ Updated(m).time # 0 => judged.next = EventTime(r.count - r.offset)
            /\ judged.next # 0 /\ txs.kind = "audio" => judged.next = r.time
<1> DEFINE r == Reset.ref
           m == Reset.master
           Goal == /\ Usable(r, m) /\ clk.time # 0
                   /\ txs.kind = "audio" => r.time >= judged.floor
                   /\ txs.kind = "crf" => judged.floor = 0
                   /\ judged.next # 0 /\ Updated(m).time # 0 => judged.next = EventTime(r.count - r.offset)
                   /\ judged.next # 0 /\ txs.kind = "audio" => judged.next = r.time
<1>1. /\ ref \in RefTypes /\ ref.time \in Nat /\ (ref.time = 0 => ref.count = 0)
      /\ master \in MasterTypes /\ master.lastRef \in Nat
  BY DEF TimingInv, ReferenceInv, RefTypes, MasterTypes
<1>2. window + Pitch \in Nat
  <2>1. Pitch \in Nat /\ TimingEnd \in Nat
    BY TimingConstants
  <2> QED
    BY <2>1 DEF TimingInv, CallInv
<1>3. ASSUME NeedsReset PROVE Goal
  <2>1. Reset = ResetTime(window + Pitch)
    BY <1>3 DEF Reset
  <2>2. clk.time # 0
    BY <2>1, ResetSucceeds
  <2>3. Follows(r, m) /\ r.time >= master.lastRef
    BY <1>2, <1>3, <2>1, <2>2, ResetFollows
  <2>4. ref.time = 0
    BY <1>3 DEF NeedsReset
  <2>5. judged.next = 0 /\ judged.floor = master.lastRef /\ (txs.kind = "crf" => judged.floor = 0)
    BY <2>4 DEF TimingInv, JudgedInv, ReferenceInv
  <2> HIDE DEF r, m
  <2> QED
    BY <2>2, <2>3, <2>5 DEF Usable
<1>4. ASSUME ~NeedsReset PROVE Goal
  <2>1. r = ref /\ m = master
    BY <1>4 DEF Reset
  <2>2. ref.time # 0 /\ clk.time # 0
    BY <1>1, <1>4 DEF NeedsReset, TimingInv, ClkInv
  <2>3. judged.floor = 0 /\ (judged.next # 0 /\ txs.kind = "audio" => judged.next = ref.time)
    BY <2>2 DEF TimingInv, JudgedInv
  <2>4. CASE clk.seen
    <3>1. Follows(ref, master)
      BY <2>2, <2>4 DEF TimingInv, ReferenceInv
    <3>2. judged.next # 0 => judged.next = EventTime(ref.count - ref.offset)
      BY <2>4 DEF TimingInv, JudgedInv
    <3> HIDE DEF r, m
    <3> QED
      BY <1>1, <2>1, <2>2, <2>3, <3>1, <3>2 DEF Usable
  <2>5. CASE ~clk.seen
    <3>1. Updated(master).time = 0 /\ Updated(master) \in MasterTypes /\ Updated(master).lastRef = 0
      BY <2>2, <2>5, RestartNoticed
    <3> HIDE DEF r, m
    <3> QED
      BY <1>1, <2>1, <2>2, <2>3, <3>1 DEF Usable
  <2> QED
    BY <2>4, <2>5
<1> QED
  BY <1>3, <1>4

\* The stamps of a packet are judged well, and the next one is due where they end.
LEMMA JudgedWell ==
  ASSUME TimingInv, txs.kind \in {"audio", "crf"}, txs.samples \in Nat \ {0}, clk.time # 0, NEW r, NEW m, NEW p, LeavesPlane(p),
         IF p.ref.time = 0 THEN p.stamps = IF txs.kind = "audio" THEN <<r.time>> ELSE <<>>
                           ELSE StampsEvents(p, r, m),
         r \in RefTypes,
         txs.kind = "audio" => r.time >= judged.floor,
         txs.kind = "crf" => judged.floor = 0,
         judged.next # 0 /\ p.ref.time # 0 => judged.next = EventTime(r.count - r.offset),
         judged.next # 0 /\ txs.kind = "audio" => judged.next = r.time
  PROVE  LET j == Judge(p, r) IN
           /\ j.onGrid /\ j.inOrder /\ j.next \in Nat /\ j.floor = 0
           /\ p.ref.time = 0 => j.next = 0
           /\ j.next # 0 => j.next = EventTime(p.ref.count - p.ref.offset)
           /\ j.next # 0 /\ txs.kind = "audio" => j.next = p.ref.time
<1> DEFINE j == Judge(p, r)
           R(a, b, c, d) == [next |-> a, floor |-> b, onGrid |-> c, inOrder |-> d]
           nx == IF p.ref.time = 0 THEN 0
                 ELSE p.stamps[Len(p.stamps)] + txs.interval * (IF txs.kind = "audio" THEN txs.samples ELSE 1)
           grid == \A i \in DOMAIN p.stamps : p.ref.time # 0 => (p.stamps[i] - clk.zero) % txs.interval = 0
           order == /\ judged.next # 0 => p.stamps[1] = judged.next
                    /\ p.stamps[1] >= judged.floor
                    /\ \A i \in 2 .. Len(p.stamps) : p.stamps[i] = p.stamps[i - 1] + txs.interval
<1> DEFINE Goal == /\ j.onGrid /\ j.inOrder /\ j.next \in Nat /\ j.floor = 0
                   /\ p.ref.time = 0 => j.next = 0
                   /\ j.next # 0 => j.next = EventTime(p.ref.count - p.ref.offset)
                   /\ j.next # 0 /\ txs.kind = "audio" => j.next = p.ref.time
<1>2. ASSUME p.stamps = <<>> PROVE Goal
  <2>1. \E c, o : j = R(0, 0, c, o) /\ c /\ o
    BY <1>2, Zenon DEF Judge, NewStamps
  <2>2. PICK c, o : j = R(0, 0, c, o) /\ c /\ o
    BY <2>1
  <2>3. j.next = 0 /\ j.floor = 0 /\ j.onGrid = c /\ j.inOrder = o
    BY <2>2
  <2> HIDE DEF j, R
  <2>4. j.onGrid /\ j.inOrder
    BY <2>2, <2>3, Zenon
  <2> QED
    BY <2>3, <2>4
<1>3. ASSUME p.stamps # <<>> PROVE Goal
  <2>1. \E c, o : j = R(nx, 0, c, o) /\ (grid => c) /\ (order => o)
    BY <1>3, Zenon DEF Judge
  <2> HIDE DEF j, nx, grid, order
  <2>2. PICK c, o : j = R(nx, 0, c, o) /\ (grid => c) /\ (order => o)
    BY <2>1
  <2>6. j.next = nx /\ j.floor = 0 /\ j.onGrid = c /\ j.inOrder = o
    BY <2>2
  <2>3. (grid => j.onGrid) /\ (order => j.inOrder)
    BY <2>2, <2>6, Zenon
  <2>4. ASSUME p.ref.time # 0
        PROVE  /\ grid /\ order /\ nx \in Nat
               /\ nx = EventTime(p.ref.count - p.ref.offset)
               /\ txs.kind = "audio" => nx = p.ref.time
    <3>1. /\ Follows(r, m) /\ p.ref.count = r.count + txs.samples /\ p.ref.offset = r.offset
          /\ Len(p.stamps) = IF txs.kind = "audio" THEN 1 ELSE txs.samples
          /\ DOMAIN p.stamps = 1 .. Len(p.stamps)
          /\ \A i \in DOMAIN p.stamps : p.stamps[i] = EventTime(r.count - r.offset + i - 1)
          /\ Follows(p.ref, p.master)
      BY <2>4 DEF StampsEvents, LeavesPlane
    <3>2. r.count - r.offset \in Nat /\ r.count \in Nat /\ r.offset \in Int
      BY <3>1 DEF Follows, RefTypes
    <3>3. txs.interval \in Nat \ {0} /\ clk.zero \in Nat /\ judged.next \in Nat
      BY DEF TimingInv, StreamInv, StreamTypes, ClkInv, ClkTypes, JudgedInv
    <3> DEFINE d == r.count - r.offset
    <3> HIDE DEF d
    <3>4. d \in Nat /\ p.ref.count - p.ref.offset = d + txs.samples
      BY <3>1, <3>2 DEF d
    <3>5. \A i \in DOMAIN p.stamps : p.stamps[i] = clk.zero + (d + i - 1) * txs.interval
      BY <3>1 DEF EventTime, d
    <3>6. Len(p.stamps) \in Nat \ {0}
      BY <3>1
    <3> USE DEF nx, grid, order
    <3>7. grid
      <4> SUFFICES ASSUME NEW i \in DOMAIN p.stamps PROVE (p.stamps[i] - clk.zero) % txs.interval = 0
        OBVIOUS
      <4>1. d + i - 1 \in Int
        BY <3>1, <3>4, <3>6
      <4>2. (d + i - 1) * txs.interval \in Int
        BY <3>3, <4>1
      <4>3. p.stamps[i] - clk.zero = (d + i - 1) * txs.interval
        BY <3>3, <3>5, <4>2
      <4> QED
        BY <3>3, <4>1, <4>3, NoRemainder
    <3>8. p.stamps[1] = EventTime(d) /\ EventTime(d) \in Nat
      <4>1. p.stamps[1] = EventTime(r.count - r.offset + 1 - 1)
        BY <3>1, <3>6
      <4>2. r.count - r.offset + 1 - 1 = d
        BY <3>2 DEF d
      <4> QED
        BY <3>4, <4>1, <4>2, EventTimes
    <3>9. order
      <4>1. judged.next # 0 => p.stamps[1] = judged.next
        BY <2>4, <3>8 DEF d
      <4>2. p.stamps[1] >= judged.floor
        <5>1. CASE txs.kind = "audio"
          <6>1. r.time = EventTime(d)
            BY <3>1, <5>1 DEF Follows, d
          <6> QED
            BY <3>8, <5>1, <6>1
        <5>2. CASE txs.kind = "crf"
          BY <3>8, <5>2
        <5> QED
          BY <5>1, <5>2
      <4>3. ASSUME NEW i \in 2 .. Len(p.stamps) PROVE p.stamps[i] = p.stamps[i - 1] + txs.interval
        <5>1. i \in DOMAIN p.stamps /\ i - 1 \in DOMAIN p.stamps /\ i \in Int
          BY <3>1, <3>6
        <5>2. /\ p.stamps[i] = clk.zero + (d + i - 1) * txs.interval
              /\ p.stamps[i - 1] = clk.zero + (d + (i - 1) - 1) * txs.interval
          BY <3>5, <5>1
        <5> DEFINE k == d + (i - 1) - 1
        <5>3. k \in Int /\ d + i - 1 = k + 1
          BY <3>4, <5>1
        <5> HIDE DEF k
        <5>4. (k + 1) * txs.interval = k * txs.interval + txs.interval /\ k * txs.interval \in Int
          BY <3>3, <5>3, NextMultiple
        <5>5. p.stamps[i] = clk.zero + (k + 1) * txs.interval /\ p.stamps[i - 1] = clk.zero + k * txs.interval
          BY <5>2, <5>3 DEF k
        <5> QED
          BY <3>3, <5>4, <5>5
      <4> QED
        BY <4>1, <4>2, <4>3
    <3>10. nx = EventTime(d + txs.samples)
      <4> DEFINE n == Len(p.stamps)
      <4>1. n \in DOMAIN p.stamps /\ n \in Nat
        BY <3>1, <3>6
      <4>2. p.stamps[n] = clk.zero + (d + n - 1) * txs.interval
        BY <3>5, <4>1
      <4>3. nx = p.stamps[n] + txs.interval * (IF txs.kind = "audio" THEN txs.samples ELSE 1)
        BY <2>4
      <4>4. n = IF txs.kind = "audio" THEN 1 ELSE txs.samples
        BY <3>1
      <4> HIDE DEF n, nx
      <4>5. (d + n - 1) * txs.interval + txs.interval * (IF txs.kind = "audio" THEN txs.samples ELSE 1)
              = (d + txs.samples) * txs.interval
        BY <3>3, <3>4, <4>1, <4>4
      <4>6. (d + n - 1) * txs.interval \in Int /\ (d + txs.samples) * txs.interval \in Int
        BY <3>3, <3>4, <4>1
      <4> QED
        BY <3>3, <4>2, <4>3, <4>5, <4>6 DEF EventTime
    <3>11. d + txs.samples \in Nat
      BY <3>4
    <3>12. nx \in Nat
      BY <3>10, <3>11, EventTimes
    <3>13. txs.kind = "audio" => p.ref.time = EventTime(d + txs.samples)
      BY <3>1, <3>4 DEF Follows
    <3> HIDE DEF nx, grid, order
    <3> QED
      BY <3>4, <3>7, <3>9, <3>10, <3>12, <3>13
  <2>5. ASSUME p.ref.time = 0 PROVE grid /\ order /\ nx = 0
    <3>1. txs.kind = "audio" /\ p.stamps = <<r.time>>
      BY <1>3, <2>5
    <3>2. Len(p.stamps) = 1 /\ p.stamps[1] = r.time
      BY <3>1
    <3> QED
      BY <2>5, <3>1, <3>2 DEF nx, grid, order
  <2> QED
    BY <2>6, <2>3, <2>4, <2>5
<1> QED
  BY <1>2, <1>3

----------------------------------------------------------------------------
(* The steps                                                               *)

\* A stream that starts anew has nothing to go on from but the time it had reached.
LEMMA RestartedIs ==
  ASSUME Restarted, master' \in MasterTypes
  PROVE  /\ ref' \in RefTypes /\ ref'.time = 0 /\ ref'.count = 0
         /\ judged'.onGrid /\ judged'.inOrder /\ judged'.next = 0 /\ judged'.floor = master'.lastRef
<1>1. ref' \in RefTypes /\ ref'.time = 0 /\ ref'.count = 0
  BY DEF Restarted, NoReference, RefTypes
<1>2. judged'.next = 0 /\ judged'.floor = master'.lastRef
  BY DEF Restarted, NewStamps
<1>3. judged'.onGrid /\ judged'.inOrder
  BY Zenon DEF Restarted, NewStamps
<1> QED
  BY <1>1, <1>2, <1>3

\* Nothing that the invariant speaks of changes but what a stream is asked for.
LEMMA UnchangedTiming ==
  ASSUME TimingInv, CallInv',
         txs' = txs, ref' = ref, master' = master, clk' = clk, judged' = judged
  PROVE  TimingInv'
BY DEF TimingInv, StreamInv, ClkInv, ReferenceInv, Follows, EventTime, JudgedInv

\* The stream is created, or refused.
LEMMA InitTransmitStep ==
  ASSUME TimingInv, NEW kind \in {"audio", "crf"}, NEW p \in Parameters, InitTransmit(kind, p)
  PROVE  TimingInv'
<1>1. CASE txs' = txs
  BY <1>1, UnchangedTiming DEF InitTransmit, TimingInv, CallInv
<1>2. CASE Ready(kind, p) /\ p.frequency \in Supported
           /\ (IF kind = "audio" THEN AudioResult(p) ELSE ClockReferenceResult(p)) = "OK"
  <2>1. /\ clk' = clk /\ ref' = ref /\ master' = master /\ window' = window /\ ttLaunch' = ttLaunch
        /\ ttCall' = ttCall /\ ttLock' = ttLock /\ judged' = judged /\ ~txs.ready
    BY DEF InitTransmit
  <2>2. /\ p.channels \in Nat /\ p.packets \in Nat /\ p.minUpdate \in Nat /\ p.frequency \in Nat \ {0}
        /\ p.channels # 0 /\ p.packets # 0
    <3>1. PacketRates \subseteq Nat /\ MinUpdates \subseteq Nat /\ Supported \subseteq Nat \ {0}
      BY TimingConstants
    <3>2. p.channels \in 0 .. 2 /\ p.packets \in PacketRates /\ p.minUpdate \in MinUpdates
      BY DEF Parameters
    <3>3. p.channels # 0 /\ p.packets # 0
      BY <1>2, Zenon DEF AudioResult, ClockReferenceResult
    <3>4. p.frequency \in Supported
      BY <1>2
    <3>5. p.channels \in Nat
      BY <3>2
    <3>6. p.packets \in Nat /\ p.minUpdate \in Nat /\ p.frequency \in Nat \ {0}
      BY <3>1, <3>2, <3>4, Zenon
    <3> QED
      BY <3>3, <3>5, <3>6, Zenon
  <2>3. SamplesPerPacket(kind, p) \in Nat \ {0}
    BY <2>2, CeilBound DEF SamplesPerPacket
  <2>4. Second \div p.frequency \in Nat \ {0}
    BY <1>2, Intervals
  <2>5. txs' = [kind |-> kind, ready |-> TRUE, active |-> FALSE, samples |-> SamplesPerPacket(kind, p),
                interval |-> Second \div p.frequency, minUpdate |-> p.minUpdate]
    BY <1>2 DEF Ready
  <2>6. /\ txs'.kind = kind /\ txs'.samples \in Nat \ {0} /\ txs'.interval \in Nat \ {0} /\ txs'.minUpdate \in Nat
    BY <2>2, <2>3, <2>4, <2>5
  <2>7. txs'.ready /\ txs'.active \in BOOLEAN /\ txs'.ready \in BOOLEAN
    BY <2>5, Zenon
  <2>8. txs' \in StreamTypes
    BY <2>2, <2>3, <2>4, <2>5, Zenon DEF StreamTypes
  <2>9. clk.count = 0 /\ ref.time = 0 /\ judged.next = 0 /\ clk.time = clk.zero /\ clk.time \in Nat /\ txs.interval \in Nat
    BY <2>1 DEF TimingInv, StreamInv, StreamTypes, JudgedInv, ClkInv, ClkTypes, EventTime
  <2>10. StreamInv'
    BY <2>6, <2>7, <2>8 DEF StreamInv, StreamTypes
  <2>11. CallInv'
    BY <2>1, <2>7 DEF TimingInv, CallInv
  <2>12. ClkInv'
    BY <2>1, <2>6, <2>9 DEF TimingInv, ClkInv, EventTime
  <2>13. ReferenceInv'
    <3>1. master.lastRef = 0
      BY <2>1 DEF TimingInv, ReferenceInv, StreamInv
    <3> QED
      BY <2>1, <2>9, <3>1 DEF TimingInv, ReferenceInv
  <2>14. JudgedInv'
    BY <2>1, <2>9 DEF TimingInv, JudgedInv
  <2> QED
    BY <2>10, <2>11, <2>12, <2>13, <2>14 DEF TimingInv
<1> QED
  BY <1>1, <1>2, Zenon DEF InitTransmit

\* The clock starts, once more.
LEMMA ClockStartsStep == TimingInv /\ ClockStarts => TimingInv'
<1> SUFFICES ASSUME TimingInv, ClockStarts PROVE TimingInv'
  OBVIOUS
<1> DEFINE now == IF clk.time > window THEN clk.time + 1 ELSE window + 1
<1>1. clk' = [count |-> 0, time |-> now, zero |-> now, seen |-> FALSE, starts |-> clk.starts + 1]
  BY DEF ClockStarts
<1>2. /\ txs' = txs /\ ref' = ref /\ master' = master /\ window' = window /\ ttLaunch' = ttLaunch
      /\ ttCall' = ttCall /\ ttLock' = ttLock /\ judged' = judged
  BY DEF ClockStarts
<1>3. clk \in ClkTypes /\ clk.time \in Nat /\ clk.count \in Nat /\ clk.starts \in Nat /\ window \in Nat
  BY DEF TimingInv, ClkInv, ClkTypes, CallInv
<1>4. now \in Nat /\ now > clk.time /\ now # 0
  BY <1>3
<1> HIDE DEF now
<1>5. clk'.count = 0 /\ clk'.time = now /\ clk'.zero = now /\ clk' \in ClkTypes
  <2>1. clk.starts + 1 \in Nat
    BY <1>3
  <2> QED
    BY <1>1, <1>4, <2>1 DEF ClkTypes
<1>6. ~clk'.seen
  BY <1>1, Zenon
<1>7. StreamInv'
  BY <1>2, <1>5 DEF TimingInv, StreamInv, StreamTypes
<1>8. CallInv'
  BY <1>2 DEF TimingInv, CallInv
<1>9. ClkInv'
  <2>1. clk'.time = clk'.zero + clk'.count * txs'.interval
    BY <1>2, <1>4, <1>5 DEF TimingInv, StreamInv, StreamTypes
  <2> QED
    BY <1>4, <1>5, <2>1 DEF ClkInv, EventTime
<1>10. ReferenceInv'
  <2>1. ref.time # 0 => master.lastRef = 0 /\ master.time <= clk.time /\ master \in MasterTypes
    BY <1>3 DEF TimingInv, ReferenceInv, Follows, MasterTypes
  <2>2. ref.time # 0 => master.lastRef = 0 /\ master.time < now /\ 0 <= master.count
    BY <1>3, <1>4, <2>1 DEF MasterTypes
  <2>3. ref' \in RefTypes /\ master' \in MasterTypes /\ (ref'.time = 0 => ref'.count = 0)
    BY <1>2 DEF TimingInv, ReferenceInv
  <2>4. txs'.kind # "audio" => master'.lastRef = 0
    BY <1>2 DEF TimingInv, ReferenceInv
  <2> QED
    BY <1>2, <1>5, <1>6, <2>2, <2>3, <2>4 DEF ReferenceInv
<1>11. JudgedInv'
  BY <1>2, <1>6 DEF TimingInv, JudgedInv
<1> QED
  BY <1>7, <1>8, <1>9, <1>10, <1>11 DEF TimingInv

\* The clock runs on; one that has started again has not caught up with its old count.
LEMMA ClockAdvancesStep ==
  ASSUME TimingInv, "noticed" \in TimingAssume, NEW n \in 1 .. MaxEvents, ClockAdvances(n)
  PROVE  TimingInv'
<1>1. clk' = [clk EXCEPT !.count = @ + n, !.time = @ + n * txs.interval]
  BY DEF ClockAdvances
<1>2. /\ txs' = txs /\ ref' = ref /\ master' = master /\ window' = window /\ ttLaunch' = ttLaunch
      /\ ttCall' = ttCall /\ ttLock' = ttLock /\ judged' = judged
  BY DEF ClockAdvances
<1>3. /\ clk \in ClkTypes /\ clk.time \in Nat \ {0} /\ clk.count \in Nat /\ clk.zero \in Nat \ {0} /\ n \in Nat
      /\ txs.interval \in Nat /\ clk.time = clk.zero + clk.count * txs.interval
      /\ txs.ready /\ (~clk.seen => clk.count + n <= master.count)
  <2>1. MaxEvents \in Nat
    BY TimingConstants
  <2> QED
    BY <2>1 DEF TimingInv, ClkInv, ClkTypes, StreamInv, StreamTypes, EventTime, ClockAdvances
<1>4. n * txs.interval \in Nat
  BY <1>3
<1>5. clk'.count = clk.count + n /\ clk'.time = clk.time + n * txs.interval /\ clk'.zero = clk.zero
  BY <1>1, <1>3 DEF ClkTypes
<1>6. clk'.seen <=> clk.seen
  BY <1>1, <1>3, Zenon DEF ClkTypes
<1>7. clk' \in ClkTypes
  <2>1. clk.count + n \in Nat /\ clk.time + n * txs.interval \in Nat
    BY <1>3, <1>4
  <2> QED
    BY <1>1, <1>3, <2>1, Zenon DEF ClkTypes
<1>8. clk'.time = clk'.zero + clk'.count * txs.interval
  <2>1. (clk.count + n) * txs.interval = clk.count * txs.interval + n * txs.interval
    BY <1>3
  <2>2. clk.count * txs.interval \in Nat
    BY <1>3
  <2> QED
    BY <1>3, <1>4, <1>5, <2>1, <2>2
<1>9. StreamInv'
  BY <1>2, <1>3 DEF TimingInv, StreamInv, StreamTypes
<1>10. CallInv'
  BY <1>2 DEF TimingInv, CallInv
<1>11. ClkInv'
  <2>1. clk'.time # 0 /\ clk'.zero # 0
    BY <1>3, <1>4, <1>5
  <2> QED
    BY <1>2, <1>7, <1>8, <2>1 DEF ClkInv, EventTime
<1>12. ReferenceInv'
  <2>1. ref' \in RefTypes /\ master' \in MasterTypes /\ (ref'.time = 0 => ref'.count = 0)
    BY <1>2 DEF TimingInv, ReferenceInv
  <2>2. txs'.kind # "audio" => master'.lastRef = 0
    BY <1>2 DEF TimingInv, ReferenceInv
  <2>3. ASSUME ref.time # 0, clk.seen PROVE Follows(ref, master)'
    <3>1. Follows(ref, master)
      BY <2>3 DEF TimingInv, ReferenceInv
    <3>2. master.time \in Nat /\ master.time <= clk'.time
      BY <1>3, <1>4, <1>5, <3>1 DEF Follows, MasterTypes
    <3> QED
      BY <1>2, <1>5, <3>1, <3>2 DEF Follows, EventTime
  <2>4. ASSUME ref.time # 0, ~clk.seen PROVE master.lastRef = 0 /\ master.time < clk'.time /\ clk'.count <= master.count
    <3>1. master \in MasterTypes /\ master.lastRef = 0 /\ master.time < clk.time
      BY <2>4 DEF TimingInv, ReferenceInv
    <3> QED
      BY <1>3, <1>4, <1>5, <2>4, <3>1 DEF MasterTypes
  <2> QED
    BY <1>2, <1>6, <2>1, <2>2, <2>3, <2>4 DEF ReferenceInv
<1>13. JudgedInv'
  BY <1>2, <1>5, <1>6 DEF TimingInv, JudgedInv, EventTime
<1> QED
  BY <1>9, <1>10, <1>11, <1>12, <1>13 DEF TimingInv

\* The stream is activated, which starts it anew, or deactivated.
LEMMA SetActiveStep == TimingInv /\ SetActive => TimingInv'
<1> SUFFICES ASSUME TimingInv, SetActive PROVE TimingInv'
  OBVIOUS
<1>1. txs' = [txs EXCEPT !.active = ~@]
  BY DEF SetActive
<1>2. /\ clk' = clk /\ master' = master /\ window' = window /\ ttLaunch' = ttLaunch
      /\ ttCall' = ttCall /\ ttLock' = ttLock
  BY DEF SetActive
<1>3. txs' \in StreamTypes
  BY <1>1, Zenon DEF TimingInv, StreamInv, StreamTypes
<1>4. txs'.kind = txs.kind /\ txs'.samples = txs.samples /\ txs'.interval = txs.interval /\ txs'.minUpdate = txs.minUpdate
  BY <1>1 DEF TimingInv, StreamInv, StreamTypes
<1>5. txs'.ready <=> txs.ready
  BY <1>1, Zenon DEF TimingInv, StreamInv, StreamTypes
<1>6. CallInv'
  BY <1>2, <1>5 DEF TimingInv, CallInv
<1>7. CASE ref' = ref /\ judged' = judged
  <2>1. StreamInv'
    BY <1>2, <1>3, <1>4, <1>5, <1>7 DEF TimingInv, StreamInv
  <2>2. ClkInv'
    BY <1>2, <1>4, <1>7 DEF TimingInv, ClkInv, EventTime
  <2>3. ReferenceInv'
    BY <1>2, <1>4, <1>7 DEF TimingInv, ReferenceInv, Follows, EventTime
  <2>4. JudgedInv'
    BY <1>2, <1>4, <1>7 DEF TimingInv, JudgedInv, EventTime
  <2> QED
    BY <1>6, <2>1, <2>2, <2>3, <2>4 DEF TimingInv
<1>8. CASE Restarted
  <2>1. /\ ref' \in RefTypes /\ ref'.time = 0 /\ ref'.count = 0
        /\ judged'.onGrid /\ judged'.inOrder /\ judged'.next = 0 /\ judged'.floor = master'.lastRef
    BY <1>2, <1>8, RestartedIs DEF TimingInv, ReferenceInv
  <2>2. StreamInv'
    BY <1>2, <1>3, <1>4, <1>5, <2>1 DEF TimingInv, StreamInv
  <2>3. ClkInv'
    BY <1>2, <1>4, <2>1 DEF TimingInv, ClkInv, EventTime
  <2>4. ReferenceInv'
    BY <1>2, <1>4, <2>1 DEF TimingInv, ReferenceInv
  <2>5. JudgedInv'
    BY <2>1 DEF JudgedInv
  <2> QED
    BY <1>6, <2>2, <2>3, <2>4, <2>5 DEF TimingInv
<1> QED
  BY <1>7, <1>8, Zenon DEF SetActive

\* There is no reference clock yet.
LEMMA WriteDummyStep == TimingInv /\ WriteDummy => TimingInv'
<1> SUFFICES ASSUME TimingInv, WriteDummy PROVE TimingInv'
  OBVIOUS
<1> DEFINE start == window + Pitch
<1>1. /\ txs' = txs /\ clk' = clk /\ window' = window /\ judged' = judged /\ ttCall = "wait" /\ NeedsReset
      /\ ref' = ResetTime(start).ref /\ master' = ResetTime(start).master
      /\ ttLaunch' = ref'.launch + Retry /\ ttLock' = (txs.kind = "crf") /\ ttCall' = "idle"
  BY DEF WriteDummy
<1>2. clk.time = 0
  BY ResetSucceeds DEF WriteDummy
<1>3. start \in Nat /\ Retry \in Nat
  <2>1. Pitch \in Nat /\ TimingEnd \in Nat /\ Retry \in Nat
    BY TimingConstants
  <2> QED
    BY <2>1 DEF TimingInv, CallInv
<1> HIDE DEF start
<1>4. ref' = [NoReference EXCEPT !.offset = 1, !.launch = start]
  BY <1>1, <1>2 DEF ResetTime
<1>5. master' = [NoMaster EXCEPT !.count = clk.count, !.time = clk.time]
  BY <1>1 DEF ResetTime
<1>6. ref' \in RefTypes /\ ref'.time = 0 /\ ref'.count = 0 /\ ref'.launch = start
  <2>1. ref' = [count |-> 0, time |-> 0, offset |-> 1, launch |-> start]
    BY <1>4 DEF NoReference
  <2> QED
    BY <1>3, <2>1 DEF RefTypes
<1>7. master' \in MasterTypes /\ master'.lastRef = 0
  <2>1. clk.count \in Nat
    BY DEF TimingInv, ClkInv, ClkTypes
  <2>2. master' = [count |-> clk.count, time |-> 0, lastCount |-> 0, lastTime |-> 0, lastRef |-> 0]
    BY <1>2, <1>5 DEF NoMaster
  <2> QED
    BY <2>1, <2>2 DEF MasterTypes
<1>8. ref.time = 0 /\ master.lastRef = 0
  BY <1>2 DEF TimingInv, ClkInv
<1>9. StreamInv'
  BY <1>1, <1>6 DEF TimingInv, StreamInv
<1>10. CallInv'
  <2>1. ttLock' \in BOOLEAN
    BY <1>1, Zenon
  <2> QED
    BY <1>1, <1>3, <1>6, <2>1 DEF TimingInv, CallInv
<1>11. ClkInv'
  BY <1>1, <1>6, <1>7 DEF TimingInv, ClkInv, EventTime
<1>12. ReferenceInv'
  BY <1>6, <1>7 DEF ReferenceInv
<1>13. JudgedInv'
  BY <1>1, <1>6, <1>7, <1>8 DEF TimingInv, JudgedInv
<1> QED
  BY <1>9, <1>10, <1>11, <1>12, <1>13 DEF TimingInv

\* What a packet starts from and leaves behind.
LEMMA PreparedIs ==
  ASSUME TimingInv, txs.ready, Reset.ok
  PROVE  LET j == Judge(Prepared, Reset.ref) IN
           /\ LeavesPlane(Prepared) /\ clk.time # 0 /\ Reset.ref.time \in Nat
           /\ j.onGrid /\ j.inOrder /\ j.next \in Nat /\ j.floor = 0
           /\ Prepared.ref.time = 0 => j.next = 0
           /\ j.next # 0 => j.next = EventTime(Prepared.ref.count - Prepared.ref.offset)
           /\ j.next # 0 /\ txs.kind = "audio" => j.next = Prepared.ref.time
<1> DEFINE r == Reset.ref
           m == Reset.master
           p == Prepared
<1>1. txs.kind \in {"audio", "crf"} /\ txs.samples \in Nat \ {0}
  BY DEF TimingInv, StreamInv, StreamTypes
<1>2. /\ Usable(r, m) /\ clk.time # 0
      /\ txs.kind = "audio" => r.time >= judged.floor
      /\ txs.kind = "crf" => judged.floor = 0
      /\ judged.next # 0 /\ Updated(m).time # 0 => judged.next = EventTime(r.count - r.offset)
      /\ judged.next # 0 /\ txs.kind = "audio" => judged.next = r.time
  BY ResetUsable
<1>3. r \in RefTypes /\ r.time \in Nat
  BY <1>2 DEF Usable, Follows, RefTypes
<1>4. /\ LeavesPlane(p)
      /\ p.ref.time = 0 => p.stamps = IF txs.kind = "audio" THEN <<r.time>> ELSE <<>>
      /\ p.ref.time # 0 => StampsEvents(p, r, m) /\ Updated(m).time # 0
  <2>1. CASE txs.kind = "audio"
    <3>1. p = AudioPacket(r, m)
      BY <2>1 DEF Prepared
    <3> HIDE DEF p, r, m
    <3> QED
      BY <1>2, <2>1, <3>1, AudioPacketIs
  <2>2. CASE txs.kind = "crf"
    <3>1. p = ClockReferencePacket(r, m)
      BY <2>2 DEF Prepared
    <3> HIDE DEF p, r, m
    <3> QED
      BY <1>2, <2>2, <3>1, ClockReferencePacketIs
  <2> QED
    BY <1>1, <2>1, <2>2
<1> HIDE DEF p, r, m
<1>5. judged.next # 0 /\ p.ref.time # 0 => judged.next = EventTime(r.count - r.offset)
  BY <1>2, <1>4
<1>6. LET j == Judge(p, r) IN
        /\ j.onGrid /\ j.inOrder /\ j.next \in Nat /\ j.floor = 0
        /\ p.ref.time = 0 => j.next = 0
        /\ j.next # 0 => j.next = EventTime(p.ref.count - p.ref.offset)
        /\ j.next # 0 /\ txs.kind = "audio" => j.next = p.ref.time
  BY <1>1, <1>2, <1>3, <1>4, <1>5, JudgedWell
<1> QED
  BY <1>2, <1>3, <1>4, <1>6 DEF p, r

\* The fields of the clock when the stream has looked at it.
LEMMA ClockSeen ==
  ASSUME clk \in ClkTypes, clk' = [clk EXCEPT !.seen = TRUE]
  PROVE  /\ clk' \in ClkTypes /\ clk'.seen
         /\ clk'.count = clk.count /\ clk'.time = clk.time /\ clk'.zero = clk.zero
<1>1. clk' \in ClkTypes /\ clk'.seen
  BY Zenon DEF ClkTypes
<1>2. clk'.count = clk.count /\ clk'.time = clk.time /\ clk'.zero = clk.zero
  BY DEF ClkTypes
<1> QED
  BY <1>1, <1>2

\* A packet that is too late, or has too many dummy samples, starts the stream anew.
LEMMA RestartStep ==
  ASSUME TimingInv, txs.ready, Restarted, clk' = [clk EXCEPT !.seen = TRUE], clk.time # 0,
         master' \in MasterTypes, txs.kind # "audio" => master'.lastRef = 0,
         ttLaunch' = 0, ttCall' = "idle", txs' = txs, window' = window, ttLock' = ttLock
  PROVE  TimingInv'
<1>1. /\ clk' \in ClkTypes /\ clk'.seen /\ clk'.count = clk.count /\ clk'.time = clk.time /\ clk'.zero = clk.zero
  BY ClockSeen DEF TimingInv, ClkInv
<1>2. /\ ref' \in RefTypes /\ ref'.time = 0 /\ ref'.count = 0
      /\ judged'.onGrid /\ judged'.inOrder /\ judged'.next = 0 /\ judged'.floor = master'.lastRef
  BY RestartedIs
<1>3. StreamInv'
  BY DEF TimingInv, StreamInv
<1>4. CallInv'
  BY DEF TimingInv, CallInv
<1>5. ClkInv'
  BY <1>1 DEF TimingInv, ClkInv, EventTime
<1>6. ReferenceInv'
  BY <1>2 DEF ReferenceInv
<1>7. JudgedInv'
  BY <1>2 DEF JudgedInv
<1> QED
  BY <1>3, <1>4, <1>5, <1>6, <1>7 DEF TimingInv

\* A packet is prepared.
LEMMA WriteStep == TimingInv /\ WriteToAvbPacket => TimingInv'
<1> SUFFICES ASSUME TimingInv, WriteToAvbPacket PROVE TimingInv'
  OBVIOUS
<1> DEFINE p == Prepared
           j == Judge(Prepared, Reset.ref)
<1>1. /\ txs' = txs /\ clk' = [clk EXCEPT !.seen = TRUE] /\ window' = window /\ ttLock' = ttLock
      /\ ttCall = "wait" /\ ttCall' = "idle" /\ master' = p.master /\ Reset.ok
      /\ \/ Restarted /\ ttLaunch' = 0
         \/ ref' = p.ref /\ ttLaunch' = p.launch /\ judged' = j
  BY Zenon DEF WriteToAvbPacket
<1>2. txs.ready /\ txs.kind \in {"audio", "crf"}
  BY <1>1 DEF TimingInv, CallInv, StreamInv, StreamTypes
<1>3. /\ LeavesPlane(p) /\ clk.time # 0
      /\ j.onGrid /\ j.inOrder /\ j.next \in Nat /\ j.floor = 0
      /\ p.ref.time = 0 => j.next = 0
      /\ j.next # 0 => j.next = EventTime(p.ref.count - p.ref.offset)
      /\ j.next # 0 /\ txs.kind = "audio" => j.next = p.ref.time
  BY <1>1, <1>2, PreparedIs
<1> HIDE DEF p, j
<1>4. p.master \in MasterTypes /\ p.master.lastRef = 0
  BY <1>3 DEF LeavesPlane
<1>5. CASE Restarted /\ ttLaunch' = 0
  BY <1>1, <1>2, <1>3, <1>4, <1>5, RestartStep
<1>6. CASE ref' = p.ref /\ ttLaunch' = p.launch /\ judged' = j
  <2>1. /\ clk' \in ClkTypes /\ clk'.seen /\ clk'.count = clk.count /\ clk'.time = clk.time /\ clk'.zero = clk.zero
    BY <1>1, ClockSeen DEF TimingInv, ClkInv
  <2>2. StreamInv'
    BY <1>1, <1>2 DEF TimingInv, StreamInv
  <2>3. CallInv'
    BY <1>1, <1>3, <1>6 DEF TimingInv, CallInv, LeavesPlane
  <2>4. ClkInv'
    BY <1>1, <1>3, <2>1 DEF TimingInv, ClkInv, EventTime
  <2>5. ReferenceInv'
    <3>1. p.ref.time # 0 => Follows(p.ref, p.master)
      BY <1>3 DEF LeavesPlane
    <3>2. ref'.time # 0 => Follows(ref, master)'
      BY <1>1, <1>6, <2>1, <3>1 DEF Follows, EventTime
    <3>3. ref' \in RefTypes /\ (ref'.time = 0 => ref'.count = 0)
      BY <1>3, <1>6 DEF LeavesPlane
    <3> QED
      BY <1>1, <1>4, <2>1, <3>2, <3>3 DEF ReferenceInv
  <2>6. JudgedInv'
    <3>1. judged'.floor = 0 /\ master'.lastRef = 0
      BY <1>1, <1>3, <1>4, <1>6
    <3> QED
      BY <1>1, <1>3, <1>6, <2>1, <3>1 DEF JudgedInv, EventTime
  <2> QED
    BY <2>2, <2>3, <2>4, <2>5, <2>6 DEF TimingInv
<1> QED
  BY <1>1, <1>5, <1>6

\* The stream gives up, and keeps the time it has reached.
LEMMA WriteGivesUpStep == TimingInv /\ WriteGivesUp => TimingInv'
<1> SUFFICES ASSUME TimingInv, WriteGivesUp PROVE TimingInv'
  OBVIOUS
<1>1. /\ txs' = txs /\ clk' = [clk EXCEPT !.seen = TRUE] /\ window' = window /\ ttLock' = ttLock
      /\ ttCall = "wait" /\ ttCall' = "idle" /\ txs.kind = "audio" /\ Reset.ok /\ Restarted /\ ttLaunch' = 0
      /\ master' = [Prepared.master EXCEPT !.lastRef = Reset.ref.time]
  BY Zenon DEF WriteGivesUp
<1>2. txs.ready
  BY <1>1 DEF TimingInv, CallInv
<1>3. LeavesPlane(Prepared) /\ clk.time # 0 /\ Reset.ref.time \in Nat
  BY <1>1, <1>2, PreparedIs
<1>4. master' \in MasterTypes
  <2>1. Prepared.master \in MasterTypes
    BY <1>3 DEF LeavesPlane
  <2> QED
    BY <1>1, <1>3, <2>1, Zenon DEF MasterTypes
<1> QED
  BY <1>1, <1>2, <1>3, <1>4, RestartStep

\* Every step preserves the invariant.
LEMMA TimingStep == TimingInv /\ "noticed" \in TimingAssume /\ [TimingNext]_ttVars => TimingInv'
<1> SUFFICES ASSUME TimingInv, "noticed" \in TimingAssume, [TimingNext]_ttVars PROVE TimingInv'
  OBVIOUS
<1>1. CASE WriteEnters
  BY <1>1, UnchangedTiming DEF WriteEnters, TimingInv, CallInv
<1>2. ASSUME NEW n \in 1 .. 2, NextWindow(n) PROVE TimingInv'
  <2>1. window' \in 0 .. TimingEnd
    <3>1. Pitch \in Nat /\ TimingEnd \in Nat
      BY TimingConstants
    <3>2. n * Pitch \in Nat
      BY <3>1
    <3> QED
      BY <1>2, <3>1, <3>2 DEF NextWindow, TimingInv, CallInv
  <2>2. CallInv'
    BY <1>2, <2>1 DEF NextWindow, TimingInv, CallInv
  <2> QED
    BY <1>2, <2>2, UnchangedTiming DEF NextWindow
<1>3. CASE UNCHANGED ttVars
  BY <1>3, UnchangedTiming DEF ttVars, TimingInv, CallInv
<1> QED
  BY <1>1, <1>2, <1>3, InitTransmitStep, ClockStartsStep, ClockAdvancesStep, SetActiveStep, WriteDummyStep,
     WriteStep, WriteGivesUpStep DEF TimingNext, Writing

\* The stamps of a stream lie on the events of its master clock, each packet continues where the one
\* before ended, and a stream that gives up over dummy samples does not go back (resetTime(),
\* updateRefPlane... of both streams), for every sample rate, window and number of clock restarts, if a
\* restarted clock is noticed.
THEOREM StampsAreOnGrid ==
  ASSUME "noticed" \in TimingAssume
  PROVE  TimingSpec => []StampsOnGrid
<1>1. TimingInit => TimingInv
  BY TimingInitInv
<1>2. TimingInv /\ [TimingNext]_ttVars => TimingInv'
  BY TimingStep
<1>3. TimingInv => StampsOnGrid
  BY TimingParts
<1> QED
  BY <1>1, <1>2, <1>3, PTL DEF TimingSpec

----------------------------------------------------------------------------
(* HwCapture                                                               *)

CaptureTypeOK ==
  /\ edges \in 0 .. MaxEdges /\ latched \in 0 .. edges /\ stampNow \in 0 .. edges /\ last \in 0 .. edges
  /\ origin \in Nat /\ events \in Nat /\ mistaken \in Nat
  /\ capturer \in {"gone", "poll", "level"} /\ capEnd \in BOOLEAN

\* stamps are taken in the order of the edges: the device holds a younger edge than the one read
\* last, and one whose level is to be read is younger than the one counted last
StampsInOrder ==
  /\ latched # 0 => latched > stampNow
  /\ last <= stampNow
  /\ capturer = "level" => stampNow > last

\* n halves of a period counted over a distance d are off by two for every falling edge taken for a
\* rising one, and by one less while the last edge is a falling one: what it has added or lost is
\* doubled or undone by the next
HalvesClose(n, d, m, e) == Distance(n, d) + (IF Rising(e) THEN 0 ELSE 1) <= 2 * m

CountedClosely ==
  last # 0 =>
    /\ origin <= last
    /\ \E n \in Nat : /\ 2 * Nominal * events = EventRate * n
                      /\ HalvesClose(n, last - origin, mistaken, last)

CaptureInv == CaptureTypeOK /\ StampsInOrder /\ CountedClosely

----------------------------------------------------------------------------
(* Arithmetic                                                              *)

\* A pulse stands for a whole number of events, so no event is lost to the conversion to an
\* integer: the code's uint64_t(wrapCount * 48e3 / mNominal).
LEMMA EventsOfPulses ==
  ASSUME NEW k \in Nat
  PROVE  /\ (k * EventRate) \div Nominal \in Nat
         /\ Nominal * ((k * EventRate) \div Nominal) = EventRate * k
<1> DEFINE m == EventRate \div Nominal
<1>1. EventRate \in Nat /\ Nominal \in Nat \ {0}
  BY CaptureConstants
<1>2. m \in Nat /\ EventRate = Nominal * m
  BY <1>1, CaptureConstants, Z3
<1>3. k * m \in Nat
  BY <1>2, Z3
<1>4. ((k * m) * Nominal) \div Nominal = k * m
  BY <1>1, <1>3, Z3
<1>5. k * EventRate = (k * m) * Nominal
  BY <1>1, <1>2, Z3
<1>6. Nominal * (k * m) = EventRate * k
  BY <1>1, <1>2, Z3
<1> QED
  BY <1>3, <1>4, <1>5, <1>6

\* Adding the events of some pulses to those of some halves of a period.
LEMMA CountGoesOn ==
  ASSUME NEW n \in Nat, NEW e \in Nat, NEW d \in Nat, NEW k \in Nat,
         2 * Nominal * n = EventRate * d, Nominal * e = EventRate * k
  PROVE  2 * Nominal * (n + e) = EventRate * (d + 2 * k)
<1>1. EventRate \in Nat /\ Nominal \in Nat
  BY CaptureConstants
<1>2. 2 * Nominal * (n + e) = 2 * Nominal * n + 2 * (Nominal * e)
  BY <1>1, Z3
<1>3. EventRate * (d + 2 * k) = EventRate * d + 2 * (EventRate * k)
  BY <1>1, Z3
<1> QED
  BY <1>1, <1>2, <1>3

\* Events that stand for halves of a period are as close as these are, at the rate of the domain.
LEMMA ScaledDistance ==
  ASSUME NEW n \in Nat, NEW d \in Nat, NEW m \in Nat, Distance(n, d) <= 2 * m
  PROVE  Distance(EventRate * n, EventRate * d) <= 2 * EventRate * m
<1>1. EventRate \in Nat
  BY CaptureConstants
<1>2. \A i, j \in Nat : i <= j => EventRate * i <= EventRate * j
  BY <1>1, SMT
<1>3. n <= d + 2 * m /\ d <= n + 2 * m
  BY SMT DEF Distance
<1>4. EventRate * n <= EventRate * (d + 2 * m) /\ EventRate * d <= EventRate * (n + 2 * m)
  <2>1. d + 2 * m \in Nat /\ n + 2 * m \in Nat
    BY SMT
  <2> QED
    BY <1>2, <1>3, <2>1, Zenon
<1>5. /\ EventRate * (d + 2 * m) = EventRate * d + 2 * EventRate * m
      /\ EventRate * (n + 2 * m) = EventRate * n + 2 * EventRate * m
  BY <1>1, Z3
<1>6. EventRate * n \in Nat /\ EventRate * d \in Nat /\ 2 * EventRate * m \in Nat
  BY <1>1, SMT
<1> QED
  BY <1>4, <1>5, <1>6, SMT DEF Distance

----------------------------------------------------------------------------
\* Every edge that is taken for a rising one keeps the count close, however many the device forgot:
\* the step of run() that updates the event count.
LEMMA ReadLevelCloses ==
  ASSUME CaptureInv, ReadLevel
  PROVE  CountedClosely' /\ events' \in Nat /\ mistaken' \in Nat /\ origin' \in Nat
<1>1. /\ stampNow > last /\ stampNow \in Nat /\ last \in Nat /\ origin \in Nat
      /\ events \in Nat /\ mistaken \in Nat /\ MaxEdges \in Nat
  BY CaptureConstants, SMT DEF ReadLevel, CaptureInv, CaptureTypeOK, StampsInOrder
<1>2. CASE UNCHANGED counts
  BY <1>1, <1>2, Zenon DEF counts, CaptureInv, CountedClosely, HalvesClose, Rising
<1>3. CASE FirstPulse
  <2>1. /\ last' = stampNow /\ origin' = stampNow /\ events' = 0
        /\ mistaken' = IF Rising(stampNow) THEN 0 ELSE 1
    BY <1>3, Zenon DEF FirstPulse
  <2>2. 2 * Nominal * 0 = EventRate * 0 /\ stampNow - stampNow = 0
    BY <1>1, CaptureConstants, SMT
  <2>3. mistaken' \in Nat
    BY <2>1, SMT
  <2>4. HalvesClose(0, 0, mistaken', stampNow)
    BY <2>1, SMT DEF HalvesClose, Distance
  <2>5. CountedClosely'
    BY <1>1, <2>1, <2>2, <2>4, SMT DEF CountedClosely
  <2> QED
    BY <1>1, <2>1, <2>3, <2>5, SMT
<1>4. ASSUME NEW p \in Pulses, NextPulse(p)
      PROVE  CountedClosely' /\ events' \in Nat /\ mistaken' \in Nat /\ origin' \in Nat
  <2> DEFINE e == (p * EventRate) \div Nominal
  <2>1. /\ last # 0 /\ last' = stampNow /\ origin' = origin /\ events' = events + e
        /\ mistaken' = mistaken + IF Rising(stampNow) THEN 0 ELSE 1
    BY <1>4, Zenon DEF NextPulse
  <2>2. PICK n \in Nat : /\ 2 * Nominal * events = EventRate * n
                        /\ HalvesClose(n, last - origin, mistaken, last)
    BY <2>1, Zenon DEF CaptureInv, CountedClosely
  <2>3. origin <= last
    BY <2>1, Zenon DEF CaptureInv, CountedClosely
  <2>4. p \in Nat /\ Distance(2 * p, stampNow - last) = IF Rising(stampNow) <=> Rising(last) THEN 0 ELSE 1
    <3>1. p \in {(stampNow - last) \div 2, (stampNow - last + 1) \div 2}
      BY <1>4, Zenon DEF Pulses
    <3> HIDE DEF e
    <3>2. stampNow \in Nat /\ last \in Nat /\ stampNow > last
      BY <1>1, Zenon
    <3> QED
      BY <3>1, <3>2, SMT DEF Rising, Distance
  <2>5. e \in Nat /\ Nominal * e = EventRate * p
    BY <2>4, EventsOfPulses, Zenon
  <2>6. 2 * Nominal * (events + e) = EventRate * (n + 2 * p)
    <3> HIDE DEF e
    <3> QED BY <1>1, <2>2, <2>4, <2>5, CountGoesOn
  <2> HIDE DEF e
  <2>7. HalvesClose(n + 2 * p, stampNow - origin, mistaken', stampNow)
    <3> DEFINE x == Rising(stampNow)
               y == Rising(last)
    <3>1. Distance(n, last - origin) + (IF y THEN 0 ELSE 1) <= 2 * mistaken
      BY <2>2, Zenon DEF HalvesClose
    <3>2. mistaken' = mistaken + IF x THEN 0 ELSE 1
      BY <2>1, Zenon
    <3>3. Distance(2 * p, stampNow - last) = IF x <=> y THEN 0 ELSE 1
      BY <2>4, Zenon
    <3>4. x \in BOOLEAN /\ y \in BOOLEAN
      BY DEF Rising
    <3> HIDE DEF x, y
    <3>5. Distance(n + 2 * p, stampNow - origin) + (IF x THEN 0 ELSE 1) <= 2 * mistaken'
      <4>1. CASE x /\ y
        BY <1>1, <2>3, <2>4, <3>1, <3>2, <3>3, <4>1, SMT DEF Distance
      <4>2. CASE x /\ ~y
        BY <1>1, <2>3, <2>4, <3>1, <3>2, <3>3, <4>2, SMT DEF Distance
      <4>3. CASE ~x /\ y
        BY <1>1, <2>3, <2>4, <3>1, <3>2, <3>3, <4>3, SMT DEF Distance
      <4>4. CASE ~x /\ ~y
        BY <1>1, <2>3, <2>4, <3>1, <3>2, <3>3, <4>4, SMT DEF Distance
      <4> QED
        BY <4>1, <4>2, <4>3, <4>4
    <3> QED
      BY <3>5, Zenon DEF HalvesClose, x
  <2>8. CountedClosely'
    <3>1. n + 2 * p \in Nat /\ origin <= stampNow
      BY <1>1, <2>3, <2>4, SMT
    <3> QED
      BY <2>1, <2>6, <2>7, <3>1, Zenon DEF CountedClosely
  <2>9. events' \in Nat /\ mistaken' \in Nat
    BY <1>1, <2>1, <2>5, SMT
  <2> QED
    BY <1>1, <2>1, <2>8, <2>9, Zenon
<1>5. UNCHANGED counts => events' \in Nat /\ mistaken' \in Nat /\ origin' \in Nat
  BY <1>1, Zenon DEF counts
<1> QED
  BY <1>2, <1>3, <1>4, <1>5, Zenon DEF ReadLevel

\* The invariant is inductive: one step per action of the thread, its owner and the clock.
LEMMA CaptureStep ==
  ASSUME CaptureInv, [CapNext]_capVars
  PROVE  CaptureInv'
<1>0. MaxEdges \in Nat /\ CaptureTypeOK /\ StampsInOrder /\ CountedClosely
  BY CaptureConstants, Zenon DEF CaptureInv
<1>8. capEnd' \in BOOLEAN
  BY <1>0, Zenon DEF CapNext, capVars, Edge, StartCapture, StopCapture, CaptureEnds, ReadStamp,
     ReadLevel, CaptureTypeOK
<1>9. UNCHANGED counts => CountedClosely'
  BY <1>0, Zenon DEF counts, CountedClosely, HalvesClose, Rising
<1>1. CASE Edge
  BY <1>0, <1>1, <1>8, <1>9, SMT DEF Edge, counts, CaptureInv, CaptureTypeOK, StampsInOrder
<1>2. CASE StartCapture
  <2>1. CountedClosely'
    BY <1>2, Zenon DEF StartCapture, CountedClosely
  <2> QED
    BY <1>0, <1>2, <1>8, <2>1, SMT DEF StartCapture, CaptureInv, CaptureTypeOK, StampsInOrder
<1>3. CASE StopCapture
  BY <1>0, <1>3, <1>8, <1>9, SMT DEF StopCapture, counts, CaptureInv, CaptureTypeOK, StampsInOrder
<1>4. CASE CaptureEnds
  BY <1>0, <1>4, <1>8, <1>9, SMT DEF CaptureEnds, counts, CaptureInv, CaptureTypeOK, StampsInOrder
<1>5. CASE ReadStamp
  BY <1>0, <1>5, <1>8, <1>9, SMT DEF ReadStamp, counts, CaptureInv, CaptureTypeOK, StampsInOrder
<1>6. CASE ReadLevel
  <2>1. CountedClosely' /\ events' \in Nat /\ mistaken' \in Nat /\ origin' \in Nat
    BY <1>6, ReadLevelCloses
  <2>2. last' \in {last, stampNow}
    BY <1>6, Zenon DEF ReadLevel, FirstPulse, NextPulse, counts
  <2>3. /\ capturer = "level" /\ capturer' = "poll"
        /\ UNCHANGED <<edges, latched, capEnd, stampNow>>
    BY <1>6, Zenon DEF ReadLevel
  <2> QED
    BY <1>0, <1>8, <2>1, <2>2, <2>3, SMT DEF CaptureInv, CaptureTypeOK, StampsInOrder
<1>7. CASE UNCHANGED capVars
  BY <1>0, <1>7, <1>8, <1>9, SMT DEF capVars, counts, CaptureInv, CaptureTypeOK, StampsInOrder
<1> QED
  BY <1>1, <1>2, <1>3, <1>4, <1>5, <1>6, <1>7, Zenon DEF CapNext

\* The event count of a captured clock domain is the time since the edge it started at, for every
\* rate and frequency and whenever the pin is read: pulses missed are made up for, and every falling
\* edge that is taken for a rising one costs one period at most.
THEOREM CaptureIsExact == CapSpec => []CaptureExact
<1>0. MaxEdges \in Nat
  BY CaptureConstants
<1>1. CapInit => CaptureInv
  <2> SUFFICES ASSUME CapInit PROVE CaptureInv
    OBVIOUS
  <2>1. CountedClosely /\ capEnd \in BOOLEAN
    BY Zenon DEF CapInit, CountedClosely
  <2>2. CaptureTypeOK /\ StampsInOrder
    BY <1>0, <2>1, SMT DEF CapInit, CaptureTypeOK, StampsInOrder
  <2> QED
    BY <2>1, <2>2, Zenon DEF CaptureInv
<1>2. CaptureInv /\ [CapNext]_capVars => CaptureInv'
  BY CaptureStep
<1>3. CaptureInv => CaptureExact
  <2> SUFFICES ASSUME CaptureInv PROVE CaptureExact
    OBVIOUS
  <2>1. CASE last = 0
    BY <1>0, <2>1, SMT DEF CaptureInv, CaptureTypeOK, CaptureExact
  <2>2. CASE last # 0
    <3>1. PICK n \in Nat : /\ 2 * Nominal * events = EventRate * n
                          /\ HalvesClose(n, last - origin, mistaken, last)
      BY <2>2, Zenon DEF CaptureInv, CountedClosely
    <3>2. mistaken \in Nat /\ last - origin \in Nat /\ last <= edges
      BY <1>0, <2>2, SMT DEF CaptureInv, CaptureTypeOK, CountedClosely
    <3>3. Distance(n, last - origin) <= 2 * mistaken
      BY <3>1, <3>2, SMT DEF HalvesClose, Distance
    <3>4. Distance(EventRate * n, EventRate * (last - origin)) <= 2 * EventRate * mistaken
      BY <3>2, <3>3, ScaledDistance, Zenon
    <3>5. edges \in 0 .. MaxEdges /\ latched \in 0 .. MaxEdges
      BY <1>0, SMT DEF CaptureInv, CaptureTypeOK
    <3> QED
      BY <3>1, <3>2, <3>4, <3>5, Zenon DEF CaptureExact
  <2> QED
    BY <2>1, <2>2
<1> QED
  BY <1>1, <1>2, <1>3, PTL DEF CapSpec

----------------------------------------------------------------------------
(* HwDevice                                                                *)

DeviceFlags == {running, finished, active} \subseteq BOOLEAN

DeviceTypes ==
  /\ type \in {"sink", "source"}
  /\ api \in {"created", "ready", "start", "alive", "join", "deleted"}
  /\ held \subseteq {"mirror", "asrc", "worker", "pcm"}
  /\ thread \in {"off", "enter", "prefill", "loop", "asrc", "refill", "measure", "transfer"}
  /\ level \in 0 .. Length /\ avail \in 0 .. Length /\ device \in 0 .. Period
  /\ cntD \in 0 .. Startup /\ cntA \in 0 .. Startup + 1
  /\ copy \in NoCopy .. Period /\ aborted = FALSE

\* the thread runs only once the device is open and the rings exist
ThreadInPlace ==
  /\ api = "start" => {"mirror", "asrc", "worker"} \subseteq held
  /\ thread # "off" => api \in {"alive", "join"} /\ {"mirror", "asrc", "worker", "pcm"} \subseteq held

\* a granted access fits into what the other end has, but while the ring is being filled: then
\* there is room again for any access before the other end goes on
AccessFits ==
  /\ thread \notin {"prefill", "refill"} /\ copy # NoCopy => copy <= Other
  /\ thread \in {"prefill", "refill"} => Mine = Length \/ Mine <= Length - Period

\* a source has nothing to offer before its thread has filled the ring
NothingBefore ==
  type = "source" /\ (api \in {"created", "ready", "start"} \/ thread = "enter") => level = 0

\* the count taken earlier is not above what there is now
CountIsLow == thread = "measure" => avail <= Mine

DeviceInv == DeviceFlags /\ DeviceTypes /\ ThreadInPlace /\ AccessFits /\ NothingBefore /\ CountIsLow

----------------------------------------------------------------------------
(* Sizes of the ring, flags                                                *)

\* The target level lies between a period and the length; with two periods or more it is above
\* whatever time stamps may add to a count.
LEMMA Sizes ==
  /\ Period \in Nat /\ Startup \in Nat /\ Period > 0
  /\ Length \in Nat /\ Target \in Nat /\ UpperLimit \in Nat
  /\ Period <= Length /\ Period <= Target /\ Target <= Length
  /\ NumPeriods # 1 => UpperLimit <= Target
<1>1. Period \in Nat /\ Period > 0 /\ Startup \in Nat /\ NumPeriods \in Nat /\ NumPeriods > 0
  BY HwConstants, SMT
<1>2. Length \in Nat /\ Period <= Length /\ (NumPeriods # 1 => 2 * Period <= Length)
  <2>1. CASE NumPeriods = 1
    BY <1>1, <2>1, SMT DEF Length
  <2>2. CASE NumPeriods # 1
    <3>1. PICK n \in Nat : NumPeriods = n + 2
      <4>1. NumPeriods - 2 \in Nat /\ NumPeriods = (NumPeriods - 2) + 2
        BY <1>1, <2>2, SMT
      <4> QED
        BY <4>1
    <3>2. NumPeriods * Period = n * Period + 2 * Period /\ n * Period \in Nat
      BY <1>1, <3>1, SMT
    <3> QED
      BY <1>1, <3>2, SMT DEF Length
  <2> QED
    BY <2>1, <2>2
<1>3. Target \in Nat /\ Period <= Target /\ Target <= Length /\ (NumPeriods # 1 => 3 * Period <= 2 * Target + 1)
  BY <1>1, <1>2, SMT DEF Target
<1>4. UpperLimit \in Nat /\ 4 * UpperLimit <= 5 * Period
  BY <1>1, SMT DEF UpperLimit
<1>5. NumPeriods # 1 => UpperLimit <= Target
  BY <1>1, <1>3, <1>4, SMT
<1> QED
  BY <1>1, <1>2, <1>3, <1>4, <1>5

\* The flags stay Booleans.
LEMMA DeviceFlagsStep ==
  ASSUME DeviceFlags, [HwNext]_hwVars
  PROVE  DeviceFlags'
<1> USE DEF DeviceFlags, ThreadOnly, Step, hwLocals
<1>1. CASE Engine
  BY <1>1, Zenon DEF Engine, InitHandler, CreateWorker, OpenDevice, StartFails, StartThread, ShutDown, Delete
<1>2. CASE Copy
  BY <1>2, Zenon DEF Copy, CopyBegin, CopyEnd
<1>3. CASE Enter \/ Prefill \/ Refill \/ EndOfRun \/ DeviceAvailable \/ DeviceFails
  BY <1>3, Zenon DEF Enter, Prefill, Refill, FillTurn, EndOfRun, DeviceAvailable, DeviceFails
<1>4. CASE RingAvailable \/ FallBack \/ Transfer
  BY <1>4, Zenon DEF RingAvailable, FallBack, Transfer
<1>5. CASE Measure
  BY <1>5, Zenon DEF Measure
<1>6. CASE UNCHANGED hwVars
  BY <1>6, Zenon DEF hwVars
<1> QED
  BY <1>1, <1>2, <1>3, <1>4, <1>5, <1>6 DEF HwNext, Thread

----------------------------------------------------------------------------
(* Every step preserves the invariant                                      *)

\* The rest of the invariant after a step of the handler, the other end of the ring or the thread.
LEMMA DeviceStep ==
  ASSUME DeviceInv, "paced" \in Assume, NumPeriods # 1, [HwNext]_hwVars
  PROVE  DeviceTypes' /\ ThreadInPlace' /\ AccessFits' /\ NothingBefore' /\ CountIsLow'
<1> USE Sizes DEF DeviceInv, DeviceTypes, ThreadInPlace, AccessFits, NothingBefore, CountIsLow,
        Mine, Other, MovedHere, MovedThere, Lesser, NoCopy, Live, Step, ThreadOnly, hwLocals
<1>1. CASE InitHandler
  BY <1>1, SMT DEF InitHandler, CreateWorker
<1>2. CASE OpenDevice
  <2>1. /\ held' \subseteq {"mirror", "asrc", "worker", "pcm"} /\ held \subseteq held' /\ api = "start" /\ api' \in {"start", "alive"}
        /\ UNCHANGED <<type, thread, level, avail, device, cntD, cntA, copy, aborted>>
    BY <1>2, Zenon DEF OpenDevice
  <2> QED
    BY <2>1, SMT
<1>3. CASE StartFails
  BY <1>3, SMT DEF StartFails
<1>4. CASE StartThread
  BY <1>4, SMT DEF StartThread
<1>5. CASE ShutDown
  BY <1>5, SMT DEF ShutDown
<1>6. CASE Delete
  BY <1>6, SMT DEF Delete
<1>7. CASE CopyBegin
  BY <1>7, SMT DEF CopyBegin, Assigned, Granted, Quiet
<1>8. CASE CopyEnd
  BY <1>8, SMT DEF CopyEnd, Quiet
<1>9. CASE Enter
  BY <1>9, SMT DEF Enter
<1>fill. ASSUME NEW from \in {"prefill", "refill"}, NEW to \in {"loop", "measure"}, FillTurn(from, to)
         PROVE  DeviceTypes' /\ ThreadInPlace' /\ AccessFits' /\ NothingBefore' /\ CountIsLow'
  <2>1. /\ thread = from /\ UNCHANGED <<type, api, held, copy, device, cntD>>
        /\ avail' = IF Mine >= Period THEN Mine - Period ELSE Mine
        /\ thread' = IF avail' >= Target THEN from ELSE to
        /\ cntA' \in {cntA, Lesser(cntA + 1, Startup + 1)}
    BY <1>fill, Zenon DEF FillTurn
  <2>2. CASE Mine >= Target
    <3>1. Adjust(Period)
      BY <1>fill, <2>2, Zenon DEF FillTurn
    <3>2. ~(Period > Mine) /\ (Period > Mine) = FALSE
      BY <2>2, SMT
    <3>3. aborted' = FALSE /\ level' = MovedHere(Period)
      BY <3>1, <3>2, Zenon DEF Adjust
    <3> QED
      BY <2>1, <2>2, <3>3, SMT
  <2>3. CASE ~(Mine >= Target)
    <3>1. UNCHANGED <<level, aborted>>
      BY <1>fill, <2>3, Zenon DEF FillTurn
    <3> QED
      BY <2>1, <2>3, <3>1, SMT
  <2> QED
    BY <2>2, <2>3
<1>10. CASE Prefill
  BY <1>10, <1>fill DEF Prefill
<1>11. CASE Refill
  BY <1>11, <1>fill DEF Refill
<1>12. CASE EndOfRun
  BY <1>12, SMT DEF EndOfRun
<1>13. CASE DeviceAvailable
  BY <1>13, SMT DEF DeviceAvailable
<1>14. CASE DeviceFails
  BY <1>14, SMT DEF DeviceFails
<1>15. CASE RingAvailable
  BY <1>15, SMT DEF RingAvailable
<1>16. CASE FallBack
  BY <1>16, SMT DEF FallBack
<1>17. CASE Measure
  <2>1. PICK virtual \in -1 .. Length + Period, spike \in BOOLEAN :
          LET valid == virtual \in 0 .. UpperLimit /\ ~spike
              ends  == ~finished /\ cntA > Startup /\ cntD >= Startup /\ valid
              surplus == IF ends /\ avail + virtual > Target THEN avail + virtual - Target ELSE 0
          IN Adjust(surplus) /\ avail' = avail - surplus
    BY <1>17, Zenon DEF Measure
  <2>2. PICK surplus \in Int :
          /\ surplus = 0 \/ (\E v \in 0 .. UpperLimit : avail + v > Target /\ surplus = avail + v - Target)
          /\ Adjust(surplus) /\ avail' = avail - surplus
    <3> DEFINE valid == virtual \in 0 .. UpperLimit /\ ~spike
               ends  == ~finished /\ cntA > Startup /\ cntD >= Startup /\ valid
               surplus == IF ends /\ avail + virtual > Target THEN avail + virtual - Target ELSE 0
    <3>1. Adjust(surplus) /\ avail' = avail - surplus
      BY <2>1
    <3>2. CASE ends /\ avail + virtual > Target
      <4>1. virtual \in 0 .. UpperLimit /\ surplus = avail + virtual - Target
        BY <3>2, Zenon
      <4>2. surplus \in Int
        BY <4>1, SMT
      <4> HIDE DEF surplus, ends
      <4> QED
        BY <3>1, <3>2, <4>1, <4>2
    <3>3. CASE ~(ends /\ avail + virtual > Target)
      <4>1. surplus = 0
        BY <3>3, Zenon
      <4> HIDE DEF surplus, ends
      <4> QED
        BY <3>1, <4>1
    <3> QED
      BY <3>2, <3>3
  <2>3. thread = "measure" /\ thread' \in {"transfer", "loop"} /\ UNCHANGED <<type, api, held, copy, device, cntD, cntA>>
    BY <1>17, Zenon DEF Measure
  <2>4. ~(surplus > Mine) /\ (surplus > Mine) = FALSE /\ avail - surplus \in 0 .. Length /\ surplus >= 0
    BY <2>2, <2>3, SMT
  <2>5. aborted' = FALSE /\ level' = MovedHere(surplus)
    BY <2>2, <2>4, Zenon DEF Adjust
  <2> QED
    BY <2>2, <2>3, <2>4, <2>5, SMT
<1>18. CASE Transfer
  BY <1>18, SMT DEF Transfer, Granted, Converted
<1>19. CASE UNCHANGED hwVars
  BY <1>19, SMT DEF hwVars
<1> QED
  BY <1>1, <1>2, <1>3, <1>4, <1>5, <1>6, <1>7, <1>8, <1>9, <1>10, <1>11, <1>12, <1>13, <1>14, <1>15, <1>16, <1>17, <1>18, <1>19
     DEF HwNext, Engine, Copy, Thread

\* No adjustment of the ring asks for more frames than there are, whatever the device, the time
\* stamps and the converter do, if the other end stays away while the ring is filled; the ring is
\* two periods long or more (with one, the adjustment at the end of the start-up phase may ask for
\* a quarter of a period that nobody has written).
THEOREM AdjustmentFits ==
  ASSUME "paced" \in Assume, NumPeriods # 1
  PROVE  HwSpec => []AdjustFits
<1>1. HwInit => DeviceInv
  <2> SUFFICES ASSUME HwInit PROVE DeviceInv
    OBVIOUS
  <2>1. DeviceFlags
    BY Zenon DEF HwInit, DeviceFlags
  <2> QED
    BY <2>1, Sizes, SMT
       DEF HwInit, DeviceInv, DeviceTypes, ThreadInPlace, AccessFits, NothingBefore, CountIsLow, Mine, Other, NoCopy
<1>2. DeviceInv /\ [HwNext]_hwVars => DeviceInv'
  <2> SUFFICES ASSUME DeviceInv, [HwNext]_hwVars PROVE DeviceInv'
    OBVIOUS
  <2>1. DeviceFlags'
    BY DeviceFlagsStep DEF DeviceInv
  <2>2. DeviceTypes' /\ ThreadInPlace' /\ AccessFits' /\ NothingBefore' /\ CountIsLow'
    BY DeviceStep
  <2> QED
    BY <2>1, <2>2 DEF DeviceInv
<1>3. DeviceInv => AdjustFits
  <2> SUFFICES ASSUME DeviceInv PROVE AdjustFits
    OBVIOUS
  <2>1. running \in BOOLEAN /\ finished \in BOOLEAN /\ active \in BOOLEAN
    BY DEF DeviceInv, DeviceFlags
  <2>2. aborted \in BOOLEAN /\ ~aborted
    BY Zenon DEF DeviceInv, DeviceTypes
  <2>3. HwTypeOK
    BY <2>1, <2>2, Zenon DEF DeviceInv, DeviceTypes, HwTypeOK
  <2> QED
    BY <2>2, <2>3, Zenon DEF DeviceInv, ThreadInPlace, AdjustFits
<1> QED
  BY <1>1, <1>2, <1>3, PTL DEF HwSpec
=============================================================================
