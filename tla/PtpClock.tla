------------------------------ MODULE PtpClock ------------------------------
(***************************************************************************)
(* Time as the stream handler sees it. IasLibPtpDaemon reads the clock of  *)
(* the network device, extrapolates it with the system clock in between,   *)
(* and counts epochs: a step of the PTP clock that is not explained by the *)
(* system clock starts a new one. IasAvbRxStreamClockDomain extends the    *)
(* 32-bit presentation times of a received stream to 64 bits with the help *)
(* of both.                                                                *)
(*                                                                         *)
(* Times are counts of a coarse unit, and the factor between the clocks is *)
(* a multiple of 1 / Grain: a factor that is computed is rounded to one of *)
(* its neighbours, and a smoothed one lies anywhere between the old and    *)
(* the new. A difference in rate shows as small steps of the PTP clock.    *)
(* The raw clock, which repeats the scheme, and diagnostics are left out.  *)
(***************************************************************************)
EXTENDS Integers

CONSTANTS
  Wrap,            \* 2^32 in the code
  MaxTime,         \* bound on both clocks
  Steps,           \* steps of the PTP clock
  MaxSteps,        \* bound on their number
  Transit,         \* how far presentation times lie ahead
  EpochThreshold,  \* cEpochChangeThreshold
  UnsettledFactor, \* 10 in the code
  UpdateThreshold, \* cUpdateThreshold
  Grain,           \* resolution of the factor, a double in the code
  MaxEpoch,        \* bound on mEpochCounter, which has 32 bits
  TimeAssume,          \* what is taken for granted, see Tick and Warp
  NoTime

ASSUME PtpConstants ==
  /\ Wrap \in Nat \ {0} /\ Wrap % 2 = 0 /\ MaxTime \in Nat \ {0} /\ NoTime \notin Int /\ MaxSteps \in Nat
  /\ Steps \subseteq Int /\ Transit \subseteq 0 .. Wrap \div 2 - 1
  /\ TimeAssume \subseteq {"reset", "late"}
  /\ EpochThreshold \in Nat /\ UnsettledFactor \in Nat \ {0} /\ UpdateThreshold \in Nat /\ MaxEpoch \in Nat \ {0}
  /\ Grain \in Nat \ {0}

VARIABLES
  ptp, tsc,   \* the clock of the network device and the system clock
  steps,      \* steps so far
  open,       \* mClockId is not -1
  lastTime,   \* mLastTime, 0: not valid
  lastTsc,    \* mLastTsc
  factor,     \* mTscToLocalFactor, in multiples of 1 / Grain
  coeff,      \* mAvgCoeff: 1.0, above cSmoothBound, or not
  epoch,      \* mEpochCounter
  holder,     \* who is inside getRealLocalTime(), with mLastTimeMutex
  attempt,
  local,      \* the caller of getLocalTime() that has set mLocalTimeUpdating
  domEpoch,   \* mEpoch of the clock domain
  stamp,      \* mLastTimeStamp of the clock domain, NoTime before the first reset
  pres,       \* the presentation time, in full, of the packet processed last
  packet,     \* the one that is being processed
  unseen,     \* the clock has stepped and no new epoch has begun since
  read        \* the last time that was read, when it was, and in which epoch

clocks == <<ptp, tsc, steps>>
proxy == <<open, lastTime, lastTsc, factor, coeff, epoch, local>>
dom == <<domEpoch, stamp, pres>>
ptpVars == <<clocks, proxy, holder, attempt, dom, packet, unseen, read>>

Abs(x) == IF x < 0 THEN -x ELSE x
Returned(t) == read' = [time |-> t, tsc |-> tsc, epoch |-> epoch']
NextEpoch == epoch < MaxEpoch /\ epoch' = epoch + 1

----------------------------------------------------------------------------
(* The clocks                                                              *)

\* Assumed ("late"): a packet whose stamp is compared with the time is not late yet, nor more than
\* half a round of the stamp ahead
Tick ==
  /\ ptp < MaxTime /\ tsc < MaxTime
  /\ "late" \in TimeAssume => packet = NoTime \/ ptp # packet
  /\ ptp' = ptp + 1 /\ tsc' = tsc + 1
  /\ UNCHANGED <<steps, proxy, holder, attempt, dom, packet, unseen, read>>

\* another grandmaster, or a correction of the clock; the presentation times follow.
\* Assumed ("reset"): not between the arrival of the packet that resets a clock domain and the
\* reading it is compared with
Warp ==
  /\ \E d \in Steps :
       /\ steps < MaxSteps /\ ptp + d \in 1 .. MaxTime
       /\ "late" \in TimeAssume /\ packet # NoTime /\ Abs(d) <= EpochThreshold =>
            packet - (ptp + d) \in 0 .. Wrap \div 2 - 1
       /\ "reset" \in TimeAssume => packet = NoTime \/ stamp # NoTime
       /\ ptp' = ptp + d /\ steps' = steps + 1
       /\ unseen' = (unseen \/ Abs(d) > EpochThreshold)
  /\ UNCHANGED <<tsc, proxy, holder, attempt, dom, packet, read>>

----------------------------------------------------------------------------
(* getRealLocalTime(): a loop under mLastTimeMutex                          *)

\* what is left alone by the proxy's own steps
ProxyOnly == UNCHANGED <<clocks, dom, packet>>

\* a span of the system clock in time of the PTP clock
Scaled(f, elapsed) == (elapsed * f) \div Grain

PhaseError == Abs((ptp - lastTime) - Scaled(factor, tsc - lastTsc))

\* mutant: a clock that runs ahead is believed
EpochChangedBack == ptp < lastTime

\* the step is judged strictly once the factor has settled
EpochChanged == PhaseError > EpochThreshold * IF coeff = "low" THEN 1 ELSE UnsettledFactor

\* lastTime is not valid: everything starts over from this reading
Rebase(t) == lastTime' = t /\ lastTsc' = tsc /\ factor' = Grain /\ coeff' = "one"

\* the factors the code believes, from 1 / 1.5 to 1.5
Believed(d, e) == 3 * d >= 2 * e /\ 2 * d <= 3 * e
Factors == {f \in 1 .. 2 * Grain : Believed(f, Grain)}

\* the factor for the spans d and e of the two clocks: the first one of an epoch is taken as it
\* is, a later one moves the old factor towards it
Smoothed(d, e) ==
  {f \in Factors : \E g \in Factors :
     /\ Abs(g * e - Grain * d) < e
     /\ f \in IF coeff = "one" THEN {g} ELSE (factor .. g) \cup (g .. factor)}

UpdateFactor(d, e) ==
  IF Believed(d, e)
  THEN /\ factor' \in Smoothed(d, e)
       /\ coeff' \in IF coeff = "one" THEN {"high"} ELSE {coeff, "low"}
  ELSE UNCHANGED <<factor, coeff>>

\* an old reading is replaced, and the factor with it
Refresh(force) ==
  IF force \/ ptp - lastTime > UpdateThreshold
  THEN lastTime' = ptp /\ lastTsc' = tsc /\ UpdateFactor(ptp - lastTime, tsc - lastTsc)
  ELSE UNCHANGED <<lastTime, lastTsc, factor, coeff>>

Leave ==
  /\ holder' = "none" /\ attempt' = 0
  /\ local' = IF holder = "local" THEN "done" ELSE local

\* a reading that can be told from the last one, and how the loop ends with it
ReadNewer(force) ==
  /\ holder # "none" /\ open
  /\ lastTime = 0 \/ ptp > lastTime \/ (ptp = lastTime /\ EpochChanged)
  /\ IF lastTime = 0 THEN Rebase(ptp) /\ UNCHANGED <<epoch, unseen>>
     ELSE IF EpochChanged THEN Rebase(ptp) /\ NextEpoch /\ unseen' = FALSE
     ELSE Refresh(force) /\ UNCHANGED <<epoch, unseen>>

\* the clock went backwards or stands still: read again, at most three times
ReadAgain ==
  /\ holder # "none" /\ open
  /\ lastTime # 0 /\ (ptp < lastTime \/ (ptp = lastTime /\ ~EpochChanged))
  /\ LET a == attempt + IF ptp < lastTime THEN 1 ELSE 0 IN
     IF a >= 3
     THEN /\ NextEpoch /\ unseen' = FALSE
          /\ lastTime' = 0 /\ attempt' = 1
     ELSE attempt' = a + 1 /\ UNCHANGED <<epoch, unseen, lastTime>>
  /\ UNCHANGED <<open, lastTsc, factor, coeff, local, holder, read>> /\ ProxyOnly

----------------------------------------------------------------------------
(* Its callers                                                             *)

\* "real" asks for the device's time, "force" also wants the factor updated
CallReal ==
  /\ holder = "none" /\ open
  /\ holder' \in {"real", "force"} /\ attempt' = 1
  /\ UNCHANGED <<proxy, unseen, read>> /\ ProxyOnly

RealReturns ==
  /\ holder \in {"real", "force", "local"}
  /\ ReadNewer(holder = "force")
  /\ Leave /\ Returned(ptp)
  /\ UNCHANGED open /\ ProxyOnly

Extrapolated == lastTime + Scaled(factor, tsc - lastTsc)

\* getLocalTime(): the reading is recent, or somebody is replacing it already
GetLocalTime ==
  /\ holder = "none" /\ open
  /\ Scaled(factor, tsc - lastTsc) <= UpdateThreshold \/ local # "idle"
  /\ UNCHANGED <<proxy, holder, attempt, unseen>> /\ Returned(Extrapolated) /\ ProxyOnly

\* it is old: announced under the mutex, which is given up before it is replaced
GetLocalTimeUpdates ==
  /\ holder = "none" /\ open
  /\ Scaled(factor, tsc - lastTsc) > UpdateThreshold /\ local = "idle" /\ local' = "call"
  /\ UNCHANGED <<open, lastTime, lastTsc, factor, coeff, epoch, holder, attempt, unseen, read>> /\ ProxyOnly

LocalCallsReal ==
  /\ holder = "none" /\ local = "call"
  /\ holder' = "local" /\ attempt' = 1
  /\ UNCHANGED <<proxy, unseen, read>> /\ ProxyOnly

LocalTimeUpdated ==
  /\ holder = "none" /\ local = "done" /\ local' = "idle"
  /\ UNCHANGED <<open, lastTime, lastTsc, factor, coeff, epoch, holder, attempt, unseen, read>> /\ ProxyOnly

\* cleanUp() while the handler is suspended, and init() when it resumes; nobody asks for the
\* time in between
CleanUp ==
  /\ holder = "none" /\ open /\ local = "idle" /\ open' = FALSE
  /\ UNCHANGED <<lastTime, lastTsc, factor, coeff, epoch, local, holder, attempt, unseen, read>> /\ ProxyOnly

CalculateConversionCoeffs ==
  /\ ~open /\ open' = TRUE /\ Rebase(ptp)
  /\ stamp' = NoTime /\ unseen' = FALSE /\ read' = NoTime
  /\ UNCHANGED <<epoch, local, holder, attempt, clocks, domEpoch, pres, packet>>

----------------------------------------------------------------------------
(* The clock domain of a received stream                                    *)

\* the next packet of the stream: presentation times increase in steps of less than Wrap
Arrives(p) ==
  /\ p \in {ptp + d : d \in Transit}
  /\ stamp # NoTime /\ ~unseen => p > pres /\ p - pres < Wrap

\* mutant: a time stamp ahead of the local time never belongs to the next round
InitWithoutCarry(now, p) == (now - (now % Wrap)) + (p % Wrap)

\* initLastTimeStamp(): local time's upper half, one more when the stamp is ahead of it and
\* has wrapped
InitLastTimeStamp(now, p) ==
  LET ahead == (p - now) % Wrap \in 1 .. Wrap \div 2 - 1 IN
  (now - (now % Wrap)) + (p % Wrap)
    + IF ahead /\ p % Wrap < now % Wrap THEN Wrap ELSE 0

\* update(): a stamp that is not greater than the one before has wrapped
Extended(p) ==
  (stamp - (stamp % Wrap)) + (p % Wrap) + IF stamp % Wrap < p % Wrap THEN 0 ELSE Wrap

\* bound on the stamps while an unseen step garbles them
MaxStamp == MaxTime + 2 * Wrap

Update ==
  /\ open /\ packet = NoTime /\ stamp # NoTime
  /\ domEpoch = epoch
  /\ \E d \in Transit :
       /\ Arrives(ptp + d)
       /\ Extended(ptp + d) <= MaxStamp
       /\ stamp' = Extended(ptp + d) /\ pres' = ptp + d
  /\ UNCHANGED <<clocks, proxy, holder, attempt, domEpoch, packet, unseen, read>>

\* reset(), which notes the epoch after it has read the time, or an update in a new epoch,
\* which notes it before
AskForTime ==
  /\ open /\ packet = NoTime /\ holder = "none"
  /\ stamp = NoTime \/ domEpoch # epoch
  /\ \E d \in Transit : packet' = ptp + d
  /\ holder' = "rx" /\ attempt' = 1
  /\ domEpoch' = IF stamp = NoTime THEN domEpoch ELSE epoch
  /\ UNCHANGED <<clocks, proxy, stamp, pres, unseen, read>>

UpdateInNewEpoch ==
  /\ holder = "rx"
  /\ ReadNewer(FALSE)
  /\ Leave /\ Returned(ptp)
  /\ domEpoch' = IF stamp = NoTime THEN epoch' ELSE domEpoch
  /\ stamp' = InitLastTimeStamp(ptp, packet) /\ pres' = packet /\ packet' = NoTime
  /\ UNCHANGED <<open, clocks>>

----------------------------------------------------------------------------
PtpInit ==
  /\ ptp = 1 /\ tsc = 1 /\ steps = 0
  /\ open = TRUE /\ lastTime = 1 /\ lastTsc = 1 /\ factor = Grain /\ coeff = "one" /\ epoch = 0
  /\ holder = "none" /\ attempt = 0 /\ local = "idle"
  /\ domEpoch = 0 /\ stamp = NoTime /\ pres = 0 /\ packet = NoTime
  /\ unseen = FALSE /\ read = NoTime

PtpNext ==
  \/ Tick \/ Warp
  \/ CallReal \/ ReadAgain \/ RealReturns \/ GetLocalTime \/ GetLocalTimeUpdates
  \/ LocalCallsReal \/ LocalTimeUpdated
  \/ CleanUp \/ CalculateConversionCoeffs
  \/ Update \/ AskForTime \/ UpdateInNewEpoch

PtpSpec == PtpInit /\ [][PtpNext]_ptpVars

----------------------------------------------------------------------------
(* Properties                                                              *)

\* types of the variables
PtpTypeOK ==
  /\ ptp \in 1 .. MaxTime /\ tsc \in 1 .. MaxTime /\ steps \in 0 .. MaxSteps
  /\ open \in BOOLEAN /\ lastTime \in 0 .. MaxTime /\ lastTsc \in 0 .. MaxTime
  /\ factor \in Factors /\ coeff \in {"one", "high", "low"} /\ epoch \in 0 .. MaxEpoch /\ local \in {"idle", "call", "done"}
  /\ holder \in {"none", "real", "force", "local", "rx"} /\ attempt \in 0 .. 3
  /\ domEpoch \in 0 .. MaxEpoch
  /\ stamp \in {NoTime} \cup 0 .. MaxStamp /\ pres \in 0 .. MaxTime + Wrap
  /\ packet \in {NoTime} \cup 1 .. MaxTime + Wrap /\ unseen \in BOOLEAN

Bound == 2 * EpochThreshold * UnsettledFactor

\* Between two reads in a row that carry the same epoch the time moves on with the system clock,
\* by no less than 1 / 1.5 and no more than 1.5 times what that one does, but for the thresholds:
\* a step of the PTP clock beyond the threshold is never handed out without a new epoch, nor
\* multiplied into a factor, whoever reads, extrapolates or refreshes base and factor in between.
\* (getLocalTime, getRealLocalTime)
EpochBoundsError ==
  [][read # NoTime /\ read' # NoTime /\ read.epoch = read'.epoch =>
       LET d == read'.time - read.time
           e == read'.tsc - read.tsc IN
       /\ 3 * (d + Bound) + 2 >= 2 * e
       /\ 2 * (d - Bound) - 1 <= 3 * e]_ptpVars

\* the extended time stamp is the presentation time of the last packet, across wraps of the
\* stamp and steps of the clock, in every epoch the domain knows about
StampExact ==
  /\ PtpTypeOK
  /\ stamp # NoTime /\ packet = NoTime /\ domEpoch = epoch /\ ~unseen => stamp = pres
=============================================================================
