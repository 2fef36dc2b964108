--------------------------- MODULE TransmitTiming ---------------------------
(***************************************************************************)
(* The times a transmit stream puts into its packets: an audio stream      *)
(* stamps each packet with the presentation time of its first sample, a    *)
(* clock reference stream with the times of events of its clock domain.    *)
(* Both follow a master clock, which they read as a pair of an event count *)
(* and the time of that event, extrapolate from the last two pairs and     *)
(* start anew when the master falters. The sequencer asks for the next     *)
(* packet once the last one is due in its window, and restarts a stream    *)
(* that has fallen behind.                                                 *)
(*                                                                         *)
(* The master runs at a constant rate as long as it runs, so that the      *)
(* quotients of the code are exact. Abstracted: the payload and the local  *)
(* stream (AlsaStream), the constant presentation time offset, the header  *)
(* fields other than the stamps, and the conversion between the rates of   *)
(* the clock domain and the stream, which are taken to be equal.           *)
(***************************************************************************)
EXTENDS Integers, Sequences

CONSTANTS
  Second,       \* clock ticks in a second
  Frequencies,  \* sample frequencies a caller may ask for
  Supported,    \* those a stream accepts
  PacketRates,  \* packets per second of the SR classes; 0: a class that is not known
  Pitch, Width, \* txWindowPitch, txWindowWidth
  ResetAfter,   \* txWindowResetThreshold
  Retry,        \* how long to wait for a reference clock, 10 ms in the code
  MasterTimeout,
  MinUpdates,   \* mMasterTimeUpdateMinInterval
  MaxEvents,    \* bound on the events between two updates of the clock
  MaxStarts,    \* bound on the starts of the clock
  TimingEnd,    \* bound on the time
  TimingAssume  \* see ClockAdvances and WriteDummy

ASSUME TimingConstants ==
  /\ {Second, Pitch, Width, Retry, MasterTimeout, MaxEvents, MaxStarts} \subseteq Nat \ {0}
  /\ {ResetAfter, TimingEnd} \subseteq Nat /\ MinUpdates \subseteq Nat /\ PacketRates \subseteq Nat
  /\ Supported \subseteq Frequencies \ {0} /\ Frequencies \subseteq Nat
  /\ \A f \in Supported : Second % f = 0
  /\ TimingAssume \subseteq {"clock", "noticed"}

VARIABLES
  txs,      \* the stream
  ref,      \* its reference plane: mRefPlaneSampleCount, -Time, -Offset and mPacketLaunchTime
  master,   \* the last two pairs read from the clock, and mLastRefPlaneSampleTime
  clk,      \* the clock domain: event count and time, and the time of event 0
  window,   \* windowStart of the sequencer
  ttLaunch, \* launch time of the last packet prepared
  ttCall,   \* "wait": writeToAvbPacket() waits for mLock
  ttLock,   \* mLock is held
  judged    \* the stamps that were prepared since the last restart, for the properties

ttVars == <<txs, ref, master, clk, window, ttLaunch, ttCall, ttLock, judged>>

NoReference == [count |-> 0, time |-> 0, offset |-> 0, launch |-> 0]
NoMaster == [count |-> 0, time |-> 0, lastCount |-> 0, lastTime |-> 0, lastRef |-> 0]
NewStamps == [next |-> 0, floor |-> 0, onGrid |-> TRUE, inOrder |-> TRUE]

CeilDiv(a, b) == (a + b - 1) \div b

----------------------------------------------------------------------------
(* initTransmit() of both streams                                          *)

\* the parameters an audio stream is created with, and what becomes of them
AudioResult(p) ==
  IF p.channels = 0 \/ p.frequency = 0 \/ ~p.clock THEN "InvalidParam"
  ELSE IF p.frequency \notin Supported THEN "UnsupportedFormat"
  ELSE IF p.packets = 0 \/ ~p.fits THEN "InvalidParam"
  ELSE "OK"

\* a clock reference stream takes any base frequency, but has to name stamps and their interval
ClockReferenceResult(p) ==
  IF p.channels = 0 \/ p.frequency = 0 \/ ~p.clock THEN "InvalidParam"
  ELSE IF ~p.audioType THEN "UnsupportedFormat"
  ELSE IF ~p.fits \/ p.packets = 0 THEN "InvalidParam"
  ELSE "OK"

\* samples of a packet, or events between the first stamps of two packets (channels: stamps per packet)
SamplesPerPacket(kind, p) == IF kind = "audio" THEN CeilDiv(p.frequency, p.packets) ELSE p.channels

Parameters ==
  [channels : 0 .. 2, frequency : Frequencies, packets : PacketRates, clock : BOOLEAN,
   fits : BOOLEAN, audioType : BOOLEAN, minUpdate : MinUpdates]

Ready(kind, p) ==
  txs' = [kind |-> kind, ready |-> TRUE, active |-> FALSE, samples |-> SamplesPerPacket(kind, p),
          interval |-> Second \div p.frequency, minUpdate |-> p.minUpdate]

\* a refused stream is cleaned up; without the memory or the packets it needs, a stream is refused too
InitTransmit(kind, p) ==
  /\ ~txs.ready
  /\ LET result == IF kind = "audio" THEN AudioResult(p) ELSE ClockReferenceResult(p) IN
     IF result = "OK" /\ p.frequency \in Supported THEN Ready(kind, p) ELSE UNCHANGED txs
  /\ UNCHANGED <<ref, master, clk, window, ttLaunch, ttCall, ttLock, judged>>

----------------------------------------------------------------------------
(* The master clock, as other threads drive it                             *)

\* the clock starts, or starts again with its count at 0 (setEventCount)
ClockStarts ==
  /\ clk.starts < MaxStarts
  /\ LET now == IF clk.time > window THEN clk.time + 1 ELSE window + 1 IN
       clk' = [count |-> 0, time |-> now, zero |-> now, seen |-> FALSE, starts |-> clk.starts + 1]
  /\ UNCHANGED <<txs, ref, master, window, ttLaunch, ttCall, ttLock, judged>>

\* n events later; the clock does not run ahead of the sequencer's time. A stream tells a clock
\* that has started again by its count: "noticed" assumes that it looks before the count has
\* caught up with the old one
ClockAdvances(n) ==
  /\ clk.time # 0 /\ txs.ready
  /\ clk.time + n * txs.interval <= window + Width
  /\ "noticed" \in TimingAssume /\ ~clk.seen => clk.count + n <= master.count
  /\ clk' = [clk EXCEPT !.count = @ + n, !.time = @ + n * txs.interval]
  /\ UNCHANGED <<txs, ref, master, window, ttLaunch, ttCall, ttLock, judged>>

----------------------------------------------------------------------------
(* activate(), deactivate(), and the restart by the sequencer              *)

Restarted ==
  /\ ref' = NoReference
  /\ judged' = [NewStamps EXCEPT !.floor = master'.lastRef]

\* the API and the sequencer take mLock to start the stream anew
SetActive ==
  /\ txs.ready /\ ~ttLock /\ ttCall = "idle"
  /\ txs' = [txs EXCEPT !.active = ~@]
  /\ UNCHANGED <<master, clk, window, ttLaunch, ttCall, ttLock>>
  /\ IF txs.active THEN UNCHANGED <<ref, judged>> ELSE Restarted

----------------------------------------------------------------------------
(* resetTime()                                                             *)

\* the reference plane begins with the next sample the sequencer can still send, and after the
\* samples that have been sent before the restart; the clock reference begins with the master
SkippedSamples(start) ==
  LET behind == IF start > clk.time THEN CeilDiv(start - clk.time, txs.interval) ELSE 0
      sent == IF master.lastRef > clk.time THEN CeilDiv(master.lastRef - clk.time, txs.interval) ELSE 0
  IN IF txs.kind = "crf" THEN 0 ELSE IF behind < sent THEN sent ELSE behind

ResetTime(start) ==
  LET skip == SkippedSamples(start)
      time == clk.time + skip * txs.interval
  IN [ref |-> IF clk.time = 0 THEN [NoReference EXCEPT !.offset = 1, !.launch = start]
              ELSE [count |-> ref.count + skip, time |-> time, offset |-> ref.count - clk.count, launch |-> time],
      master |-> [NoMaster EXCEPT !.count = clk.count, !.time = clk.time],
      ok |-> clk.time # 0]

----------------------------------------------------------------------------
(* writeToAvbPacket()                                                      *)

NeedsReset == ref.count = 0 /\ ref.time = 0

\* the newer pair is taken over; a master that has stopped for too long or was set back is given up
Updated(m) ==
  IF clk.time = m.time THEN m
  ELSE IF clk.time < m.time \/ clk.time - m.time > MasterTimeout \/ clk.count <= m.count
    THEN [m EXCEPT !.time = 0]
  ELSE IF clk.time - m.time < txs.minUpdate THEN m
  ELSE [m EXCEPT !.lastTime = m.time, !.time = clk.time, !.lastCount = m.count, !.count = clk.count]

\* the duration of an event: the nominal one, or the mean between the last two pairs
Duration(m) ==
  IF m.lastTime = 0 THEN txs.interval ELSE (m.time - m.lastTime) \div (m.count - m.lastCount)

\* mutant: the offset between the counts of the stream and of the master is left out
TimeWithoutOffset(m, r, count) == m.time + Duration(m) * (count - m.count)

TimeOfEvent(m, r, count) == m.time + Duration(m) * (count - (m.count + r.offset))

\* an audio stream stamps with the time computed before, and computes the next one
AudioPacket(r, m) ==
  LET new == Updated(m)
      count == r.count + txs.samples
  IN [stamps |-> <<r.time>>, launch |-> r.launch, master |-> new,
      ref |-> IF new.time = 0 THEN [r EXCEPT !.count = 0, !.time = 0]
              ELSE [r EXCEPT !.count = count, !.time = TimeOfEvent(new, r, count),
                             !.launch = TimeOfEvent(new, r, count)]]

\* a clock reference stream computes the stamps of this packet; without a master it sends the
\* packet with the stamps its buffer holds from before
ClockReferencePacket(r, m) ==
  LET new == Updated(m)
      stamps == [i \in 1 .. txs.samples |-> TimeOfEvent(new, r, r.count + i - 1)]
  IN IF new.time = 0
     THEN [stamps |-> <<>>, launch |-> r.launch, master |-> new, ref |-> [r EXCEPT !.count = 0, !.time = 0]]
     ELSE [stamps |-> stamps, launch |-> stamps[1], master |-> new,
           ref |-> [r EXCEPT !.count = @ + txs.samples, !.time = stamps[txs.samples], !.launch = stamps[1]]]

\* the sequencer is done with the last packet
Due == ttLaunch <= window + Width

WriteEnters ==
  /\ txs.ready /\ txs.active /\ Due /\ ttCall = "idle"
  /\ ttCall' = "wait"
  /\ UNCHANGED <<txs, ref, master, clk, window, ttLaunch, ttLock, judged>>

\* there is no reference clock: a dummy packet makes the sequencer ask again. The clock reference
\* stream returns with mLock held; "clock" assumes that it is never asked without a clock
WriteDummy ==
  /\ ttCall = "wait" /\ ~ttLock
  /\ NeedsReset /\ ~ResetTime(window + Pitch).ok
  /\ "clock" \in TimingAssume => txs.kind = "audio"
  /\ ref' = ResetTime(window + Pitch).ref
  /\ master' = ResetTime(window + Pitch).master
  /\ ttLaunch' = ref'.launch + Retry
  /\ ttLock' = (txs.kind = "crf")
  /\ ttCall' = "idle"
  /\ UNCHANGED <<txs, clk, window, judged>>

\* what is remembered of the stamps: each lies on the master's grid, follows the one before
\* without gap or overlap, and a restart that kept lastRef does not go back behind it
Judge(p, r) ==
  IF p.stamps = <<>> THEN NewStamps
  ELSE [next |-> IF p.ref.time = 0 THEN 0 ELSE p.stamps[Len(p.stamps)] + txs.interval *
                   (IF txs.kind = "audio" THEN txs.samples ELSE 1),
        floor |-> 0,
        onGrid |-> \A i \in DOMAIN p.stamps : p.ref.time # 0 => (p.stamps[i] - clk.zero) % txs.interval = 0,
        inOrder |-> /\ judged.next # 0 => p.stamps[1] = judged.next
                    /\ p.stamps[1] >= judged.floor
                    /\ \A i \in 2 .. Len(p.stamps) : p.stamps[i] = p.stamps[i - 1] + txs.interval]

Reset == IF NeedsReset THEN ResetTime(window + Pitch) ELSE [ref |-> ref, master |-> master, ok |-> TRUE]
Prepared == IF txs.kind = "audio" THEN AudioPacket(Reset.ref, Reset.master)
            ELSE ClockReferencePacket(Reset.ref, Reset.master)

WriteToAvbPacket ==
  /\ ttCall = "wait" /\ ~ttLock
  /\ Reset.ok
  /\ LET p == Prepared
         late == p.launch - window < -ResetAfter
     IN IF late
        THEN master' = p.master /\ Restarted /\ ttLaunch' = 0
        ELSE /\ master' = p.master /\ ref' = p.ref
             /\ ttLaunch' = p.launch
             /\ judged' = Judge(p, Reset.ref)
  /\ ttCall' = "idle" /\ clk' = [clk EXCEPT !.seen = TRUE]
  /\ UNCHANGED <<txs, window, ttLock>>

\* too many dummy samples: the launch time is invalid, so that the sequencer restarts the stream,
\* which keeps the time it has reached
WriteGivesUp ==
  /\ ttCall = "wait" /\ ~ttLock /\ txs.kind = "audio"
  /\ Reset.ok
  /\ master' = [Prepared.master EXCEPT !.lastRef = Reset.ref.time]
  /\ Restarted /\ ttLaunch' = 0
  /\ ttCall' = "idle" /\ clk' = [clk EXCEPT !.seen = TRUE]
  /\ UNCHANGED <<txs, window, ttLock>>

\* the next window, or a later one when the sequencer is late
NextWindow(n) ==
  /\ window' = window + n * Pitch /\ window' <= TimingEnd
  /\ n = 1 => ~Due \/ ~txs.ready \/ ~txs.active
  /\ ttCall = "idle"
  /\ UNCHANGED <<txs, ref, master, clk, ttLaunch, ttCall, ttLock, judged>>

----------------------------------------------------------------------------
TimingInit ==
  /\ txs = [kind |-> "none", ready |-> FALSE, active |-> FALSE, samples |-> 0, interval |-> 1, minUpdate |-> 0]
  /\ ref = NoReference /\ master = NoMaster /\ clk = [count |-> 0, time |-> 0, zero |-> 0, seen |-> TRUE, starts |-> 0]
  /\ window = 0 /\ ttLaunch = 0 /\ ttCall = "idle" /\ ttLock = FALSE
  /\ judged = NewStamps

Writing == WriteDummy \/ WriteToAvbPacket \/ WriteGivesUp

TimingNext ==
  \/ \E kind \in {"audio", "crf"}, p \in Parameters : InitTransmit(kind, p)
  \/ ClockStarts \/ (\E n \in 1 .. MaxEvents : ClockAdvances(n))
  \/ SetActive \/ WriteEnters \/ Writing
  \/ \E n \in 1 .. 2 : NextWindow(n)

TimingSpec == TimingInit /\ [][TimingNext]_ttVars /\ WF_ttVars(Writing)

----------------------------------------------------------------------------
(* Properties                                                              *)

TimingTypeOK ==
  /\ txs.kind \in {"none", "audio", "crf"} /\ txs.ready \in BOOLEAN /\ txs.active \in BOOLEAN
  /\ ttCall \in {"idle", "wait"} /\ ttLock \in BOOLEAN /\ window \in 0 .. TimingEnd
  /\ ttLaunch \in Nat /\ ref.time \in Nat

\* The stamps of a stream lie on the events of its master clock, each packet continues where the
\* one before ended, and a stream that gives up over dummy samples does not send stamps behind the
\* time it had reached: whatever the order of clock updates, windows, restarts of the stream and of
\* the clock, outages of the clock and activations
StampsOnGrid == TimingTypeOK /\ judged.onGrid /\ judged.inOrder

\* writeToAvbPacket() returns: a stream that has no reference clock yet sends a dummy packet, which
\* makes the sequencer ask for another one, until there is a clock
WriterReturns == (ttCall = "wait") ~> (ttCall = "idle")
=============================================================================
