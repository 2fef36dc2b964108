----------------------------- MODULE HwCapture -----------------------------
(***************************************************************************)
(* IasAvbHwCaptureClockDomain: a thread polls the network device for the   *)
(* stamp of an edge of an external clock and counts the events of that     *)
(* clock. The device stamps rising and falling edges alike, holds the      *)
(* first one until its stamp is read and forgets those in between; which   *)
(* edge it was is taken from the level of the pin, read a moment later,    *)
(* when the pin may have changed again.                                    *)
(*                                                                         *)
(* Time is counted in edges, which come at half the period of the clock:   *)
(* edge 1, 3, ... is a rising one, and edge e happens at time e.           *)
(***************************************************************************)
EXTENDS Integers

CONSTANTS
  EventRate,     \* events per second, 48000 in the code
  Nominal,       \* pulses per second
  MaxEdges       \* bound on the edges of a behaviour

ASSUME CaptureConstants ==
  /\ EventRate \in Nat \ {0} /\ Nominal \in Nat \ {0} /\ MaxEdges \in Nat
  /\ EventRate % Nominal = 0  \* otherwise every count is rounded down

VARIABLES
  edges,      \* edges of the clock so far
  latched,    \* the edge whose stamp the device holds, 0: none
  capturer,   \* where mHwCaptureThread is; "gone": there is none
  capEnd,     \* mEndThread
  stampNow,   \* auxstmpNow
  last,       \* auxstmpLast, 0: no rising edge has been counted
  events,     \* the event count of the domain
  origin,     \* the stamp the event count was set to 0 at
  mistaken    \* falling edges that have been counted as rising ones since

counts == <<last, events, origin, mistaken>>
capVars == <<edges, latched, capturer, capEnd, stampNow, counts>>

Rising(e) == e % 2 = 1

\* the clock goes on whatever the thread does, and a device once set up goes on stamping it
Edge ==
  /\ edges < MaxEdges /\ edges' = edges + 1
  /\ latched' = IF latched = 0 THEN edges' ELSE latched
  /\ UNCHANGED <<capturer, capEnd, stampNow, counts>>

----------------------------------------------------------------------------
(* The owner of the domain                                                 *)

\* init() creates the thread and start() runs it; the set-up of the registers may or may not drop
\* the stamp of an edge from before
StartCapture ==
  /\ capturer = "gone" /\ capturer' = "poll" /\ capEnd' = FALSE
  /\ latched' \in {0, latched} /\ stampNow' = 0 /\ last' = 0
  /\ UNCHANGED <<edges, events, origin, mistaken>>

\* stop() and cleanup() set the end flag and join
StopCapture ==
  /\ capturer # "gone" /\ ~capEnd /\ capEnd' = TRUE
  /\ UNCHANGED <<edges, latched, capturer, stampNow, counts>>

----------------------------------------------------------------------------
(* run()                                                                   *)

CaptureEnds ==
  /\ capturer = "poll" /\ capEnd /\ capturer' = "gone"
  /\ UNCHANGED <<edges, latched, capEnd, stampNow, counts>>

\* reading the high word of the stamp lets the device take the next one
ReadStamp ==
  /\ capturer = "poll" /\ ~capEnd /\ latched # 0
  /\ stampNow' = latched /\ latched' = 0 /\ capturer' = "level"
  /\ UNCHANGED <<edges, capEnd, counts>>

\* mutant: the periods that have been missed are not made up for
OnePulse == {1}

\* round(nominal frequency * time since the last rising edge): an edge halfway between two pulses
\* is rounded either way. The first stampNow is compared with 0, a time long ago
Pulses == {(stampNow - last) \div 2, (stampNow - last + 1) \div 2}

PinIsHigh == Rising(edges)

\* the first edge that counts sets the event count to 0
FirstPulse ==
  /\ last = 0 /\ last' = stampNow /\ origin' = stampNow /\ events' = 0
  /\ mistaken' = IF Rising(stampNow) THEN 0 ELSE 1

NextPulse(n) ==
  /\ last # 0 /\ n >= 1 /\ last' = stampNow
  /\ events' = events + (n * EventRate) \div Nominal
  /\ mistaken' = mistaken + IF Rising(stampNow) THEN 0 ELSE 1
  /\ UNCHANGED origin

\* only a rising edge counts, and only the level tells what the stamp is of; an edge that
\* follows too soon is skipped as a glitch
ReadLevel ==
  /\ capturer = "level" /\ capturer' = "poll"
  /\ \/ PinIsHigh /\ FirstPulse
     \/ PinIsHigh /\ \E n \in Pulses : NextPulse(n)
     \/ (~PinIsHigh \/ (last # 0 /\ 0 \in Pulses)) /\ UNCHANGED counts
  /\ UNCHANGED <<edges, latched, capEnd, stampNow>>

CapInit ==
  /\ edges = 0 /\ latched = 0 /\ capturer = "gone" /\ capEnd = FALSE
  /\ stampNow = 0 /\ last = 0 /\ events = 0 /\ origin = 0 /\ mistaken = 0

CapNext == Edge \/ StartCapture \/ StopCapture \/ CaptureEnds \/ ReadStamp \/ ReadLevel

CapSpec == CapInit /\ [][CapNext]_capVars

----------------------------------------------------------------------------
Distance(x, y) == IF x < y THEN y - x ELSE x - y

\* The event count of the domain is the time since the edge it was set to 0 at, however many edges
\* the device forgot between two polls: the pulses missed are made up for, and none is counted
\* twice. A level that has changed since the edge was stamped costs one period at most, each time
\* it is taken for a rising one, and the error does not grow while no other is. This is what a
\* clock controller and the time stamps of the streams take the count for. (run)
CaptureExact ==
  /\ edges \in 0 .. MaxEdges /\ latched \in 0 .. MaxEdges
  /\ last # 0 =>
       Distance(2 * Nominal * events, EventRate * (last - origin)) <= 2 * EventRate * mistaken
  /\ last <= edges
============================================================================
