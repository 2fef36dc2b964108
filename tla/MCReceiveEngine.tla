-------------------------- MODULE MCReceiveEngine --------------------------
(* Model values for checking ReceiveEngine, PtpClock and TransmitTiming with TLC. The three share no
   state: a behaviour is one of the receive engine, one of the clock that its streams are stamped
   with, or one of a transmit stream's own time stamps. *)
EXTENDS ReceiveEngine, PtpClock, TransmitTiming, TLC

CONSTANTS s1, s2

VARIABLE part

TwoStreams == {s1, s2}
Symmetry == Permutations(TwoStreams)

\* steps of the PTP clock and distances of the presentation times
MCSteps == {-5, 1, 5}
MCTransit == {0, 2}

MCInit == part \in {"engine", "clock", "transmit"} /\ Init /\ PtpInit /\ TimingInit

MCNext ==
  \/ part = "engine" /\ Next /\ UNCHANGED <<ptpVars, ttVars, part>>
  \/ part = "clock" /\ PtpNext /\ UNCHANGED <<vars, ttVars, part>>
  \/ part = "transmit" /\ TimingNext /\ UNCHANGED <<vars, ptpVars, part>>

MCSpec == MCInit /\ [][MCNext]_<<vars, ptpVars, ttVars, part>>
============================================================================
