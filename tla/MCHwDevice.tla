----------------------------- MODULE MCHwDevice -----------------------------
(* Instances of HwDevice and ReceiveWorker for TLC. The two share no state: a behaviour is one of an
   ALSA device and its thread, or one of the network device and the thread that receives from it. *)
EXTENDS HwDevice, ReceiveWorker, TLC

VARIABLE part

MCInit ==
  /\ part \in {"alsa", "network"} /\ HwInit /\ RxInit
  /\ rxDog = "off" /\ recover  \* the watchdog and the recovery of the receiver are configured
  /\ part = "alsa" => rxen /\ link
  /\ part = "network" => type = "sink"

MCNext ==
  \/ part = "alsa" /\ HwNext /\ UNCHANGED <<rxVars, part>>
  \/ part = "network" /\ RxNext /\ UNCHANGED <<hwVars, part>>

\* the thread of the ALSA device is scheduled, and the call that joins it returns once it has ended
HwFairness == WF_hwVars(part = "alsa" /\ Thread) /\ WF_hwVars(part = "alsa" /\ Delete)

\* the threads are scheduled; a cycle takes far less than the idle time, so that cycles that only
\* look for timeouts do not follow each other for ever; the device accepts a buffer in the end
ReceiverFairness ==
  /\ WF_rxVars(part = "network" /\ RxReturns) /\ WF_rxVars(part = "network" /\ RxWorker)
  /\ SF_rxVars(part = "network" /\ ReceiveCycle)
  /\ SF_rxVars(part = "network" /\ RefreshBuffer /\ rxPacket' = NoPacket)

MCSpec == MCInit /\ [][MCNext]_<<hwVars, rxVars, part>> /\ HwFairness /\ ReceiverFairness
============================================================================
