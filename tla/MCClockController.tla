------------------------- MODULE MCClockController -------------------------
(* Instances of ClockController and HwCapture for TLC. They share no state here: a behaviour is one
   of a controller between two domains, or one of the thread that captures a hardware clock. *)
EXTENDS ClockController, HwCapture

VARIABLE part

MCInit == part \in {"controller", "capture"} /\ Init /\ CapInit

MCNext ==
  \/ part = "controller" /\ Next /\ UNCHANGED <<capVars, part>>
  \/ part = "capture" /\ CapNext /\ UNCHANGED <<vars, part>>

\* the threads are scheduled and the capture thread goes on updating the slave; nothing
\* obliges the owner to create or destroy a controller or the master to be updated
MCFairness ==
  /\ WF_vars(part = "controller" /\ Owner) /\ WF_vars(part = "controller" /\ Barrier)
  /\ WF_vars(part = "controller" /\ Worker)
  /\ \A d \in Domains : WF_vars(part = "controller" /\ Notifying(d))
  /\ WF_vars(part = "controller" /\ UpdateRateRatio("slave"))

MCSpec == MCInit /\ [][MCNext]_<<vars, capVars, part>> /\ MCFairness
=============================================================================
