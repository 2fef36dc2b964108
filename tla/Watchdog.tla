------------------------------ MODULE Watchdog ------------------------------
(***************************************************************************)
(* The supervision of threads: an IasSystemdWatchdogManager keeps a list   *)
(* of IasWatchdogInterfaces, one per supervised thread, and the thread of  *)
(* IasWatchdogThread tells systemd that the process is well as long as all *)
(* of them are. The module holds the supervision's state, the effects of   *)
(* the calls supervised threads make and the steps of time and of the      *)
(* watchdog thread; AlsaEngine composes it with the threads it supervises. *)
(*                                                                         *)
(* A due time is kept as the time left. The watchdog thread itself is      *)
(* woken in time.                                                          *)
(***************************************************************************)
EXTENDS Integers

CONSTANTS
  Clients,   \* the threads that may be supervised
  Interval,  \* mThreadInterval: time between two looks of the watchdog thread
  Limit      \* WATCHDOG_USEC: systemd's patience and the time a thread has for its next reset()

ASSUME WatchdogConstants == Interval \in Nat \ {0} /\ Limit \in Nat \ {0}

VARIABLES
  enabled,    \* the supervision is configured and WATCHDOG_USEC is set
  interfaces, \* mWatchdogInterfaces: the threads that have a watchdog
  registered, \* those with mProcessId # 0
  due,        \* due[c]: time left until mDueResetTime of c, Unarmed if that is 0
  sleep,      \* time until the watchdog thread looks again
  silence,    \* time since systemd was last told
  killed      \* systemd has ended the process

wdVars == <<enabled, interfaces, registered, due, sleep, silence, killed>>

Unarmed == -1

\* init() of the manager notifies at once, the thread sleeps first
InitWatchdog ==
  /\ enabled \in BOOLEAN
  /\ interfaces = {} /\ registered = {} /\ due = [c \in Clients |-> Unarmed]
  /\ sleep = Interval /\ silence = 0 /\ killed = FALSE

----------------------------------------------------------------------------
(* Calls of the supervised threads and of their owners                     *)

CreateWatchdog(c) ==
  /\ interfaces' = IF enabled THEN interfaces \union {c} ELSE interfaces
  /\ UNCHANGED <<enabled, registered, due, sleep, silence, killed>>

DestroyWatchdog(c) ==
  /\ interfaces' = interfaces \ {c}
  /\ registered' = registered \ {c}
  /\ due' = [due EXCEPT ![c] = Unarmed]
  /\ UNCHANGED <<enabled, sleep, silence, killed>>

\* reset(): a watchdog that has timed out stays timed out
DueAfterReset(c) == IF due[c] = 0 THEN 0 ELSE Limit

\* the thread registers its watchdog if it is not registered, and resets it
ResetWatchdog(c) ==
  /\ registered' = IF c \in interfaces THEN registered \union {c} ELSE registered
  /\ due' = IF c \in interfaces THEN [due EXCEPT ![c] = DueAfterReset(c)] ELSE due
  /\ UNCHANGED <<enabled, interfaces, sleep, silence, killed>>

UnregisterWatchdog(c) ==
  /\ registered' = registered \ {c}
  /\ due' = IF c \in registered THEN [due EXCEPT ![c] = Unarmed] ELSE due
  /\ UNCHANGED <<enabled, interfaces, sleep, silence, killed>>

----------------------------------------------------------------------------
(* The watchdog thread, time and systemd                                   *)

\* mutant: a watchdog whose time is up is not noticed
AllWatchdogInterfacesArmed == \A c \in interfaces : due[c] # Unarmed

AllWatchdogInterfacesValid == \A c \in interfaces : due[c] # Unarmed /\ due[c] > 0

NotifyTimedOut ==
  /\ enabled /\ sleep = 0
  /\ silence' = IF AllWatchdogInterfacesValid THEN 0 ELSE silence
  /\ sleep' = Interval
  /\ UNCHANGED <<enabled, interfaces, registered, due, killed>>

Tick ==
  /\ enabled /\ sleep > 0
  /\ sleep' = sleep - 1
  /\ due' = [c \in Clients |-> IF due[c] > 0 THEN due[c] - 1 ELSE due[c]]
  /\ silence' = silence + 1
  /\ killed' = (silence' = Limit)
  /\ UNCHANGED <<enabled, interfaces, registered>>

WatchdogTypeOK ==
  /\ enabled \in BOOLEAN /\ killed \in BOOLEAN
  /\ registered \subseteq interfaces /\ interfaces \subseteq Clients
  /\ due \in [Clients -> {Unarmed} \union 0 .. Limit]
  /\ sleep \in 0 .. Interval /\ silence \in 0 .. Limit
============================================================================
