----------------------------- MODULE AudioFifo -----------------------------
(***************************************************************************)
(* What the local audio buffer of a channel promises to the network thread *)
(* and the audio thread: a bounded first-in first-out queue of samples.    *)
(* Writing appends as much of a block as fits, reading takes the oldest    *)
(* samples, a reset leaves a given number of samples, the newest ones or   *)
(* silence in front of all there are.                                      *)
(***************************************************************************)
EXTENDS Naturals, Sequences

CONSTANTS
  Silence,   \* the sample a reset fills up with
  Capacity,  \* how many samples the queue holds
  Blocks,    \* the blocks of samples offered by writers
  Requests,  \* the numbers of samples asked for by readers
  Levels     \* the fill levels a reset asks for

VARIABLES
  queue,     \* the samples not yet read, oldest first
  delivered  \* what the last read returned

vars == <<queue, delivered>>

Smaller(a, b) == IF a < b THEN a ELSE b

Init == queue = <<>> /\ delivered = <<>>

Put(data) ==
  /\ queue' = queue \o SubSeq(data, 1, Smaller(Len(data), Capacity - Len(queue)))
  /\ UNCHANGED delivered

Get(n) ==
  LET k == Smaller(n, Len(queue)) IN
    /\ delivered' = SubSeq(queue, 1, k)
    /\ queue' = SubSeq(queue, k + 1, Len(queue))

SetLevel(level) ==
  /\ queue' = IF Len(queue) < level
                THEN [i \in 1..(level - Len(queue)) |-> Silence] \o queue
                ELSE SubSeq(queue, Len(queue) - level + 1, Len(queue))
  /\ UNCHANGED delivered

Next ==
  \/ \E n \in Requests : Get(n)
  \/ \E data \in Blocks : Put(data)
  \/ \E level \in Levels : SetLevel(level)

Spec == Init /\ [][Next]_vars
============================================================================
