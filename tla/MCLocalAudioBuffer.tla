------------------------ MODULE MCLocalAudioBuffer -------------------------
(* Model values for checking LocalAudioBuffer and AlsaStream with TLC. A behaviour is one of a single
   ring with its contents, or one of a local stream with all its channels. *)
EXTENDS LocalAudioBuffer, AlsaStream, TLC

VARIABLE part

\* all blocks of one sample, of two, and of as many as the ring has cells
AllBlocks == UNION {[1..n -> Sample] : n \in {1, 2, TotalSize}}

\* a receive stream with several channels: blocks from the network, interleaved shared memory
ReceiveLayouts == {[write |-> {"block"}, read |-> {"strided"}]}

MCInit ==
  /\ part \in {"buffer", "stream"} /\ Init /\ AlsaInit
  /\ part = "buffer" => dir = "rx"
  /\ part = "stream" =>
       /\ layout = CHOOSE first \in Layouts : TRUE
       /\ mBuffer = [c \in Cells |-> Silence] /\ mReadThreshold = 0

MCNext ==
  \/ part = "buffer" /\ Next /\ UNCHANGED <<alsaVars, part>>
  \/ part = "stream" /\ AlsaNext /\ UNCHANGED <<vars, part>>

MCSpec == MCInit /\ [][MCNext]_<<vars, alsaVars, part>>
============================================================================
