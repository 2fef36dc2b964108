------------------------------ MODULE MCDaemon ------------------------------
(* Command lines and client calls for checking Daemon with TLC. *)
EXTENDS Daemon, ReferenceProfiles

O(o, a) == [opt |-> o, arg |-> a, fits |-> TRUE, key |-> ""]
TooBig(o) == [opt |-> o, arg |-> 99, fits |-> FALSE, key |-> ""]
K(k, a) == [opt |-> "k", arg |-> a, fits |-> TRUE, key |-> k]
Std(p) == <<O("t", "GrMrb"), O("p", p)>>
Good(m, s) == [main |-> m, setup |-> s, good |-> TRUE]
Bad(m, s) == [main |-> m, setup |-> s, good |-> FALSE]

\* every profile that fits together
Plain == {Good({}, Std(p)) : p \in DOMAIN ReferenceProfiles \ {"MRB_Master_AV"}}

\* edits of rows, of both directions and of one row more than once, and edits before the profile;
\* keys before, after and between; clock recovery; a second profile
Edited ==
  {Good({}, Std("MRB_Master_Audio") \o
     <<O("x", 1), O("c", 4), O("i", 7), O("i", 9), TooBig("i"), O("X", 0), O("m", 3), TooBig("m"), O("l", 2)>>),
   Good({}, <<O("x", 1), O("c", 3), K("idlewait", 1), O("p", "MRB_Master_Audio"), O("c", 4), O("t", "GrMrb"), O("n", "eth2")>>),
   Good({}, <<K("hwcaptureNominal", 1), K("idlewait", 1), O("t", "GrMrb"), O("X", 0), O("i", 6), O("s", "MRB_Slave_AV"), K("idlewait", 2)>>),
   Good({"noipc"}, Std("MRB_Slave_Audio") \o <<O("e", "clkdrv"), O("hwcapture", 0), O("X", 2), O("o", 0)>>),
   Good({}, Std("MRB_Slave_Crs") \o <<O("e", "clkdrv"), O("p", "UnitTests"), K("idlewait", 1), K("idlewait", 2)>>),
   Good({}, <<O("s", "MRB_Slave_AV"), O("t", "NGIO"), O("a", 0), O("t", "CvH")>>),
   Good({"nosetup"}, Std("MRB_Master_Crs"))}

\* lines that passArguments(), setup() or main() refuse
Refused ==
  {Bad({}, <<O("t", "GrMrb")>>), Bad({}, <<O("t", "None")>>), Bad({}, <<O("p", "None")>>),
   Bad({}, Std("MRB_Slave_Audio") \o <<O("x", 4), O("c", 2)>>),
   Bad({}, Std("MRB_Slave_Audio") \o <<O("X", 1), TooBig("c")>>),
   Bad({}, <<O("x", 2), O("c", 2)>> \o Std("MRB_Slave_Audio")),
   Bad({}, Std("MRB_Master_Crs") \o <<O("l", 0)>>),
   Bad({}, Std("MRB_Slave_Audio") \o <<O("X", 0), O("i", 6)>>),
   Bad({}, Std("UnitTests") \o <<TooBig("k")>>), Bad({}, <<O("h", 0)>>),
   Bad({"?"}, <<>>), Bad({"help"}, Std("UnitTests")), Bad({"daemon"}, Std("UnitTests"))}

AllLines == Plain \cup Edited \cup Refused

\* one that creates a stream, and one that the client refuses
AllInvocations ==
  {[cmd |-> "CreateReceiveAudioStream", opts |-> {"n", "m"}, words |-> 0],
   [cmd |-> "ConnectStreams", opts |-> {"n", "channels"}, words |-> 0]}
=============================================================================
