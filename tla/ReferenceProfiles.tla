------------------------- MODULE ReferenceProfiles -------------------------
(***************************************************************************)
(* The tables of the reference configuration plug-in: the profiles and     *)
(* targets that -p and -t select. Of a stream id the last four hex digits  *)
(* are kept, written in decimal digits; an audio row's destination MAC     *)
(* ends in its id, that of a video or clock reference row is left out.     *)
(***************************************************************************)
EXTENDS Integers, Sequences

RefClock == 4711  \* stands for cRefClockId

Row == [id |-> 0, local |-> 0, clock |-> 0, dir |-> "", channels |-> 0, dmac |-> 0, slave |-> 0]

\* rows of the table types; stereo streams come before those with six channels
Audio(ids, clock, connected) ==
  [i \in DOMAIN ids |-> [Row EXCEPT !.id = ids[i], !.dmac = ids[i], !.clock = clock,
                                    !.channels = IF i > 2 THEN 6 ELSE 2,
                                    !.local = IF connected THEN ids[i] ELSE 0]]
Video(ids, locals) == [i \in DOMAIN ids |-> [Row EXCEPT !.id = ids[i], !.local = locals[i]]]
ClockRef(clock) == <<[Row EXCEPT !.id = 91, !.clock = clock]>>
Local(dir, ids, clock) == [i \in DOMAIN ids |-> [Row EXCEPT !.id = ids[i], !.dir = dir, !.clock = clock]]
Tone(id) == [id |-> id, local |-> 0, clock |-> 0, dir |-> "tx", channels |-> 2, dmac |-> 0, slave |-> 0, float |-> TRUE]

Upward(a, b) == [i \in 1 .. b - a + 1 |-> a + i - 1]

----------------------------------------------------------------------------
(* the registry entries that the profiles and targets bring                *)

RegStandard ==
  [presentationOffsetLow |-> 1000000, vlanidLow |-> 2, vlanprioLow |-> 3, intervalHigh |-> 125000,
   intervalLow |-> 1333000, alsaRingbuffer |-> 512]
RegClassCVideoBandwidth ==
  [rxSrClass |-> "low", intervalLow |-> 1333000, intervalHigh |-> 1333000, maxBandwidthLow |-> 500000,
   idlewait |-> 50000000, alsaRingbuffer |-> 768, presentationOffsetLow |-> 2000000]

Target(ifname) == [ifname |-> ifname]
ReferenceTargets ==
  [NGIO |-> Target("eth1"), CvH |-> Target("eth0"), Fedora |-> Target("p1p1"),
   GrMrb |-> [ifname |-> "eth0", hwcaptureNominal |-> 0]]

----------------------------------------------------------------------------
(* the profiles                                                            *)

NoTables ==
  [tones |-> <<>>, crx |-> <<>>, ctx |-> <<>>, rx |-> <<>>, tx |-> <<>>,
   vrx |-> <<>>, vtx |-> <<>>, alsa |-> <<>>, video |-> <<>>, reg |-> RegClassCVideoBandwidth]

\* four test tones; the network streams are not connected
UnitTests ==
  [NoTables EXCEPT !.rx = <<[Row EXCEPT !.channels = 8]>>, !.tx = Audio(<<1, 2, 3>>, 0, FALSE),
                   !.tones = <<Tone(8000), Tone(8001), Tone(8002), Tone(8003)>>, !.reg = RegStandard]

\* four video streams to the slave, six from it, and the two programs of MPEG-TS
VideoLocals == Local("tx", Upward(501, 504), 0) \o Local("rx", Upward(505, 510), 0)
MpegTsLocals == Local("tx", <<501, 502>>, 0) \o Local("rx", <<507, 508>>, 0)
Video_POC_Master ==
  [NoTables EXCEPT !.vrx = Video(<<2640, 2641, 2646, 2647, 2648, 2649>>, Upward(505, 510)),
                   !.vtx = Video(Upward(2642, 2645), Upward(501, 504)), !.video = VideoLocals]
Video_POC_Slave ==
  [NoTables EXCEPT !.vrx = Video(Upward(2640, 2645), Upward(505, 510)),
                   !.vtx = Video(Upward(2646, 2649), Upward(501, 504)), !.video = VideoLocals]
Video_POC_MpegTs_Master ==
  [NoTables EXCEPT !.vrx = Video(<<2646, 2647>>, <<507, 508>>),
                   !.vtx = Video(<<2642, 2643>>, <<501, 502>>), !.video = MpegTsLocals]
Video_POC_MpegTs_Slave ==
  [NoTables EXCEPT !.vrx = Video(<<2642, 2643>>, <<507, 508>>),
                   !.vtx = Video(<<2646, 2647>>, <<501, 502>>), !.video = MpegTsLocals]

\* the master sends streams 1 to 4 and a clock reference stream, and receives 5 to 8; its
\* variants 1 to 3 differ in the ALSA devices only
MrbMaster(clock) ==
  [NoTables EXCEPT !.rx = Audio(Upward(5, 8), 0, TRUE), !.tx = Audio(Upward(1, 4), clock, TRUE), !.ctx = ClockRef(clock),
                   !.alsa = Local("tx", Upward(1, 4), clock) \o Local("rx", Upward(5, 8), clock)]

\* the slave runs on the clock that it recovers from the reference stream
MrbSlave ==
  [NoTables EXCEPT !.rx = Audio(Upward(1, 4), 0, TRUE), !.tx = Audio(Upward(5, 8), RefClock, TRUE),
                   !.crx = ClockRef(RefClock),
                   !.alsa = Local("tx", Upward(5, 8), RefClock) \o Local("rx", Upward(1, 4), RefClock)]

\* the local video streams of the master have other ids than those its tables connect to
MRB_Master_AV ==
  [MrbMaster(0) EXCEPT !.vrx = Video(<<23, 24>>, <<23, 24>>), !.vtx = Video(<<21, 22>>, <<21, 22>>),
                       !.video = Local("tx", <<501, 502>>, 0) \o Local("rx", <<503, 504>>, 0)]
MRB_Slave_AV ==
  [MrbSlave EXCEPT !.vrx = Video(<<21, 22>>, <<21, 22>>), !.vtx = Video(<<23, 24>>, <<23, 24>>),
                   !.video = Local("tx", <<23, 24>>, 0) \o Local("rx", <<21, 22>>, 0)]

ReferenceProfiles ==
  [UnitTests |-> UnitTests,
   Video_POC_Master |-> Video_POC_Master, Video_POC_Slave |-> Video_POC_Slave,
   Video_POC_MpegTs_Master |-> Video_POC_MpegTs_Master, Video_POC_MpegTs_Slave |-> Video_POC_MpegTs_Slave,
   MRB_Master_Audio |-> MrbMaster(0), MRB_Master_Audio_Raw |-> MrbMaster(33),
   MRB_Slave_Audio |-> MrbSlave,
   MRB_Master_AV |-> MRB_Master_AV, MRB_Slave_AV |-> MRB_Slave_AV,
   MRB_Master_Crs |-> [NoTables EXCEPT !.ctx = ClockRef(0)], MRB_Slave_Crs |-> [NoTables EXCEPT !.crx = ClockRef(RefClock)]]
=============================================================================
