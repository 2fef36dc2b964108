--------------------------- MODULE Configuration ---------------------------
(***************************************************************************)
(* The configuration plug-in of the stream handler: passArguments() reads  *)
(* the words after "setup" on the command line, selects a target and a     *)
(* profile, edits the tables of the profile and writes the registry;       *)
(* setup() then creates every stream of the tables with one call of the    *)
(* stream handler's API per row, and connects the network streams to their *)
(* local streams.                                                          *)
(*                                                                         *)
(* A table is a sequence of rows; the columns kept are those that select,  *)
(* connect or clock a stream. Stream ids are small numbers that stand for  *)
(* the 64-bit ids. The API is that of module StreamHandler, reduced to     *)
(* what decides whether a call succeeds.                                   *)
(***************************************************************************)
EXTENDS Integers, Sequences, FiniteSets, FiniteSetsExt, TLC

CONSTANTS
  Profiles,     \* profile name -> its tables
  Targets,      \* target name -> its registry entries
  CommandLines  \* the command lines the daemon may be called with

VARIABLES
  line,         \* the command line of this process
  phase,        \* "off", "parse", "tones", "create", "clock", "connect", "done" or "failed",
                \* and after init() "set up" or "given up"; "no handler" when there was none to set up
  pos,          \* the next option, or the next call of this phase
  cursor,       \* <<side, row>> that an edit option changes
  tables,       \* the tables that mAvbStreamsRx and the other members point to
  selected,     \* the subset of {"profile", "target"} that is set
  flags,        \* subset of {"clockdriver", "hwcapture"}
  registry,     \* key -> value
  handler,      \* what the stream handler has: streams, locals, clocks, links, controllers
  ok,           \* result is eIasAvbResultOk
  refused       \* some call was refused for want of a resource

configVars == <<line, phase, pos, cursor, tables, selected, flags, registry, handler, ok, refused>>

PtpClock == 0
RawClock == 33
HwCaptureClock == 16
RxClockStart == 1000 \* cRxClockDomainIdStart
MaxNumChannels == 738 \* cIasAvbMaxNumChannels
MaxUint16 == 65535

\* what a stream handler has after init(): the PTP and the raw clock domain
Empty == [streams |-> {}, locals |-> {}, clocks |-> {PtpClock, RawClock}, links |-> {}, controllers |-> {}]

----------------------------------------------------------------------------
(* passArguments()                                                         *)

\* DefaultSetupAvbRx and DefaultSetupAvbTx; their terminators count as rows
Terminator == [id |-> 0, local |-> 0, clock |-> PtpClock, dir |-> "", channels |-> 0, dmac |-> 0, slave |-> 0]
DefaultTables ==
  [tones |-> <<>>, crx |-> <<>>, ctx |-> <<>>,
   rx |-> <<[Terminator EXCEPT !.local = 2], Terminator>>, tx |-> <<[Terminator EXCEPT !.local = 1], Terminator>>,
   vrx |-> <<>>, vtx |-> <<>>, alsa |-> <<>>, video |-> <<>>]

Option == line.setup[pos]
TableNames == DOMAIN DefaultTables

\* the columns that the edit options change
Column == [c |-> "channels", o |-> "local", i |-> "id", m |-> "dmac"]

Accepted == phase' = phase /\ pos' = pos + 1
OptionError == phase' = "failed" /\ UNCHANGED <<pos, cursor, tables, selected, flags, registry>>

\* -p, and -s which falls through to it: only the first profile counts
HandleProfileOption(name) ==
  \/ "profile" \in selected /\ Accepted /\ UNCHANGED <<cursor, tables, selected, flags, registry>>
  \/ /\ "profile" \notin selected
     /\ name \in DOMAIN Profiles
     /\ tables' = [t \in TableNames |-> Profiles[name][t]]
     /\ registry' = Profiles[name].reg @@ registry
     /\ selected' = selected \cup {"profile"}
     /\ Accepted /\ UNCHANGED <<cursor, flags>>
  \/ "profile" \notin selected /\ name \notin DOMAIN Profiles /\ OptionError

\* -t: only the first target counts
HandleTargetOption(name) ==
  \/ "target" \in selected /\ Accepted /\ UNCHANGED <<cursor, tables, selected, flags, registry>>
  \/ /\ "target" \notin selected
     /\ name \in DOMAIN Targets
     /\ registry' = Targets[name] @@ registry
     /\ selected' = selected \cup {"target"}
     /\ Accepted /\ UNCHANGED <<cursor, tables, flags>>
  \/ "target" \notin selected /\ name \notin DOMAIN Targets /\ OptionError

\* -x and -X: the row that the edits after it change
SelectRow(side) ==
  /\ cursor' = <<side, Option.arg + 1>>
  /\ Accepted /\ UNCHANGED <<tables, selected, flags, registry>>

\* what is in the column after an option -c, -o, -i or -m: a hexadecimal value out of range is dropped
\* with a message, a number of channels that does not fit its 16 bits is stored as the largest that does
NewValue(o, was) == IF o.fits THEN o.arg ELSE IF o.opt = "c" THEN MaxUint16 ELSE was

\* the option is accepted whatever its value if the row is there
EditRow(col) ==
  LET side == cursor[1] row == cursor[2] IN
  \/ /\ row \in DOMAIN tables[side]
     /\ tables' = [tables EXCEPT ![side][row][col] = NewValue(Option, @)]
     /\ Accepted /\ UNCHANGED <<cursor, selected, flags, registry>>
  \/ row \notin DOMAIN tables[side] /\ OptionError

\* -l: the layout is not kept, the row of the ALSA table must be there
EditLayout ==
  \/ /\ cursor[2] \in DOMAIN tables.alsa
     /\ Accepted /\ UNCHANGED <<cursor, tables, selected, flags, registry>>
  \/ cursor[2] \notin DOMAIN tables.alsa /\ OptionError

\* -n: the network interface
SetInterface ==
  /\ registry' = ("ifname" :> Option.arg) @@ registry
  /\ Accepted /\ UNCHANGED <<cursor, tables, selected, flags>>

\* -k; "key=" without a value is an error
SetConfigValue(key) ==
  \/ /\ Option.fits
     /\ registry' = (key :> Option.arg) @@ registry
     /\ Accepted /\ UNCHANGED <<cursor, tables, selected, flags>>
  \/ ~Option.fits /\ OptionError

\* -e: the clock driver, and with it clock recovery
SetClockDriver ==
  /\ registry' = ("clockdriver" :> Option.arg) @@ registry
  /\ flags' = flags \cup {"clockdriver"}
  /\ Accepted /\ UNCHANGED <<cursor, tables, selected>>

\* --hwcapture, and -a and -q that only print
OtherOption ==
  \/ /\ Option.opt = "hwcapture"
     /\ flags' = flags \cup {"hwcapture"} /\ Accepted /\ UNCHANGED <<cursor, tables, selected, registry>>
  \/ /\ Option.opt \in {"a", "q"}
     /\ Accepted /\ UNCHANGED <<cursor, tables, selected, flags, registry>>
  \/ Option.opt \in {"h", "?"} /\ OptionError

ParseOption ==
  /\ phase = "parse" /\ pos \in DOMAIN line.setup
  /\ \/ Option.opt = "t" /\ HandleTargetOption(Option.arg)
     \/ Option.opt \in {"p", "s"} /\ HandleProfileOption(Option.arg)
     \/ Option.opt = "x" /\ SelectRow("rx")
     \/ Option.opt = "X" /\ SelectRow("tx")
     \/ Option.opt \in DOMAIN Column /\ EditRow(Column[Option.opt])
     \/ Option.opt = "l" /\ EditLayout
     \/ Option.opt = "n" /\ SetInterface
     \/ Option.opt = "k" /\ SetConfigValue(Option.key)
     \/ Option.opt = "e" /\ SetClockDriver
     \/ OtherOption
  /\ UNCHANGED <<line, handler, ok, refused>>

\* init() creates the hardware capture clock domain only if the registry gives it a frequency
HwCaptureDomain ==
  IF "hwcaptureNominal" \in DOMAIN registry /\ registry.hwcaptureNominal # 0 THEN {HwCaptureClock} ELSE {}

\* the end of the options; --nosetup keeps init() from calling setup()
EndOfOptions ==
  /\ phase = "parse" /\ pos \notin DOMAIN line.setup
  /\ pos' = 1
  /\ phase' = IF selected # {"profile", "target"} THEN "failed"
              ELSE IF "nosetup" \in line.main THEN "done" ELSE "tones"
  /\ handler' = [handler EXCEPT !.clocks = @ \cup HwCaptureDomain]
  /\ UNCHANGED <<line, cursor, tables, selected, flags, registry, ok, refused>>

----------------------------------------------------------------------------
(* The calls of the API that setup() makes                                 *)

\* a network stream: its id is free in its direction, its clock domain exists, and an audio stream
\* has not more channels than a packet can hold
NetworkAccepted(c) ==
  /\ \A s \in handler.streams : s.dir = c.dir => s.id # c.row.id
  /\ c.dir = "tx" => c.row.clock \in handler.clocks
  /\ (c.kind = "crs" /\ c.dir = "rx") => c.row.clock \notin handler.clocks
  /\ c.kind = "audio" => c.row.channels \in 1 .. MaxNumChannels

\* a local stream: its id is free (a test tone's among the audio streams), its clock domain
\* exists; a test tone with an id of its own has to be of format SafFloat
LocalAccepted(c) ==
  /\ \A l \in handler.locals : l.id = c.row.id => c.kind = "tone" /\ l.kind = "video"
  /\ c.kind = "alsa" => c.row.clock \in handler.clocks
  /\ c.kind = "tone" => c.row.float

\* connectStreams(): the two streams are of the same kind and direction, the local stream is free
ConnectAccepted(c) ==
  \E l \in handler.locals, s \in handler.streams :
    /\ l.id = c.row.local /\ s.id = c.row.id
    /\ s.dir = l.dir /\ s.kind = (IF l.kind = "video" THEN "video" ELSE "audio")
    /\ \A k \in handler.links : k.local = l.id => k.dir = s.dir /\ k.id = s.id

CallAccepted(c) ==
  \/ c.op = "network" /\ NetworkAccepted(c)
  \/ c.op = "local" /\ LocalAccepted(c)
  \/ c.op = "connect" /\ ConnectAccepted(c)

\* what the handler has after an accepted call; a received clock reference stream brings
\* a clock domain of its own
After(c) ==
  CASE c.op = "network" ->
         [handler EXCEPT !.streams = @ \cup {[kind |-> c.kind, dir |-> c.dir, id |-> c.row.id,
                                              channels |-> c.row.channels, dmac |-> c.row.dmac]},
                         !.clocks = IF c.kind = "crs" /\ c.dir = "rx" THEN @ \cup {c.row.clock} ELSE @]
    [] c.op = "local" ->
         [handler EXCEPT !.locals = @ \cup {[kind |-> c.kind, dir |-> c.dir, id |-> c.row.id]}]
    [] c.op = "connect" ->
         [handler EXCEPT !.links = {k \in @ : k.dir # c.dir \/ k.id # c.row.id} \cup
                                     {[dir |-> c.dir, id |-> c.row.id, local |-> c.row.local]}]

\* mutant: an error of a call is not looked at
CallUnchecked(c) ==
  \/ /\ CallAccepted(c)
     /\ handler' = After(c) /\ UNCHANGED <<ok, refused>>
  \/ refused' = TRUE /\ UNCHANGED <<handler, ok>>

\* a call succeeds, or fails on its arguments, or for want of a resource
Call(c) ==
  \/ /\ CallAccepted(c)
     /\ handler' = After(c) /\ UNCHANGED <<ok, refused>>
  \/ ~CallAccepted(c) /\ ok' = FALSE /\ UNCHANGED <<handler, refused>>
  \/ ok' = FALSE /\ refused' = TRUE /\ UNCHANGED handler

----------------------------------------------------------------------------
(* setup()                                                                 *)

Network(k, d, rows) == [i \in DOMAIN rows |-> [op |-> "network", kind |-> k, dir |-> d, row |-> rows[i]]]
LocalRows(k, rows) == [i \in DOMAIN rows |-> [op |-> "local", kind |-> k, dir |-> rows[i].dir, row |-> rows[i]]]

\* setupTestStreams()
ToneCalls == LocalRows("tone", tables.tones)

\* at most one received clock reference stream is supported: MultipleReferences
ClockReferenceCalls == Network("crs", "rx", tables.crx) \o Network("crs", "tx", tables.ctx)
MultipleReferences == Len(tables.crx) > 1

AudioCalls == Network("audio", "rx", tables.rx) \o Network("audio", "tx", tables.tx)
VideoCalls == Network("video", "rx", tables.vrx) \o Network("video", "tx", tables.vtx)
LocalCalls == LocalRows("alsa", tables.alsa) \o LocalRows("video", tables.video)

CreateCalls == ClockReferenceCalls \o AudioCalls \o VideoCalls \o LocalCalls

\* the rows that name a local stream, in the order of the four loops
ConnectCalls ==
  LET all == Network("audio", "rx", tables.rx) \o Network("audio", "tx", tables.tx)
               \o Network("video", "rx", tables.vrx) \o Network("video", "tx", tables.vtx)
      named == SelectSeq(all, LAMBDA c : c.row.local # 0)
  IN [i \in DOMAIN named |-> [named[i] EXCEPT !.op = "connect"]]

Calls == CASE phase = "tones" -> ToneCalls [] phase = "create" -> CreateCalls [] phase = "connect" -> ConnectCalls

\* what follows a loop: after a failed test tone nothing, after a failed create call still the
\* clock recovery, whose own result hides the error until the block ends
Following == [tones |-> IF ok THEN "create" ELSE "failed",
              create |-> "clock",
              connect |-> IF ok THEN "done" ELSE "failed"]

Unsupported == phase = "create" /\ MultipleReferences

MakeCall ==
  /\ phase \in {"tones", "create", "connect"}
  /\ ok /\ ~Unsupported /\ pos \in DOMAIN Calls
  /\ Call(Calls[pos])
  /\ pos' = pos + 1
  /\ UNCHANGED <<line, phase, cursor, tables, selected, flags, registry>>

EndOfLoop ==
  /\ phase \in {"tones", "create", "connect"}
  /\ ~ok \/ Unsupported \/ pos \notin DOMAIN Calls
  /\ phase' = Following[phase] /\ pos' = 1
  /\ ok' = (ok /\ ~Unsupported)
  /\ UNCHANGED <<line, cursor, tables, selected, flags, registry, handler, refused>>

\* the clock domain that recovery starts from: that of the received clock reference stream,
\* whether it could be created or not, or one derived from the first audio stream with a slave clock
SlaveRows == {i \in DOMAIN tables.rx : tables.rx[i].slave # 0}
Derivable == tables.crx = <<>> /\ SlaveRows # {}
                /\ \E s \in handler.streams : s.dir = "rx" /\ s.id = tables.rx[Min(SlaveRows)].id
Master == IF tables.crx # <<>> THEN tables.crx[1] ELSE tables.rx[Min(SlaveRows)]
MasterClock == IF tables.crx # <<>> THEN tables.crx[1].clock ELSE RxClockStart

\* clock recovery: its errors are warnings
RecoverClock ==
  /\ phase = "clock"
  /\ LET clocks == IF Derivable THEN handler.clocks \cup {RxClockStart} ELSE handler.clocks
         slave == IF "hwcapture" \in flags THEN HwCaptureClock ELSE Master.slave
         wanted == "clockdriver" \in flags /\ (tables.crx # <<>> \/ Derivable)
     IN \/ handler' = [handler EXCEPT !.clocks = clocks]
        \/ /\ wanted /\ {MasterClock, slave} \subseteq clocks
           /\ handler' = [handler EXCEPT !.clocks = clocks, !.controllers = {<<MasterClock, slave>>}]
  /\ phase' = IF ok THEN "connect" ELSE "failed"
  /\ UNCHANGED <<line, pos, cursor, tables, selected, flags, registry, ok, refused>>

\* a failed init() cleans the handler up again
CleanUp ==
  /\ phase = "failed" /\ handler # Empty
  /\ handler' = Empty
  /\ UNCHANGED <<line, phase, pos, cursor, tables, selected, flags, registry, ok, refused>>

\* init() has returned: nothing reads what the plug-in keeps any more
ConfigOver ==
  /\ phase' = CASE phase = "done" -> "set up" [] phase = "no handler" -> phase [] OTHER -> "given up"
  /\ line' = [line EXCEPT !.main = @ \cap {"noipc"}, !.setup = <<>>, !.good = FALSE]
  /\ pos' = 1 /\ cursor' = <<"rx", 1>> /\ tables' = DefaultTables
  /\ selected' = {} /\ flags' = {} /\ registry' = <<>> /\ handler' = Empty
  /\ ok' = TRUE /\ refused' = FALSE

ConfigInit ==
  /\ line \in CommandLines
  /\ phase = "off" /\ pos = 1 /\ cursor = <<"rx", 1>>
  /\ tables = DefaultTables
  /\ selected = {} /\ flags = {}
  /\ registry = <<>>
  /\ handler = Empty
  /\ ok = TRUE /\ refused = FALSE

ConfigNext == ParseOption \/ EndOfOptions \/ MakeCall \/ EndOfLoop \/ RecoverClock \/ CleanUp

----------------------------------------------------------------------------
(* What the command line asks for, read off the whole line at once         *)

Last(o, k) == Max({j \in 1 .. k : line.setup[j].opt \in o} \cup {0})
First(o) == CHOOSE j \in DOMAIN line.setup : line.setup[j].opt \in o /\ \A k \in 1 .. j - 1 : line.setup[k].opt \notin o
Chosen == Profiles[line.setup[First({"p", "s"})].arg]

\* an edit applies to the row that the last -x or -X before it names
EditedRow(k) ==
  LET j == Last({"x", "X"}, k) IN
  IF j = 0 THEN <<"rx", 1>>
  ELSE <<IF line.setup[j].opt = "x" THEN "rx" ELSE "tx", line.setup[j].arg + 1>>

\* the tables are those of the profile from its option on: an edit in front of it is lost with them
OrderedRow(side, r) ==
  LET edits(o) == {k \in First({"p", "s"}) .. Len(line.setup) :
                     line.setup[k].opt = o /\ (line.setup[k].fits \/ o = "c") /\ EditedRow(k) = <<side, r>>}
      asked(k) == IF line.setup[k].fits THEN line.setup[k].arg ELSE MaxUint16
      value(o, was) == IF edits(o) = {} THEN was ELSE asked(Max(edits(o)))
      row == Chosen[side][r]
  IN [row EXCEPT !.channels = value("c", @), !.local = value("o", @), !.id = value("i", @), !.dmac = value("m", @)]

Rows(side) ==
  IF side \in {"rx", "tx"} THEN {OrderedRow(side, r) : r \in DOMAIN Chosen[side]}
  ELSE {Chosen[side][r] : r \in DOMAIN Chosen[side]}

OrderedStreams ==
  LET of(t, k, d) == {[kind |-> k, dir |-> d, id |-> w.id, channels |-> w.channels, dmac |-> w.dmac] : w \in Rows(t)}
  IN of("rx", "audio", "rx") \cup of("tx", "audio", "tx") \cup of("vrx", "video", "rx") \cup of("vtx", "video", "tx")
       \cup of("crx", "crs", "rx") \cup of("ctx", "crs", "tx")

OrderedLinks ==
  LET of(t, d) == {[dir |-> d, id |-> w.id, local |-> w.local] : w \in {v \in Rows(t) : v.local # 0}}
  IN of("rx", "rx") \cup of("tx", "tx") \cup of("vrx", "rx") \cup of("vtx", "tx")

OrderedLocals ==
  LET of(t, k) == {[kind |-> k, dir |-> w.dir, id |-> w.id] : w \in Rows(t)}
  IN of("alsa", "alsa") \cup of("video", "video") \cup of("tones", "tone")

\* the value of a key is that of the last option that sets it: a -k, the profile or the target
OrderedValue(key) ==
  LET profile == First({"p", "s"}) target == First({"t"})
      given == {k \in DOMAIN line.setup : line.setup[k].opt = "k" /\ line.setup[k].key = key}
      setters == given \cup {k \in {profile} : key \in DOMAIN Chosen.reg}
                       \cup {k \in {target} : key \in DOMAIN Targets[line.setup[target].arg]}
      last == Max(setters)
  IN setters # {} =>
       registry[key] = CASE last = profile -> Chosen.reg[key]
                         [] last = target -> Targets[line.setup[target].arg][key]
                         [] OTHER -> line.setup[last].arg

\* The profile is set up as the command line orders it, in whatever order its options stand. When
\* setup() has succeeded, the streams, the local streams and the connections of the handler are
\* exactly those of the first profile on the line with every edit applied that comes after the
\* profile, to the row its -x or -X names; a key of the registry has the value of the last option
\* that sets it, the profile's and the target's own keys included; and setup() of a well-formed line
\* fails only if some call was refused for want of a resource, so the tables of the profiles fit
\* together.
SetupAsOrdered ==
  /\ (phase = "done" /\ "nosetup" \notin line.main) =>
       /\ handler.streams = OrderedStreams
       /\ handler.links = OrderedLinks
       /\ handler.locals = OrderedLocals
       /\ \A k \in DOMAIN registry \ {"ifname", "clockdriver"} : OrderedValue(k)
  /\ (phase = "failed" /\ line.good) => refused
=============================================================================
