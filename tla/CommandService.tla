--------------------------- MODULE CommandService ---------------------------
(***************************************************************************)
(* The command interface of the stream handler: avb_streamhandler_client   *)
(* checks a command line, connects to the daemon, sends one request and    *)
(* waits for the response; the service thread of the daemon accepts one    *)
(* connection at a time, reads the request, executes it and answers.       *)
(*                                                                         *)
(* The service is a chain of asynchronous operations in one thread: when   *)
(* one of them ends in an error none follows, io_service::run() returns,   *)
(* the acceptor is closed and the thread ends for good. No connection is   *)
(* ever closed by the service, so each one served costs a descriptor.      *)
(*                                                                         *)
(* A request is its command and the set of fields that the options set;    *)
(* the stream handler's part in a command is its result.                   *)
(***************************************************************************)
EXTENDS Integers, Sequences, FiniteSets

CONSTANTS
  Clients,        \* the client processes
  Invocations,    \* what they may be called with: [cmd, opts, words]
  MaxInvocations, \* bound: calls of the client program
  Backlog,        \* length of the listen queue
  MaxFiles        \* connections the process has descriptors for

VARIABLES
  client,         \* where each client is
  request,        \* requestSocketIpcStruct_ of each client
  answer,         \* responseSocketIpcStruct_ of each client
  calls,          \* how often the client program was called
  service,        \* "down", or the operation the service thread waits for: "accept", "read", "write"
  backlog,        \* connections that wait to be accepted
  conn,           \* the client at the other end of connx
  response,       \* the service's responseSocketIpcStruct_
  files,          \* connections accepted and not closed
  outcome         \* ghost: the responses that the client's request was executed with

clientVars == <<client, request, answer, calls>>
serviceVars == <<service, backlog, conn, response, files>>
commandVars == <<clientVars, serviceVars, outcome>>

NoOne == "nobody"
NoResponse == [cmd |-> "", result |-> "", carries |-> {}]
NoRequest == [cmd |-> "", opts |-> {}, words |-> 0]

----------------------------------------------------------------------------
(* the command table                                                       *)

\* for each command the number of options it needs and the fields validateRequest() insists on
Needs(n, fields) == [argc |-> n, needs |-> fields]

QueryCommands == [GetAvbStreamInfo |-> Needs(0, {}), GetLocalStreamInfo |-> Needs(0, {})]
NetworkAudioCommands ==
  [CreateTransmitAvbAudioStream |-> Needs(2, {"networkStreamId", "dmac"}),
   CreateReceiveAudioStream     |-> Needs(2, {"networkStreamId", "dmac"}),
   DestroyStream                |-> Needs(1, {"networkStreamId"}),
   SetStreamActive              |-> Needs(1, {"networkStreamId"})]
AlsaCommands ==
  [CreateAlsaStream             |-> Needs(2, {"direction", "deviceName"}),
   DestroyLocalStream           |-> Needs(1, {"localStreamId"})]
ConnectionCommands ==
  [ConnectStreams               |-> Needs(2, {"localStreamId", "networkStreamId"}),
   DisconnectStreams            |-> Needs(1, {"networkStreamId"}),
   SetChannelLayout             |-> Needs(1, {"localStreamId"})]
VideoCommands ==
  [CreateTransmitAvbVideoStream |-> Needs(2, {"networkStreamId", "dmac"}),
   CreateReceiveVideoStream     |-> Needs(2, {"networkStreamId", "dmac"}),
   CreateLocalVideoStream       |-> Needs(2, {"direction"})]
ToneCommands ==
  [CreateTestToneStream |-> Needs(0, {}), SetTestToneParams |-> Needs(0, {"channelIdx", "localStreamId"})]

OtherCommands == [Monitor |-> Needs(0, {}), SuspendStreamhandler |-> Needs(0, {})]

\* the entries of two parts of the table
Both(f, g) == [cmd \in DOMAIN f \cup DOMAIN g |-> IF cmd \in DOMAIN f THEN f[cmd] ELSE g[cmd]]

Commands ==
  Both(Both(QueryCommands, NetworkAudioCommands),
       Both(Both(AlsaCommands, ConnectionCommands), Both(VideoCommands, Both(ToneCommands, OtherCommands))))

\* commands that the service answers without asking the stream handler
Unimplemented == {"Monitor", "CreateLocalVideoStream", "SuspendStreamhandler"}

\* what a response carries besides the result, whatever it is: a list of streams, the network id
\* of the request, or the local id that the stream handler has given
QueryResponses(cmd) == IF cmd \in DOMAIN QueryCommands THEN {"streams"} ELSE {}
NetworkAudioResponses(cmd) ==
  IF cmd \in {"CreateTransmitAvbAudioStream", "CreateReceiveAudioStream"} THEN {"networkStreamId"} ELSE {}
AlsaResponses(cmd) == IF cmd = "CreateAlsaStream" THEN {"localStreamId"} ELSE {}
VideoResponses(cmd) == IF cmd \in DOMAIN VideoCommands THEN {"networkStreamId"} ELSE {}
ToneResponses(cmd) == IF cmd = "CreateTestToneStream" THEN {"localStreamId"} ELSE {}
Carried(cmd) ==
  QueryResponses(cmd) \cup NetworkAudioResponses(cmd) \cup AlsaResponses(cmd) \cup VideoResponses(cmd) \cup ToneResponses(cmd)

\* option -> the field of the request that it sets; --channels sets the clock id, -i and -I none
Field ==
  [O |-> "hostport", c |-> "numOfCh", channels |-> "clockId", f |-> "format", r |-> "sampleFreq", C |-> "clockId",
   M |-> "assignMode", m |-> "dmac", a |-> "active", d |-> "direction", L |-> "channelLayout", s |-> "hasSideChannel",
   p |-> "periodSize", N |-> "numPeriods", P |-> "portPrefix", D |-> "deviceName", n |-> "networkStreamId",
   l |-> "localStreamId", x |-> "channelIdx", R |-> "maxPacketRate", S |-> "maxPacketSize", i |-> "none",
   F |-> "signalFrequency", A |-> "amplitude", w |-> "toneMode", u |-> "userParam", q |-> "srClass", I |-> "none",
   T |-> "suspendAction"]

Fields(r) == {Field[o] : o \in r.opts}

----------------------------------------------------------------------------
(* the client                                                              *)

\* the counts that main() checks: options if there are any, else the words after the command
CountsFit(r) ==
  IF r.opts # {} THEN Commands[r.cmd].argc <= Cardinality(r.opts)
  ELSE Commands[r.cmd].argc = 0 => r.words = 0

RequestValid(r) ==
  /\ "h" \notin r.opts
  /\ r.cmd \in DOMAIN Commands
  /\ CountsFit(r)
  /\ Commands[r.cmd].needs \subseteq Fields(r)

\* main() up to the connection; a call that is refused prints what is wrong and ends
Invoke(c, r) ==
  /\ client[c] = "idle" /\ calls < MaxInvocations
  /\ calls' = calls + 1
  /\ client' = [client EXCEPT ![c] = IF RequestValid(r) THEN "connecting" ELSE "rejected"]
  /\ request' = [request EXCEPT ![c] = r]
  /\ outcome' = [outcome EXCEPT ![c] = <<>>]
  /\ UNCHANGED <<answer, serviceVars>>

\* handle_connect(): the kernel completes a connection as long as the listen queue has room
Connect(c) ==
  /\ client[c] = "connecting"
  /\ \/ /\ service # "down" /\ Len(backlog) < Backlog
        /\ client' = [client EXCEPT ![c] = "connected"]
        /\ backlog' = Append(backlog, c)
     \/ service = "down" /\ client' = [client EXCEPT ![c] = "failed"] /\ UNCHANGED backlog
  /\ UNCHANGED <<request, answer, calls, service, conn, response, files, outcome>>

\* handle_write()
Send(c) ==
  /\ client[c] = "connected"
  /\ client' = [client EXCEPT ![c] = "sent"]
  /\ UNCHANGED <<request, answer, calls, serviceVars, outcome>>

\* the process ends; its exit code is that of an error, whatever the answer
Finish(c) ==
  /\ client[c] \in {"answered", "rejected", "failed"}
  /\ client' = [client EXCEPT ![c] = "idle"]
  /\ request' = [request EXCEPT ![c] = NoRequest] /\ answer' = [answer EXCEPT ![c] = NoResponse]
  /\ outcome' = [outcome EXCEPT ![c] = <<>>]
  /\ UNCHANGED <<calls, serviceVars>>

\* the user interrupts a client that has connected; the service finds out when it reads or writes
Interrupt(c) ==
  /\ client[c] \in {"connected", "sent"}
  /\ client' = [client EXCEPT ![c] = IF @ = "sent" THEN "goneSent" ELSE "gone"]
  /\ UNCHANGED <<request, answer, calls, serviceVars, outcome>>

----------------------------------------------------------------------------
(* the service thread                                                      *)

\* what a client sees when the daemon's end of its connection is closed
Dropped(S) == client' = [c \in Clients |-> IF c \in S THEN "failed" ELSE client[c]]

\* run() returns and the acceptor is closed
ServiceEnds ==
  /\ service' = "down" /\ backlog' = <<>> /\ conn' = NoOne
  /\ Dropped({c \in Clients : \E i \in DOMAIN backlog : backlog[i] = c} \cup ({conn} \cap Clients))
  /\ UNCHANGED <<request, answer, calls, response, files>>

\* handle_accept(): the next connection, or an error when no descriptor is left
HandleAccept ==
  /\ service = "accept" /\ backlog # <<>>
  /\ \/ /\ files < MaxFiles
        /\ service' = "read" /\ conn' = Head(backlog) /\ backlog' = Tail(backlog)
        /\ files' = files + 1
        /\ UNCHANGED <<clientVars, response>>
     \/ files = MaxFiles /\ ServiceEnds
  /\ UNCHANGED outcome

\* what execute() of the command returns
Results(cmd) == IF cmd \in Unimplemented THEN {"NotImplemented"} ELSE {"Ok", "Err"}

\* mutant: the command is not looked up, the service answers with what it has
ExecuteStale(r) == {response}

\* the command is looked up by its name and executed; for a name that is not in the table
\* the previous response stays
Execute(r) ==
  IF r.cmd \in DOMAIN Commands THEN {[cmd |-> r.cmd, result |-> x, carries |-> Carried(r.cmd)] : x \in Results(r.cmd)}
  ELSE {response}

\* handle_read(): the request is executed, or the connection has ended and the service with it
HandleRead ==
  /\ service = "read"
  /\ \/ /\ client[conn] \in {"sent", "goneSent"}
        /\ \E a \in Execute(request[conn]) :
             /\ response' = a
             /\ outcome' = [outcome EXCEPT ![conn] = Append(@, a)]
        /\ service' = "write"
        /\ UNCHANGED <<clientVars, backlog, conn, files>>
     \/ client[conn] = "gone" /\ ServiceEnds /\ UNCHANGED outcome

\* mutant: the connection is not followed by another accept
WriteOnly ==
  /\ service' = "idle" /\ conn' = NoOne
  /\ UNCHANGED <<backlog, response, files>>

\* connx is replaced, not closed, and the next connection is waited for
NextConnection ==
  /\ service' = "accept" /\ conn' = NoOne
  /\ UNCHANGED <<backlog, response, files>>

\* handle_write(): writing to a client that has ended may succeed or fail
HandleWrite ==
  /\ service = "write"
  /\ \/ /\ client[conn] = "sent" /\ NextConnection
        /\ client' = [client EXCEPT ![conn] = "answered"]
        /\ answer' = [answer EXCEPT ![conn] = response]
        /\ UNCHANGED <<request, calls>>
     \/ client[conn] = "goneSent" /\ NextConnection /\ Dropped({conn}) /\ UNCHANGED <<request, answer, calls>>
     \/ client[conn] = "goneSent" /\ ServiceEnds
  /\ UNCHANGED outcome

\* asyncSocketServer(): the thread listens, or ends at once when the port is taken
StartService ==
  /\ service' \in {"accept", "down"}
  /\ UNCHANGED <<backlog, conn, response, files>>

\* the end of the process ends every connection
StopService ==
  /\ service' = "down" /\ backlog' = <<>> /\ conn' = NoOne /\ response' = NoResponse /\ files' = 0
  /\ Dropped({c \in Clients : client[c] \in {"connected", "sent", "gone", "goneSent"}})
  /\ UNCHANGED <<request, answer, calls, outcome>>

CommandInit ==
  /\ client = [c \in Clients |-> "idle"] /\ request = [c \in Clients |-> NoRequest]
  /\ answer = [c \in Clients |-> NoResponse] /\ outcome = [c \in Clients |-> <<>>]
  /\ calls = 0
  /\ service = "down" /\ backlog = <<>> /\ conn = NoOne /\ response = NoResponse /\ files = 0

ClientStep(c) == (\E r \in Invocations : Invoke(c, r)) \/ Connect(c) \/ Send(c) \/ Finish(c) \/ Interrupt(c)
ServiceStep == HandleAccept \/ HandleRead \/ HandleWrite
CommandNext == (\E c \in Clients : ClientStep(c)) \/ ServiceStep

----------------------------------------------------------------------------
(* Properties                                                              *)

\* The answer a client prints is that of its own request: handle_read() executes a request at
\* most once, whoever else connects, is interrupted or is served in between, and an answered client has
\* the response of that one execution.
AnswerIsOwn ==
  \A c \in Clients :
    /\ Len(outcome[c]) <= 1
    /\ client[c] = "answered" =>
         /\ outcome[c] = <<answer[c]>> /\ answer[c].cmd = request[c].cmd
         /\ "networkStreamId" \in answer[c].carries => "networkStreamId" \in Fields(request[c]) \/ answer[c].result = "NotImplemented"
         /\ request[c].cmd \in Unimplemented <=> answer[c].result = "NotImplemented"
=============================================================================
