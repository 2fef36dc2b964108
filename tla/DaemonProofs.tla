---------------------------- MODULE DaemonProofs ----------------------------
(***************************************************************************)
(* The command service of the daemon, for any number of clients, calls and *)
(* starts of the daemon: a client prints the answer to its own request.    *)
(***************************************************************************)
EXTENDS Daemon, SequenceTheorems, TLAPS

\* a client that is connected, whether or not it is still there
Waiting == {"connected", "sent", "gone", "goneSent"}

States == {"idle", "connecting", "rejected", "failed", "answered"} \cup Waiting

\* the response a is one to the request r
Fits(a, r) ==
  /\ a.cmd = r.cmd
  /\ "networkStreamId" \in a.carries => "networkStreamId" \in Fields(r) \/ a.result = "NotImplemented"
  /\ r.cmd \in Unimplemented <=> a.result = "NotImplemented"

\* the variables are functions of the clients, and the listen queue holds clients
ServiceTypes ==
  /\ client \in [Clients -> States]
  /\ request = [c \in Clients |-> request[c]] /\ answer = [c \in Clients |-> answer[c]]
  /\ outcome = [c \in Clients |-> outcome[c]]
  /\ backlog \in Seq(Clients)

\* every client that waits in the listen queue is connected, is there once, is not the one that is
\* served, and has no response yet
QueueInv ==
  /\ \A i, j \in DOMAIN backlog : backlog[i] = backlog[j] => i = j
  /\ \A i \in DOMAIN backlog : /\ client[backlog[i]] \in Waiting /\ outcome[backlog[i]] = <<>>
                               /\ service \in {"read", "write"} => backlog[i] # conn

\* the client that is served has none either until its request is executed, and then has that one
ServedInv ==
  /\ service \in {"read", "write"} => conn \in Clients
  /\ service = "read" => client[conn] \in Waiting /\ outcome[conn] = <<>>
  /\ service = "write" => /\ client[conn] \in {"sent", "goneSent"}
                          /\ outcome[conn] = <<response>> /\ Fits(response, request[conn])

\* a client with a connection has a valid request, and an answered one its own response
ClientOK(c) ==
  /\ client[c] \in Waiting \cup {"connecting"} => RequestValid(request[c])
  /\ client[c] = "connecting" => outcome[c] = <<>>
  /\ client[c] = "answered" => outcome[c] = <<answer[c]>> /\ Fits(answer[c], request[c])
  /\ outcome[c] = <<>> \/ \E a : outcome[c] = <<a>>

ClientInv == \A c \in Clients : ClientOK(c)

CommandInv == ServiceTypes /\ QueueInv /\ ServedInv /\ ClientInv

----------------------------------------------------------------------------
(* The command table                                                       *)

\* A command whose response carries the network id of the request is not implemented, or needs that id.
LEMMA NetworkIdIsNeeded ==
  ASSUME NEW cmd, "networkStreamId" \in Carried(cmd), cmd \notin Unimplemented
  PROVE  "networkStreamId" \in Commands[cmd].needs
<1>1. cmd \in {"CreateTransmitAvbAudioStream", "CreateReceiveAudioStream", "CreateTransmitAvbVideoStream", "CreateReceiveVideoStream"}
  <2>1. DOMAIN VideoCommands = {"CreateTransmitAvbVideoStream", "CreateReceiveVideoStream", "CreateLocalVideoStream"}
    BY DEF VideoCommands
  <2>2. cmd \in {"CreateTransmitAvbAudioStream", "CreateReceiveAudioStream"} \/ cmd \in DOMAIN VideoCommands
    BY DEF Carried, QueryResponses, NetworkAudioResponses, AlsaResponses, VideoResponses, ToneResponses
  <2> QED
    BY <2>1, <2>2 DEF Unimplemented
<1>2. CASE cmd \in {"CreateTransmitAvbAudioStream", "CreateReceiveAudioStream"}
  <2>1. cmd \in DOMAIN NetworkAudioCommands /\ "networkStreamId" \in NetworkAudioCommands[cmd].needs
    BY <1>2 DEF NetworkAudioCommands, Needs
  <2>2. cmd \notin DOMAIN QueryCommands
    BY <1>2 DEF QueryCommands
  <2>3. cmd \in DOMAIN Both(QueryCommands, NetworkAudioCommands) /\ Both(QueryCommands, NetworkAudioCommands)[cmd] = NetworkAudioCommands[cmd]
    BY <2>1, <2>2, Zenon DEF Both
  <2> QED
    BY <2>1, <2>3, Zenon DEF Commands, Both
<1>3. CASE cmd \in {"CreateTransmitAvbVideoStream", "CreateReceiveVideoStream"}
  <2>1. cmd \in DOMAIN VideoCommands /\ "networkStreamId" \in VideoCommands[cmd].needs
    BY <1>3 DEF VideoCommands, Needs
  <2>2. cmd \notin DOMAIN QueryCommands /\ cmd \notin DOMAIN NetworkAudioCommands
    BY <1>3 DEF QueryCommands, NetworkAudioCommands
  <2>3. cmd \notin DOMAIN AlsaCommands /\ cmd \notin DOMAIN ConnectionCommands
    BY <1>3 DEF AlsaCommands, ConnectionCommands
  <2> DEFINE f == Both(VideoCommands, Both(ToneCommands, OtherCommands))
             g == Both(AlsaCommands, ConnectionCommands)
             h == Both(QueryCommands, NetworkAudioCommands)
  <2>4. cmd \in DOMAIN f /\ f[cmd] = VideoCommands[cmd] /\ cmd \notin DOMAIN g /\ cmd \notin DOMAIN h
    BY <2>1, <2>2, <2>3, Zenon DEF Both
  <2>5. Commands = Both(h, Both(g, f))
    BY Zenon DEF Commands
  <2> HIDE DEF f, g, h
  <2>6. cmd \in DOMAIN Both(g, f) /\ Both(g, f)[cmd] = f[cmd]
    BY <2>4, Zenon DEF Both
  <2>7. Both(h, Both(g, f))[cmd] = f[cmd]
    BY <2>4, <2>6, Zenon DEF Both
  <2> QED
    BY <2>1, <2>4, <2>5, <2>7, Zenon
<1> QED
  BY <1>1, <1>2, <1>3

\* What is executed for a valid request is a response to it.
LEMMA ExecutedFits ==
  ASSUME NEW r, RequestValid(r), NEW a \in Execute(r)
  PROVE  Fits(a, r)
<1>1. PICK x \in Results(r.cmd) : a = [cmd |-> r.cmd, result |-> x, carries |-> Carried(r.cmd)]
  BY Zenon DEF RequestValid, Execute
<1>2. a.cmd = r.cmd /\ a.result = x /\ a.carries = Carried(r.cmd)
  BY <1>1
<1>3. IF r.cmd \in Unimplemented THEN x = "NotImplemented" ELSE x # "NotImplemented"
  BY DEF Results
<1>4. CASE r.cmd \in Unimplemented
  BY <1>2, <1>3, <1>4 DEF Fits
<1>5. CASE r.cmd \notin Unimplemented
  <2>1. "networkStreamId" \in Carried(r.cmd) => "networkStreamId" \in Fields(r)
    BY <1>5, NetworkIdIsNeeded, Zenon DEF RequestValid
  <2> QED
    BY <1>2, <1>3, <1>5, <2>1 DEF Fits
<1> QED
  BY <1>4, <1>5

----------------------------------------------------------------------------
(* The clients                                                             *)

\* One client moves on, and nothing else changes but what is kept for it.
LEMMA OneClientMoves ==
  ASSUME CommandInv, NEW c \in Clients, NEW st \in States, client' = [client EXCEPT ![c] = st],
         UNCHANGED <<service, backlog, conn, response>>,
         request' = [d \in Clients |-> request'[d]], answer' = [d \in Clients |-> answer'[d]],
         outcome' = [d \in Clients |-> outcome'[d]],
         \A d \in Clients : d # c => request'[d] = request[d] /\ answer'[d] = answer[d] /\ outcome'[d] = outcome[d],
         client[c] \in Waiting => /\ st \in Waiting /\ request'[c] = request[c] /\ outcome'[c] = outcome[c]
                                  /\ client[c] \in {"sent", "goneSent"} => st \in {"sent", "goneSent"},
         ClientOK(c)'
  PROVE  CommandInv'
<1>0. ServiceTypes /\ QueueInv /\ ServedInv /\ ClientInv
  BY DEF CommandInv
<1>1. /\ client' \in [Clients -> States] /\ client'[c] = st
      /\ \A d \in Clients : d # c => client'[d] = client[d]
  BY <1>0, Zenon DEF ServiceTypes
<1>2. service' = service /\ backlog' = backlog /\ conn' = conn /\ response' = response
  OBVIOUS
<1>3. ServiceTypes'
  BY <1>0, <1>1, <1>2, Zenon DEF ServiceTypes
<1>4. QueueInv'
  <2>1. ASSUME NEW i \in DOMAIN backlog
        PROVE  client'[backlog[i]] \in Waiting /\ outcome'[backlog[i]] = <<>>
    <3>1. backlog[i] \in Clients
      BY <1>0, <2>1 DEF ServiceTypes
    <3>2. client[backlog[i]] \in Waiting /\ outcome[backlog[i]] = <<>>
      BY <1>0, <2>1, Zenon DEF QueueInv
    <3> QED
      BY <1>1, <3>1, <3>2, Zenon
  <2> QED
    BY <1>0, <1>2, <2>1, Zenon DEF QueueInv
<1>5. ServedInv'
  <2>1. CASE service \in {"read", "write"}
    <3>1. conn \in Clients /\ client[conn] \in Waiting
      BY <1>0, <2>1 DEF ServedInv, Waiting
    <3>2. CASE conn = c
      BY <1>0, <1>1, <1>2, <3>1, <3>2, Zenon DEF ServedInv
    <3>3. CASE conn # c
      BY <1>0, <1>1, <1>2, <3>1, <3>3, Zenon DEF ServedInv
    <3> QED
      BY <3>2, <3>3
  <2>2. CASE service \notin {"read", "write"}
    BY <1>2, <2>2 DEF ServedInv
  <2> QED
    BY <2>1, <2>2
<1>6. ClientInv'
  <2>1. ASSUME NEW d \in Clients, d # c
        PROVE  ClientOK(d)'
    <3>1. client'[d] = client[d] /\ request'[d] = request[d] /\ answer'[d] = answer[d] /\ outcome'[d] = outcome[d]
      BY <1>1, <2>1, Zenon
    <3>2. ClientOK(d)
      BY <1>0, Zenon DEF ClientInv
    <3> QED
      BY <3>1, <3>2 DEF ClientOK
  <2> QED
    BY <2>1, Zenon DEF ClientInv
<1> QED
  BY <1>3, <1>4, <1>5, <1>6, Zenon DEF CommandInv

\* A call of the client program keeps the invariant.
LEMMA ClientKeeps ==
  ASSUME CommandInv, NEW c \in Clients, ClientStep(c)
  PROVE  CommandInv'
<1>0. /\ client \in [Clients -> States] /\ ClientOK(c) /\ backlog \in Seq(Clients)
      /\ request = [d \in Clients |-> request[d]] /\ answer = [d \in Clients |-> answer[d]]
      /\ outcome = [d \in Clients |-> outcome[d]]
  BY Zenon DEF CommandInv, ServiceTypes, ClientInv
<1>1. CASE \E r \in Invocations : Invoke(c, r)
  <2>1. PICK r \in Invocations : Invoke(c, r)
    BY <1>1
  <2> DEFINE st == IF RequestValid(r) THEN "connecting" ELSE "rejected"
  <2>2. /\ client[c] = "idle" /\ client' = [client EXCEPT ![c] = st] /\ request' = [request EXCEPT ![c] = r]
        /\ outcome' = [outcome EXCEPT ![c] = <<>>] /\ answer' = answer
        /\ UNCHANGED <<service, backlog, conn, response>>
    BY <2>1 DEF Invoke, serviceVars
  <2>3. st \in States /\ st \notin Waiting /\ st # "answered" /\ (st = "connecting" => RequestValid(r))
    BY DEF States, Waiting
  <2> HIDE DEF st
  <2>4. /\ client'[c] = st /\ request'[c] = r /\ outcome'[c] = <<>>
        /\ \A d \in Clients : d # c => request'[d] = request[d] /\ answer'[d] = answer[d] /\ outcome'[d] = outcome[d]
        /\ request' = [d \in Clients |-> request'[d]] /\ answer' = [d \in Clients |-> answer'[d]]
        /\ outcome' = [d \in Clients |-> outcome'[d]]
    BY <1>0, <2>2, Zenon
  <2>5. ClientOK(c)'
    BY <2>3, <2>4 DEF ClientOK
  <2>6. client[c] \notin Waiting
    BY <2>2 DEF Waiting
  <2> QED
    BY <2>2, <2>3, <2>4, <2>5, <2>6, OneClientMoves
<1>2. CASE Connect(c)
  <2>1. CASE client' = [client EXCEPT ![c] = "failed"] /\ UNCHANGED backlog
    <3>1. /\ client[c] = "connecting" /\ UNCHANGED <<service, backlog, conn, response>>
          /\ request' = request /\ answer' = answer /\ outcome' = outcome
      BY <1>2, <2>1 DEF Connect
    <3>2. client'[c] = "failed" /\ "failed" \in States /\ client[c] \notin Waiting
      BY <1>0, <2>1, <3>1 DEF States, Waiting
    <3>3. ClientOK(c)'
      BY <1>0, <3>1, <3>2 DEF ClientOK, Waiting
    <3> QED
      BY <1>0, <2>1, <3>1, <3>2, <3>3, OneClientMoves
  <2>2. CASE client' = [client EXCEPT ![c] = "connected"] /\ backlog' = Append(backlog, c)
    <3>1. /\ client[c] = "connecting" /\ service' = service /\ conn' = conn /\ response' = response
          /\ request' = request /\ answer' = answer /\ outcome' = outcome
      BY <1>2 DEF Connect
    <3>2. /\ client' \in [Clients -> States] /\ client'[c] = "connected"
          /\ \A d \in Clients : d # c => client'[d] = client[d]
      <4>1. "connected" \in States
        BY DEF States, Waiting
      <4> QED
        BY <1>0, <2>2, <4>1, Zenon
    <3>3. outcome[c] = <<>> /\ RequestValid(request[c]) /\ client[c] \notin Waiting
      BY <1>0, <3>1 DEF ClientOK, Waiting
    <3>4. /\ backlog' \in Seq(Clients) /\ DOMAIN backlog' = DOMAIN backlog \cup {Len(backlog) + 1}
          /\ backlog'[Len(backlog) + 1] = c
          /\ \A i \in DOMAIN backlog : i # Len(backlog) + 1 /\ backlog'[i] = backlog[i] /\ backlog[i] \in Clients
      BY <1>0, <2>2
    <3>5. \A i \in DOMAIN backlog : /\ client[backlog[i]] \in Waiting /\ outcome[backlog[i]] = <<>>
                                    /\ service \in {"read", "write"} => backlog[i] # conn
      BY Zenon DEF CommandInv, QueueInv
    <3>6. \A i \in DOMAIN backlog : backlog[i] # c
      BY <3>3, <3>5, Zenon
    <3>7. service \in {"read", "write"} => conn \in Clients /\ conn # c
      BY <3>1 DEF CommandInv, ServedInv, Waiting
    <3>8. ServiceTypes'
      BY <1>0, <3>1, <3>2, <3>4, Zenon DEF ServiceTypes
    <3>9. QueueInv'
      <4>1. ASSUME NEW i \in DOMAIN backlog', NEW j \in DOMAIN backlog', backlog'[i] = backlog'[j]
            PROVE  i = j
        <5>1. \A k, l \in DOMAIN backlog : backlog[k] = backlog[l] => k = l
          BY Zenon DEF CommandInv, QueueInv
        <5> QED
          BY <3>4, <3>6, <4>1, <5>1, Zenon
      <4>2. ASSUME NEW i \in DOMAIN backlog'
            PROVE  /\ client'[backlog'[i]] \in Waiting /\ outcome'[backlog'[i]] = <<>>
                   /\ service' \in {"read", "write"} => backlog'[i] # conn'
        <5>1. CASE i \in DOMAIN backlog
          BY <3>1, <3>2, <3>4, <3>5, <3>6, <5>1, Zenon
        <5>2. CASE i = Len(backlog) + 1
          <6>1. "connected" \in Waiting
            BY DEF Waiting
          <6> QED
            BY <3>1, <3>2, <3>3, <3>4, <3>7, <5>2, <6>1, Zenon
        <5> QED
          BY <3>4, <5>1, <5>2, Zenon
      <4> QED
        BY <4>1, <4>2, Zenon DEF QueueInv
    <3>10. ServedInv'
      BY <3>1, <3>2, <3>7, Zenon DEF CommandInv, ServedInv
    <3>11. ClientInv'
      <4>1. ClientOK(c)'
        BY <3>1, <3>2, <3>3 DEF ClientOK
      <4>2. ASSUME NEW d \in Clients, d # c
            PROVE  ClientOK(d)'
        BY <3>1, <3>2, <4>2, Zenon DEF CommandInv, ClientInv, ClientOK
      <4> QED
        BY <4>1, <4>2, Zenon DEF ClientInv
    <3> QED
      BY <3>8, <3>9, <3>10, <3>11, Zenon DEF CommandInv
  <2> QED
    BY <1>2, <2>1, <2>2 DEF Connect
<1>3. CASE Send(c)
  <2>1. /\ client[c] = "connected" /\ client' = [client EXCEPT ![c] = "sent"]
        /\ UNCHANGED <<service, backlog, conn, response>>
        /\ request' = request /\ answer' = answer /\ outcome' = outcome
    BY <1>3 DEF Send, serviceVars
  <2>2. client'[c] = "sent" /\ "sent" \in States /\ "sent" \in Waiting /\ client[c] \in Waiting
    BY <1>0, <2>1 DEF States, Waiting
  <2>3. ClientOK(c)'
    BY <1>0, <2>1, <2>2 DEF ClientOK
  <2> QED
    BY <1>0, <2>1, <2>2, <2>3, OneClientMoves
<1>4. CASE Finish(c)
  <2>1. /\ client[c] \in {"answered", "rejected", "failed"} /\ client' = [client EXCEPT ![c] = "idle"]
        /\ request' = [request EXCEPT ![c] = NoRequest] /\ answer' = [answer EXCEPT ![c] = NoResponse]
        /\ outcome' = [outcome EXCEPT ![c] = <<>>] /\ UNCHANGED <<service, backlog, conn, response>>
    BY <1>4 DEF Finish, serviceVars
  <2>2. /\ client'[c] = "idle" /\ outcome'[c] = <<>>
        /\ \A d \in Clients : d # c => request'[d] = request[d] /\ answer'[d] = answer[d] /\ outcome'[d] = outcome[d]
        /\ request' = [d \in Clients |-> request'[d]] /\ answer' = [d \in Clients |-> answer'[d]]
        /\ outcome' = [d \in Clients |-> outcome'[d]]
    BY <1>0, <2>1, Zenon
  <2>3. client[c] \notin Waiting /\ "idle" \in States /\ ClientOK(c)'
    BY <2>1, <2>2 DEF Waiting, States, ClientOK
  <2> QED
    BY <2>1, <2>2, <2>3, OneClientMoves
<1>5. CASE Interrupt(c)
  <2> DEFINE st == IF client[c] = "sent" THEN "goneSent" ELSE "gone"
  <2>1. /\ client[c] \in {"connected", "sent"} /\ client' = [client EXCEPT ![c] = st]
        /\ UNCHANGED <<service, backlog, conn, response>>
        /\ request' = request /\ answer' = answer /\ outcome' = outcome
    BY <1>5 DEF Interrupt, serviceVars
  <2>2. /\ st \in States /\ st \in Waiting /\ client[c] \in Waiting /\ st \notin {"connecting", "answered"}
        /\ client[c] \in {"sent", "goneSent"} => st \in {"sent", "goneSent"}
    BY <2>1 DEF States, Waiting
  <2> HIDE DEF st
  <2>3. PICK q : q = st
    OBVIOUS
  <2>4. client' = [client EXCEPT ![c] = q] /\ client'[c] = q
    BY <1>0, <2>1, <2>3, Zenon
  <2>5. ClientOK(c)'
    BY <1>0, <2>1, <2>2, <2>3, <2>4 DEF ClientOK
  <2> QED
    BY <1>0, <2>1, <2>2, <2>3, <2>4, <2>5, OneClientMoves
<1> QED
  BY <1>1, <1>2, <1>3, <1>4, <1>5, Zenon DEF ClientStep

----------------------------------------------------------------------------
(* The service thread                                                      *)

\* Connections are dropped: those that are over keep what was kept for them.
LEMMA DroppedKeeps ==
  ASSUME CommandInv, NEW S, Dropped(S), UNCHANGED <<request, answer, outcome>>
  PROVE  /\ client' \in [Clients -> States] /\ ClientInv'
         /\ \A c \in Clients : c \notin S => client'[c] = client[c]
<1>0. client \in [Clients -> States] /\ ClientInv /\ "failed" \in States
  BY DEF CommandInv, ServiceTypes, States
<1>1. \A c \in Clients : client'[c] = IF c \in S THEN "failed" ELSE client[c]
  BY Zenon DEF Dropped
<1>2. client' \in [Clients -> States]
  <2>1. \A c \in Clients : client'[c] \in States
    BY <1>0, <1>1, Zenon
  <2> QED
    BY <2>1 DEF Dropped
<1>3. ASSUME NEW c \in Clients
      PROVE  ClientOK(c)'
  <2>1. request' = request /\ answer' = answer /\ outcome' = outcome /\ ClientOK(c)
    BY <1>0, Zenon DEF ClientInv
  <2>2. client'[c] = "failed" \/ client'[c] = client[c]
    BY <1>1, Zenon
  <2> QED
    BY <2>1, <2>2 DEF ClientOK, Waiting
<1> QED
  BY <1>1, <1>2, <1>3, Zenon DEF ClientInv

\* Without a service nothing waits and nobody is served.
LEMMA ServiceEnded ==
  ASSUME CommandInv, NEW S, Dropped(S), UNCHANGED <<request, answer, outcome>>, service' = "down", backlog' = <<>>
  PROVE  CommandInv'
<1>1. client' \in [Clients -> States] /\ ClientInv'
  BY DroppedKeeps, Zenon
<1>2. ServiceTypes'
  <2>1. backlog' \in Seq(Clients)
    OBVIOUS
  <2>2. request' = request /\ answer' = answer /\ outcome' = outcome
    OBVIOUS
  <2> QED
    BY <1>1, <2>1, <2>2, Zenon DEF CommandInv, ServiceTypes
<1>3. QueueInv'
  <2>1. DOMAIN backlog' = {}
    OBVIOUS
  <2> QED
    BY <2>1 DEF QueueInv
<1>4. ServedInv'
  BY DEF ServedInv
<1> QED
  BY <1>1, <1>2, <1>3, <1>4, Zenon DEF CommandInv

\* The service waits for a connection, and nobody is served.
LEMMA ServiceAccepts ==
  ASSUME ServiceTypes, ServiceTypes', ClientInv', UNCHANGED backlog, service' = "accept",
         \A i, j \in DOMAIN backlog : backlog[i] = backlog[j] => i = j,
         \A i \in DOMAIN backlog : client'[backlog[i]] \in Waiting /\ outcome'[backlog[i]] = <<>>
  PROVE  CommandInv'
<1>1. backlog' = backlog
  OBVIOUS
<1>2. QueueInv'
  BY <1>1 DEF QueueInv
<1>3. ServedInv'
  BY DEF ServedInv
<1> QED
  BY <1>2, <1>3, Zenon DEF CommandInv

\* A step of the service thread keeps the invariant.
LEMMA ServiceKeeps ==
  ASSUME CommandInv, ServiceStep
  PROVE  CommandInv'
<1>0. /\ ServiceTypes /\ QueueInv /\ ServedInv /\ ClientInv
      /\ client \in [Clients -> States] /\ backlog \in Seq(Clients)
      /\ request = [d \in Clients |-> request[d]] /\ answer = [d \in Clients |-> answer[d]]
      /\ outcome = [d \in Clients |-> outcome[d]]
  BY Zenon DEF CommandInv, ServiceTypes
<1>1. /\ \A i, j \in DOMAIN backlog : backlog[i] = backlog[j] => i = j
      /\ \A i \in DOMAIN backlog : /\ client[backlog[i]] \in Waiting /\ outcome[backlog[i]] = <<>>
                                   /\ service \in {"read", "write"} => backlog[i] # conn
      /\ \A i \in DOMAIN backlog : backlog[i] \in Clients
  <2>1. \A i \in DOMAIN backlog : backlog[i] \in Clients
    BY <1>0
  <2> QED
    BY <1>0, <2>1, Zenon DEF QueueInv
<1>2. ASSUME ServiceEnds, outcome' = outcome
      PROVE  CommandInv'
  <2> DEFINE S == {c \in Clients : \E i \in DOMAIN backlog : backlog[i] = c} \cup ({conn} \cap Clients)
  <2>1. Dropped(S) /\ request' = request /\ answer' = answer /\ service' = "down" /\ backlog' = <<>>
    BY <1>2 DEF ServiceEnds
  <2>2. PICK T : T = S
    OBVIOUS
  <2> HIDE DEF S
  <2>3. Dropped(T)
    BY <2>1, <2>2 DEF Dropped
  <2> QED
    BY <1>2, <2>1, <2>3, ServiceEnded
<1>3. CASE HandleAccept
  <2>1. CASE ServiceEnds
    BY <1>2, <1>3, <2>1 DEF HandleAccept
  <2>2. CASE ~ServiceEnds
    <3>1. /\ backlog # <<>> /\ service' = "read" /\ conn' = Head(backlog) /\ backlog' = Tail(backlog)
          /\ client' = client /\ request' = request /\ answer' = answer /\ outcome' = outcome
      BY <1>3, <2>2 DEF HandleAccept, clientVars
    <3>2. /\ 1 \in DOMAIN backlog /\ conn' = backlog[1] /\ backlog' \in Seq(Clients)
          /\ DOMAIN backlog' = 1 .. Len(backlog) - 1
          /\ \A i \in DOMAIN backlog' : i + 1 \in DOMAIN backlog /\ backlog'[i] = backlog[i + 1] /\ i + 1 # 1
      BY <1>0, <3>1
    <3>3. ServiceTypes'
      BY <1>0, <3>1, <3>2, Zenon DEF ServiceTypes
    <3>4. QueueInv'
      <4>1. ASSUME NEW i \in DOMAIN backlog', NEW j \in DOMAIN backlog', backlog'[i] = backlog'[j]
            PROVE  i = j
        <5>1. i + 1 = j + 1
          <6>1. i + 1 \in DOMAIN backlog /\ j + 1 \in DOMAIN backlog /\ backlog[i + 1] = backlog[j + 1]
            BY <3>2, <4>1
          <6> QED
            BY <1>1, <6>1
        <5> QED
          BY <3>2, <5>1
      <4>2. ASSUME NEW i \in DOMAIN backlog'
            PROVE  client'[backlog'[i]] \in Waiting /\ outcome'[backlog'[i]] = <<>> /\ backlog'[i] # conn'
        <5>1. /\ i + 1 \in DOMAIN backlog /\ backlog'[i] = backlog[i + 1] /\ i + 1 # 1
              /\ 1 \in DOMAIN backlog /\ conn' = backlog[1]
          BY <3>2, <4>2
        <5>2. backlog[i + 1] # backlog[1]
          BY <1>1, <5>1
        <5>3. client[backlog[i + 1]] \in Waiting /\ outcome[backlog[i + 1]] = <<>>
          BY <1>1, <5>1
        <5> QED
          BY <3>1, <5>1, <5>2, <5>3, Zenon
      <4> QED
        BY <4>1, <4>2, Zenon DEF QueueInv
    <3>5. ServedInv'
      <4>1. conn' \in Clients /\ client'[conn'] \in Waiting /\ outcome'[conn'] = <<>>
        BY <1>1, <3>1, <3>2, Zenon
      <4> QED
        BY <3>1, <4>1 DEF ServedInv
    <3>6. ClientInv'
      BY <1>0, <3>1, Zenon DEF ClientInv, ClientOK
    <3> QED
      BY <3>3, <3>4, <3>5, <3>6, Zenon DEF CommandInv
  <2> QED
    BY <2>1, <2>2
<1>4. CASE HandleRead
  <2>1. CASE ServiceEnds /\ outcome' = outcome
    BY <1>2, <2>1
  <2>2. CASE /\ client[conn] \in {"sent", "goneSent"}
             /\ \E a \in Execute(request[conn]) :
                  response' = a /\ outcome' = [outcome EXCEPT ![conn] = Append(@, a)]
             /\ service' = "write"
             /\ UNCHANGED <<clientVars, backlog, conn, files>>
    <3>1. PICK a \in Execute(request[conn]) : response' = a /\ outcome' = [outcome EXCEPT ![conn] = Append(@, a)]
      BY <2>2
    <3>2. service = "read" /\ conn \in Clients /\ outcome[conn] = <<>> /\ client[conn] \in Waiting
      BY <1>0, <1>4 DEF HandleRead, ServedInv
    <3>3. RequestValid(request[conn])
      BY <1>0, <3>2 DEF ClientInv, ClientOK
    <3>4. Fits(a, request[conn])
      BY <3>1, <3>3, ExecutedFits, Zenon
    <3>5. /\ outcome'[conn] = <<a>> /\ \A d \in Clients : d # conn => outcome'[d] = outcome[d]
          /\ outcome' = [d \in Clients |-> outcome'[d]]
      <4>1. Append(outcome[conn], a) = <<a>>
        BY <3>2
      <4> QED
        BY <1>0, <3>1, <3>2, <4>1, Zenon
    <3>6. /\ client' = client /\ request' = request /\ answer' = answer /\ backlog' = backlog /\ conn' = conn
          /\ service' = "write"
      BY <2>2 DEF clientVars
    <3>7. ServiceTypes'
      BY <1>0, <3>5, <3>6, Zenon DEF ServiceTypes
    <3>8. QueueInv'
      <4>1. \A i \in DOMAIN backlog : backlog[i] # conn
        BY <1>1, <3>2
      <4>2. \A i \in DOMAIN backlog : outcome'[backlog[i]] = <<>>
        BY <1>1, <3>5, <4>1, Zenon
      <4> QED
        BY <1>1, <3>6, <4>1, <4>2, Zenon DEF QueueInv
    <3>9. ServedInv'
      BY <2>2, <3>1, <3>2, <3>4, <3>5, <3>6 DEF ServedInv
    <3>10. ClientInv'
      <4>1. ClientOK(conn)'
        BY <2>2, <3>3, <3>5, <3>6 DEF ClientOK
      <4>2. ASSUME NEW d \in Clients, d # conn
            PROVE  ClientOK(d)'
        <5>1. ClientOK(d) /\ outcome'[d] = outcome[d]
          BY <1>0, <3>5, <4>2, Zenon DEF ClientInv
        <5> QED
          BY <3>6, <5>1 DEF ClientOK
      <4> QED
        BY <3>6, <4>1, <4>2, Zenon DEF ClientInv
    <3> QED
      BY <3>7, <3>8, <3>9, <3>10, Zenon DEF CommandInv
  <2> QED
    BY <1>4, <2>1, <2>2 DEF HandleRead
<1>5. CASE HandleWrite
  <2>0. /\ service = "write" /\ conn \in Clients /\ outcome[conn] = <<response>> /\ Fits(response, request[conn])
        /\ \A i \in DOMAIN backlog : backlog[i] # conn
    BY <1>0, <1>1, <1>5 DEF HandleWrite, ServedInv
  <2>1. CASE ServiceEnds
    BY <1>2, <1>5, <2>1 DEF HandleWrite
  <2>2. CASE client[conn] = "goneSent" /\ NextConnection /\ Dropped({conn}) /\ UNCHANGED <<request, answer, calls>>
    <3>1. /\ service' = "accept" /\ backlog' = backlog /\ request' = request /\ answer' = answer /\ outcome' = outcome
      BY <1>5, <2>2 DEF HandleWrite, NextConnection
    <3>2. PICK x : x = conn
      OBVIOUS
    <3>3. Dropped({x})
      BY <2>2, <3>2 DEF Dropped
    <3>4. client' \in [Clients -> States] /\ ClientInv' /\ \A c \in Clients : c # x => client'[c] = client[c]
      BY <3>1, <3>3, DroppedKeeps
    <3>5. ServiceTypes'
      BY <1>0, <3>1, <3>4, Zenon DEF ServiceTypes
    <3>6. \A i \in DOMAIN backlog : client'[backlog[i]] \in Waiting /\ outcome'[backlog[i]] = <<>>
      BY <1>1, <2>0, <3>1, <3>2, <3>4, Zenon
    <3> QED
      BY <1>0, <1>1, <3>1, <3>4, <3>5, <3>6, ServiceAccepts
  <2>3. CASE /\ client[conn] = "sent" /\ NextConnection
             /\ client' = [client EXCEPT ![conn] = "answered"]
             /\ answer' = [answer EXCEPT ![conn] = response]
             /\ UNCHANGED <<request, calls>>
    <3>1. service' = "accept" /\ backlog' = backlog /\ request' = request /\ outcome' = outcome
      BY <1>5, <2>3 DEF HandleWrite, NextConnection
    <3>2. /\ client' \in [Clients -> States] /\ client'[conn] = "answered" /\ answer'[conn] = response
          /\ \A d \in Clients : d # conn => client'[d] = client[d] /\ answer'[d] = answer[d]
          /\ answer' = [d \in Clients |-> answer'[d]]
      <4>1. "answered" \in States
        BY DEF States
      <4> QED
        BY <1>0, <2>0, <2>3, <4>1, Zenon
    <3>3. ServiceTypes'
      BY <1>0, <3>1, <3>2, Zenon DEF ServiceTypes
    <3>4. \A i \in DOMAIN backlog : client'[backlog[i]] \in Waiting /\ outcome'[backlog[i]] = <<>>
      BY <1>1, <2>0, <3>1, <3>2, Zenon
    <3>5. ClientInv'
      <4>1. ASSUME NEW d \in Clients, d # conn
            PROVE  ClientOK(d)'
        <5>1. ClientOK(d) /\ client'[d] = client[d] /\ answer'[d] = answer[d]
          BY <1>0, <3>2, <4>1, Zenon DEF ClientInv
        <5> QED
          BY <3>1, <5>1 DEF ClientOK
      <4>2. \A d \in Clients : ClientOK(d)'
        <5> TAKE d \in Clients
        <5>1. CASE d = conn
          BY <2>0, <3>1, <3>2, <5>1 DEF ClientOK, Waiting
        <5> QED
          BY <4>1, <5>1
      <4> QED
        BY <4>2, Zenon DEF ClientInv
    <3> QED
      BY <1>0, <1>1, <3>1, <3>3, <3>4, <3>5, ServiceAccepts
  <2> QED
    BY <1>5, <2>1, <2>2, <2>3 DEF HandleWrite
<1> QED
  BY <1>3, <1>4, <1>5 DEF ServiceStep

----------------------------------------------------------------------------
(* The daemon                                                              *)

\* Nobody is connected at first.
LEMMA CommandInitOK == CommandInit => CommandInv
<1> SUFFICES ASSUME CommandInit PROVE CommandInv
  OBVIOUS
<1>1. /\ client = [c \in Clients |-> "idle"] /\ request = [c \in Clients |-> NoRequest]
      /\ answer = [c \in Clients |-> NoResponse] /\ outcome = [c \in Clients |-> <<>>]
      /\ service = "down" /\ backlog = <<>>
  BY DEF CommandInit
<1>2. ServiceTypes
  BY <1>1 DEF ServiceTypes, States
<1>3. QueueInv /\ ServedInv
  BY <1>1 DEF QueueInv, ServedInv
<1>4. ClientInv
  BY <1>1 DEF ClientInv, ClientOK, Waiting
<1> QED
  BY <1>2, <1>3, <1>4, Zenon DEF CommandInv

\* The end of a process ends the service and every connection.
LEMMA StopKeeps ==
  ASSUME CommandInv, StopService
  PROVE  CommandInv'
<1> DEFINE S == {c \in Clients : client[c] \in {"connected", "sent", "gone", "goneSent"}}
<1>1. PICK T : T = S
  OBVIOUS
<1>2. Dropped(T) /\ UNCHANGED <<request, answer, outcome>> /\ service' = "down" /\ backlog' = <<>>
  BY <1>1 DEF StopService, Dropped
<1> QED
  BY <1>2, ServiceEnded

\* Every step of the daemon, its service and its clients keeps the invariant.
LEMMA DaemonKeeps ==
  ASSUME CommandInv, [Next]_allVars
  PROVE  CommandInv'
<1>1. ASSUME UNCHANGED <<clientVars, outcome, backlog, conn, response>>, service' = service \/ service' \in {"accept", "down"}
      PROVE  CommandInv'
  <2>1. /\ client' = client /\ request' = request /\ answer' = answer /\ outcome' = outcome /\ backlog' = backlog
        /\ conn' = conn /\ response' = response
    BY <1>1 DEF clientVars
  <2>2. ServiceTypes'
    BY <2>1, Zenon DEF CommandInv, ServiceTypes
  <2>3. QueueInv'
    BY <1>1, <2>1 DEF CommandInv, QueueInv
  <2>4. ServedInv'
    BY <1>1, <2>1 DEF CommandInv, ServedInv
  <2>5. ClientInv'
    BY <2>1, Zenon DEF CommandInv, ClientInv, ClientOK
  <2> QED
    BY <2>2, <2>3, <2>4, <2>5, Zenon DEF CommandInv
<1>2. UNCHANGED commandVars => CommandInv'
  BY <1>1 DEF commandVars, serviceVars, clientVars
<1>3. ProcessEnds => CommandInv'
  BY StopKeeps DEF ProcessEnds
<1>4. CASE MainStep
  <2>1. ReadOptions => UNCHANGED commandVars \/ ProcessEnds
    BY DEF ReadOptions, commandVars
  <2>2. InitStep \/ CheckStartup \/ StartEngines \/ WriteReadyFile \/ Suspend \/ HandleReason \/ StopEngines
          => UNCHANGED commandVars
    BY DEF InitStep, CheckStartup, StartEngines, WriteReadyFile, Suspend, HandleReason, StopEngines
  <2>3. SpawnService => CommandInv'
    BY <1>1 DEF SpawnService, StartService
  <2>4. Exit => ProcessEnds
    BY DEF Exit
  <2> QED
    BY <1>2, <1>3, <1>4, <2>1, <2>2, <2>3, <2>4, Zenon DEF MainStep
<1>5. CASE CommandStep
  BY <1>5, ClientKeeps, ServiceKeeps, Zenon DEF CommandStep, Serve
<1>6. CASE Launch
  BY <1>2, <1>6 DEF Launch
<1>7. CASE Kill
  BY <1>3, <1>7 DEF Kill
<1>8. CASE \E s \in Signals : Signal(s)
  BY <1>2, <1>8 DEF Signal
<1>9. CASE UNCHANGED allVars
  BY <1>2, <1>9 DEF allVars
<1> QED
  BY <1>4, <1>5, <1>6, <1>7, <1>8, <1>9 DEF Next

\* A client prints the answer to its own request, whoever else connects, is interrupted or is
\* served in between, and however often the daemon is killed and started again
\* (handle_accept(), handle_read(), handle_write(), the client's main()).
THEOREM AnswersAreOwn == Spec => []AnswerIsOwn
<1>1. Init => CommandInv
  BY CommandInitOK DEF Init
<1>2. CommandInv /\ [Next]_allVars => CommandInv'
  BY DaemonKeeps, Zenon
<1>3. CommandInv => AnswerIsOwn
  <2> SUFFICES ASSUME CommandInv, NEW c \in Clients
               PROVE  /\ Len(outcome[c]) <= 1
                      /\ client[c] = "answered" => outcome[c] = <<answer[c]>> /\ Fits(answer[c], request[c])
    BY Zenon DEF AnswerIsOwn, Fits
  <2>1. ClientOK(c)
    BY Zenon DEF CommandInv, ClientInv
  <2>2. CASE outcome[c] = <<>>
    BY <2>1, <2>2 DEF ClientOK
  <2>3. CASE \E a : outcome[c] = <<a>>
    BY <2>1, <2>3 DEF ClientOK
  <2> QED
    BY <2>1, <2>2, <2>3 DEF ClientOK
<1> QED
  BY <1>1, <1>2, <1>3, PTL DEF Spec

=============================================================================
