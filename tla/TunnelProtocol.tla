--------------------------- MODULE TunnelProtocol ---------------------------
(***************************************************************************)
(* The tunnel negotiation of mqtt-tunnel over the shared MQTT control      *)
(* topic: one server process, any number of client processes, the broker  *)
(* between them.  The server side is StartRemote/handleControl             *)
(* (tunnel/mqtunnel.go) with the Tunnel objects it creates                 *)
(* (tunnel/tunnel.go, tunnel/tcp.go); the client side is StartStdio with   *)
(* its single Tunnel; both share the router filter of tunnel/mqtt.go.      *)
(*                                                                         *)
(* A client is named by the tunnel ID it draws with randStr(6): IDs of     *)
(* different clients are taken to be different.  The server's Tunnel       *)
(* objects are numbered in the order they are created, and so are the two  *)
(* random data topics of each.  Payload bytes are not modelled here.       *)
(*                                                                         *)
(* An operator written just before another one of the same parameters and  *)
(* used nowhere is a faulty variant of it: PROJECT.json names, for every   *)
(* property, the variant with which TLC finds the property violated.       *)
(***************************************************************************)
EXTENDS Naturals, Sequences, FiniteSets, SequencesExt

CONSTANTS
    Clients,        \* tunnel IDs drawn by running clients
    HandIDs,        \* tunnel IDs of requests published by hand (mosquitto_pub)
    BadIDs,         \* those of HandIDs that validateTunnelID refuses
    OldClients,     \* clients built with another ProtocolVersion
    Server,         \* the server process
    NoID,           \* the ID of a Tunnel object not created yet
    MaxTunnels,     \* bound: Tunnel objects the server creates
    ControlCap,     \* capacity of controlCh (100 in the code)
    ClosedCap,      \* capacity of tunnelClosedCh (10 in the code)
    MaxHand,        \* bound: requests published by hand
    MaxRedeliver,   \* bound: QoS 1 packets the broker delivers twice
    MaxLinkLoss,    \* bound: losses of the server's MQTT connection
    Faults          \* failures that may happen: "dial", "subscribe", "qos0"

IDs     == Clients \cup HandIDs
Nodes   == Clients \cup {Server}
Tunnels == 1..MaxTunnels
NoTunnel == 0

ASSUME ServerAssumption == Server \notin Clients /\ NoID \notin IDs
ASSUME IDAssumption ==
    /\ HandIDs \cap Clients = {}
    /\ BadIDs \subseteq HandIDs
    /\ OldClients \subseteq Clients
ASSUME BoundAssumption ==
    /\ MaxTunnels \in Nat
    /\ ControlCap \in Nat \ {0}
    /\ ClosedCap \in Nat \ {0}
    /\ MaxHand \in Nat
    /\ MaxRedeliver \in Nat
    /\ MaxLinkLoss \in Nat
ASSUME FaultAssumption == Faults \subseteq {"dial", "subscribe", "qos0"}

(***************************************************************************)
(* Data topics.  Server tunnel t subscribes to Topic(t, "server") (its     *)
(* Tunnel.ServerPubTopic field) and publishes to Topic(t, "client") (its   *)
(* Tunnel.ClientPubTopic field); createAck swaps the two for the client.   *)
(***************************************************************************)
Topic(t, side) == <<t, side>>
NoTopic == Topic(NoTunnel, "none")
Topics  == (0..MaxTunnels) \X {"none", "client", "server"}

ClientPubTopic(t) == Topic(t, "client")
ServerPubTopic(t) == Topic(t, "server")

(***************************************************************************)
(* Control packets.                                                        *)
(***************************************************************************)
ProtocolVersion == 3
Version(id) == IF id \in OldClients THEN ProtocolVersion - 1 ELSE ProtocolVersion

PacketTypes == {"connect", "connect_ack", "connect_confirm", "failure", "closed"}
Reasons     == {"", "invalid_id", "id_in_use", "version"}

controlPacket ==
    [type : PacketTypes, id : IDs, origin : {"client", "server"}, version : Nat,
     clientPub : Topics, serverPub : Topics, reason : Reasons]

Bare(type, id, origin) ==
    [type |-> type, id |-> id, origin |-> origin, version |-> 0,
     clientPub |-> NoTopic, serverPub |-> NoTopic, reason |-> ""]

createConnectRequest(id) == [Bare("connect", id, "client") EXCEPT !.version = Version(id)]

createAckUnswapped(id, t) == [Bare("connect_ack", id, "server") EXCEPT
                                 !.clientPub = ClientPubTopic(t),
                                 !.serverPub = ServerPubTopic(t)]
createAck(id, t) == [Bare("connect_ack", id, "server") EXCEPT
                        !.clientPub = ServerPubTopic(t),
                        !.serverPub = ClientPubTopic(t)]

createConnectConfirm(id) == Bare("connect_confirm", id, "client")

createConnectionClosed(id, origin) == Bare("closed", id, origin)

createFailure(id, reason) == [Bare("failure", id, "server") EXCEPT !.reason = reason]

-----------------------------------------------------------------------------
VARIABLES
    inbox,            \* node -> control packets the broker has yet to hand over
    controlCh,        \* node -> packets that passed the router's filter
    delivered,        \* node -> QoS 1 packets the broker may hand over again
    spent,            \* how often each bounded event happened
    link,             \* the server's MQTT connection: "up" or "down"
    stored,           \* QoS 1 packets the server published while it was down
    lostSignals,      \* onMqttConnectionLost callbacks that have not run yet
    spc,              \* where the server's main loop is
    cur,              \* the tunnel that handleControl is working on
    pendingConfirms,  \* ID -> tunnel waiting for connect_confirm
    connected,        \* ID -> tunnel in the connected map
    tunnelClosedCh,   \* IDs whose data loop ended
    droppedSignals,   \* history: IDs safeSend dropped because the channel was full
    confirmTimers,    \* tunnels whose confirmTimeout goroutine has not fired
    tunnelTopics,     \* tunnels whose topic the server has in tunnelTopics
    made,             \* number of Tunnel objects the server has created
    tun,              \* the server's Tunnel objects
    client            \* the client processes

netVars    == <<inbox, controlCh>>
envVars    == <<delivered, spent>>
linkVars   == <<link, stored, lostSignals>>
mainVars   == <<spc, cur>>
mapVars    == <<pendingConfirms, connected>>
signalVars == <<tunnelClosedCh, droppedSignals>>
tunnelVars == <<made, tun>>
serverVars == <<mainVars, mapVars, signalVars, confirmTimers, tunnelTopics, tunnelVars>>
vars       == <<netVars, envVars, linkVars, serverVars, client>>

Limit == [hand |-> MaxHand, redeliver |-> MaxRedeliver, loss |-> MaxLinkLoss]
Spend(kind) == spent[kind] < Limit[kind] /\ spent' = [spent EXCEPT ![kind] = @ + 1]

\* A Tunnel of the server with its TCP connection (none, open, ended by the
\* target, closed), its handleRead and its mainLoop goroutine.
ServerTunnel ==
    [id : IDs \cup {NoID}, conn : {"none", "open", "eof", "closed"},
     reader : {"off", "run", "done"}, loop : {"off", "run", "unsub", "done"},
     closedByRemote : BOOLEAN]
Unmade == [id |-> NoID, conn |-> "none", reader |-> "off", loop |-> "off", closedByRemote |-> FALSE]

\* A client: progress of StartStdio, topics of its Tunnel (sub: subscribed),
\* whether its stdin reader closed publishCh, its mainLoop goroutine, whether
\* the server told it of the close, whether tunnelDoneCh holds a signal.
ClientProcess ==
    [state : {"init", "opening", "waiting", "confirming", "connected", "failed", "closed", "exited"},
     pub : Topics, sub : Topics, eof : BOOLEAN, loop : {"off", "run", "done"},
     closedByRemote : BOOLEAN, done : BOOLEAN]

PacketsTyped ==
    /\ inbox \in [Nodes -> Seq(controlPacket)]
    /\ controlCh \in [Nodes -> Seq(controlPacket)]
    /\ delivered \in [Nodes -> SUBSET controlPacket]
    /\ stored \in Seq(controlPacket)
LinkTyped ==
    /\ spent \in [hand : Nat, redeliver : Nat, loss : Nat]
    /\ link \in {"up", "down"}
    /\ lostSignals \in Nat
ServerTyped ==
    /\ spc \in {"select", "ackwait", "dial", "register"}
    /\ cur \in 0..made
    /\ cur # NoTunnel <=> spc # "select"
    /\ pendingConfirms \in [IDs -> 0..made]
    /\ connected \in [IDs -> 0..made]
    /\ tunnelClosedCh \in Seq(IDs)
    /\ droppedSignals \subseteq IDs
    /\ confirmTimers \subseteq 1..made
    /\ tunnelTopics \subseteq 1..made
    /\ made \in 0..MaxTunnels
    /\ tun \in [Tunnels -> ServerTunnel]
    /\ \A t \in Tunnels : IF t <= made THEN tun[t].id \in IDs ELSE tun[t] = Unmade
TypeOK == PacketsTyped /\ LinkTyped /\ ServerTyped /\ client \in [Clients -> ClientProcess]

Init ==
    /\ inbox = [n \in Nodes |-> <<>>]
    /\ controlCh = [n \in Nodes |-> <<>>]
    /\ delivered = [n \in Nodes |-> {}]
    /\ spent = [hand |-> 0, redeliver |-> 0, loss |-> 0]
    /\ link = "up" /\ stored = <<>> /\ lostSignals = 0
    /\ spc = "select" /\ cur = NoTunnel
    /\ pendingConfirms = [id \in IDs |-> NoTunnel]
    /\ connected = [id \in IDs |-> NoTunnel]
    /\ tunnelClosedCh = <<>> /\ droppedSignals = {}
    /\ confirmTimers = {} /\ tunnelTopics = {}
    /\ made = 0
    /\ tun = [t \in Tunnels |-> Unmade]
    /\ client = [c \in Clients |-> [state |-> "init", pub |-> NoTopic, sub |-> NoTopic, eof |-> FALSE,
                                    loop |-> "off", closedByRemote |-> FALSE, done |-> FALSE]]

-----------------------------------------------------------------------------
(***************************************************************************)
(* The broker.  Every process receives every control packet; the filter of *)
(* controlPacketReceived first drops packets of the wrong type or origin   *)
(* and, in a client, of another tunnel.  Those drops depend on the packet  *)
(* alone and change no state, so a packet is put only in the inbox of the  *)
(* node it survives at: packets of origin "client" at the server, packets  *)
(* of origin "server" at the client with that ID (nowhere, for an ID made  *)
(* up by hand).  The rest of the filter reads the maps and is in the       *)
(* receive actions.                                                        *)
(***************************************************************************)
Receivers(m) ==
    IF m.origin = "client" THEN {Server}
    ELSE {c \in Clients : c = m.id /\ client[c].state # "exited"}

\* With a clean session the broker keeps nothing for a server that is away.
Publish(m) ==
    inbox' = [n \in Nodes |-> IF link = "up" /\ n \in Receivers(m)
                              THEN Append(inbox[n], m) ELSE inbox[n]]

\* "closed" packets are published with QoS 0: they may be lost.
PublishQoS0(m) ==
    \/ Publish(m)
    \/ "qos0" \in Faults /\ UNCHANGED inbox

\* paho keeps a QoS 1 publish made while it reconnects and sends it later.
ServerPublish(m) ==
    IF link = "up" THEN Publish(m) /\ UNCHANGED stored
                   ELSE stored' = Append(stored, m) /\ UNCHANGED inbox

\* QoS 1 is at-least-once: a packet other than "closed" may be handed over
\* again, at any later time of the same session.
HandOver(n) ==
    /\ inbox' = [inbox EXCEPT ![n] = Tail(@)]
    /\ delivered' = IF spent.redeliver < MaxRedeliver /\ Head(inbox[n]).type # "closed"
                    THEN [delivered EXCEPT ![n] = @ \cup {Head(inbox[n])}] ELSE delivered

Redeliver(n) ==
    /\ Spend("redeliver")
    /\ \E m \in delivered[n] : inbox' = [inbox EXCEPT ![n] = Append(@, m)]
    /\ UNCHANGED <<controlCh, delivered, linkVars, serverVars, client>>

\* A request typed by hand with mosquitto_pub, as in README_TESTING.md.
HandRequest(id) ==
    /\ Spend("hand")
    /\ Publish(createConnectRequest(id))
    /\ UNCHANGED <<controlCh, delivered, linkVars, serverVars, client>>

-----------------------------------------------------------------------------
(***************************************************************************)
(* The client process: StartStdio, its Tunnel and its stdin reader.        *)
(*   init        not started                                               *)
(*   opening     openRequest waits for the PUBACK of its connect           *)
(*   waiting     in ackWaiting, main loop in select                        *)
(*   confirming  in ackWaiting, main loop waits for the PUBACK of confirm  *)
(*   connected   in connected, main loop in select                         *)
(*   failed      in neither map after a failure packet, in select          *)
(*   closed      in neither map after a closed packet, in select           *)
(*   exited      the process is gone                                       *)
(***************************************************************************)
AckWaiting(c)   == client[c].state \in {"waiting", "confirming"}
ClientSelect(c) == client[c].state \in {"waiting", "connected", "failed", "closed"}
Running(c)      == client[c].state \notin {"init", "exited"}

\* The filter: a client knows its own tunnel from ackWaiting or connected.
TunnelKnownLate(c) == client[c].state \in {"waiting", "connected"}
TunnelKnown(c) == AckWaiting(c) \/ client[c].state = "connected"

\* os.Exit or return from main: what was queued for the process is gone.
Exit(c) ==
    /\ client' = [client EXCEPT ![c].state = "exited"]
    /\ inbox' = [inbox EXCEPT ![c] = <<>>]
    /\ controlCh' = [controlCh EXCEPT ![c] = <<>>]
    /\ delivered' = [delivered EXCEPT ![c] = {}]
    /\ UNCHANGED <<spent, linkVars, serverVars>>

\* localCh: NewTunnelFromConnect starts the stdin reader, openRequest
\* publishes the connect request and waits for its PUBACK.
C_Open(c) ==
    /\ client[c].state = "init"
    /\ client' = [client EXCEPT ![c].state = "opening"]
    /\ Publish(createConnectRequest(c))
    /\ UNCHANGED <<controlCh, envVars, linkVars, serverVars>>

\* The PUBACK came: only now does the tunnel enter ackWaiting.
C_Register(c) ==
    /\ client[c].state = "opening"
    /\ client' = [client EXCEPT ![c].state = "waiting"]
    /\ UNCHANGED <<netVars, envVars, linkVars, serverVars>>

\* The router hands a packet to the main loop or drops it.
C_Receive(c) ==
    /\ inbox[c] # <<>>
    /\ \/ /\ TunnelKnown(c)
          /\ Len(controlCh[c]) < ControlCap
          /\ controlCh' = [controlCh EXCEPT ![c] = Append(@, Head(inbox[c]))]
       \/ ~TunnelKnown(c) /\ UNCHANGED controlCh
    /\ HandOver(c)
    /\ UNCHANGED <<spent, linkVars, serverVars, client>>

\* The main loop, in select, takes a packet of the given type.
C_Take(c, type) ==
    /\ ClientSelect(c)
    /\ controlCh[c] # <<>>
    /\ Head(controlCh[c]).type = type

Consume(n) == controlCh' = [controlCh EXCEPT ![n] = Tail(@)]

\* The client takes over the topics of the ack and subscribes.
TakeUnsubscribed(c, m) == [client EXCEPT ![c].pub = m.clientPub, ![c].state = "confirming"]
TakeTopics(c, m) == [client EXCEPT ![c].pub = m.clientPub, ![c].sub = m.serverPub,
                                   ![c].state = "confirming"]

\* connect_ack: take over the topics, subscribe, publish connect_confirm.
C_HandleAck(c) ==
    /\ C_Take(c, "connect_ack")
    /\ AckWaiting(c)
    /\ Consume(c)
    /\ client' = TakeTopics(c, Head(controlCh[c]))
    /\ Publish(createConnectConfirm(c))
    /\ UNCHANGED <<envVars, linkVars, serverVars>>

\* connect_ack, but the subscription fails: still in ackWaiting.
C_SubscribeFails(c) ==
    /\ "subscribe" \in Faults
    /\ C_Take(c, "connect_ack")
    /\ AckWaiting(c)
    /\ Consume(c)
    /\ client' = [client EXCEPT ![c].pub = Head(controlCh[c]).clientPub]
    /\ UNCHANGED <<inbox, envVars, linkVars, serverVars>>

\* connect_ack for a tunnel that waits for none (a second delivery).
C_IgnoreAckLate(c) ==
    /\ C_Take(c, "connect_ack")
    /\ ~AckWaiting(c)
    /\ Consume(c)
    /\ client' = [client EXCEPT ![c].pub = Head(controlCh[c]).clientPub]
    /\ UNCHANGED <<inbox, envVars, linkVars, serverVars>>
C_IgnoreAck(c) ==
    /\ C_Take(c, "connect_ack")
    /\ ~AckWaiting(c)
    /\ Consume(c)
    /\ UNCHANGED <<inbox, envVars, linkVars, serverVars, client>>

\* The PUBACK of connect_confirm came: start mainLoop, move to connected.
C_Confirmed(c) ==
    /\ client[c].state = "confirming"
    /\ client' = [client EXCEPT ![c].state = "connected", ![c].loop = "run"]
    /\ UNCHANGED <<netVars, envVars, linkVars, serverVars>>

\* failure: only two of the three reasons end the process.
FatalReason(m) == m.reason \in {"invalid_id", "id_in_use"}

C_FatalFailure(c) ==
    /\ C_Take(c, "failure")
    /\ FatalReason(Head(controlCh[c]))
    /\ Exit(c)

C_OtherFailure(c) ==
    /\ C_Take(c, "failure")
    /\ ~FatalReason(Head(controlCh[c]))
    /\ Consume(c)
    /\ client' = [client EXCEPT ![c].state = IF AckWaiting(c) THEN "failed" ELSE @]
    /\ UNCHANGED <<inbox, envVars, linkVars, serverVars>>

\* closed: forget the tunnel if connected, signal tunnelDoneCh in any case.
C_HandleClosed(c) ==
    /\ C_Take(c, "closed")
    /\ Consume(c)
    /\ LET known == client[c].state = "connected" IN
          client' = [client EXCEPT ![c].state = IF known THEN "closed" ELSE @,
                                   ![c].closedByRemote = IF known THEN TRUE ELSE @,
                                   ![c].done = TRUE]
    /\ UNCHANGED <<inbox, envVars, linkVars, serverVars>>

\* ConnectionTimeout passed and the tunnel is still in ackWaiting.
C_TimeoutAfterAck(c) == client[c].state = "confirming" /\ Exit(c)
C_Timeout(c) == AckWaiting(c) /\ Exit(c)

\* tunnelDoneCh: StartStdio returns.
C_DoneByRemote(c) == ClientSelect(c) /\ client[c].closedByRemote /\ Exit(c)
C_Done(c) == ClientSelect(c) /\ client[c].done /\ Exit(c)

\* The client's MQTT connection is lost: onMqttConnectionLost exits.
C_ConnectionLost(c) == Running(c) /\ Exit(c)

\* End of stdin: handleRead closes publishCh.
C_StdinEof(c) ==
    /\ Running(c)
    /\ ~client[c].eof
    /\ client' = [client EXCEPT ![c].eof = TRUE]
    /\ UNCHANGED <<netVars, envVars, linkVars, serverVars>>

\* mainLoop finds publishCh closed: tell the server, unless it told us.
C_LoopEnds(c) ==
    /\ Running(c)
    /\ client[c].loop = "run"
    /\ client[c].eof
    /\ IF client[c].closedByRemote THEN UNCHANGED inbox
                                   ELSE PublishQoS0(createConnectionClosed(c, "client"))
    /\ client' = [client EXCEPT ![c].done = TRUE, ![c].loop = "done"]
    /\ UNCHANGED <<controlCh, envVars, linkVars, serverVars>>

ClientMain(c) ==
    \/ C_Register(c)
    \/ C_HandleAck(c) \/ C_SubscribeFails(c) \/ C_IgnoreAck(c) \/ C_Confirmed(c)
    \/ C_FatalFailure(c) \/ C_OtherFailure(c) \/ C_HandleClosed(c)
    \/ C_Done(c)

-----------------------------------------------------------------------------
(***************************************************************************)
(* The server process: StartRemote and handleControl.                      *)
(*   select    the main loop is in its select                              *)
(*   ackwait   setupRemoteTunnel waits for the PUBACK of connect_ack       *)
(*   dial      StartConfirmedTunnel dials the target                       *)
(*   register  the data loop runs, the connected map is not yet updated    *)
(***************************************************************************)
Pending(id)   == pendingConfirms[id] # NoTunnel
Connected(id) == connected[id] # NoTunnel
InUse(id)     == Pending(id) \/ Connected(id)

\* The filter: confirm and closed must be for a tunnel in the maps.
ServerKnows(m) ==
    CASE m.type = "connect_confirm" -> Pending(m.id)
      [] m.type = "closed"          -> InUse(m.id)
      [] OTHER                      -> TRUE

S_Receive ==
    /\ inbox[Server] # <<>>
    /\ ServerKnows(Head(inbox[Server]))
    /\ Len(controlCh[Server]) < ControlCap
    /\ controlCh' = [controlCh EXCEPT ![Server] = Append(@, Head(inbox[Server]))]
    /\ HandOver(Server)
    /\ UNCHANGED <<spent, linkVars, serverVars, client>>

S_DropPacket ==
    /\ inbox[Server] # <<>>
    /\ ~ServerKnows(Head(inbox[Server]))
    /\ HandOver(Server)
    /\ UNCHANGED <<controlCh, spent, linkVars, serverVars, client>>

\* The main loop, in select, takes a packet of the given type.
S_Take(type) ==
    /\ spc = "select"
    /\ controlCh[Server] # <<>>
    /\ Head(controlCh[Server]).type = type
    /\ Consume(Server)

\* handleControl goes on, or returns to the select.
Work(pc, t) == spc' = pc /\ cur' = t
ReturnKeepsCur == Work("select", cur)
Return == Work("select", NoTunnel)

\* The tunnel leaves pendingConfirms.
ForgetNothing(id) == UNCHANGED pendingConfirms
Forget(id) == pendingConfirms' = [pendingConfirms EXCEPT ![id] = NoTunnel]

\* Checks of a connect request, in the order of handleControl.
RefusalReusesID(m) ==
    CASE m.id \in BadIDs              -> "invalid_id"
      [] m.version # ProtocolVersion  -> "version"
      [] OTHER                        -> ""
Refusal(m) ==
    CASE m.id \in BadIDs              -> "invalid_id"
      [] InUse(m.id)                  -> "id_in_use"
      [] m.version # ProtocolVersion  -> "version"
      [] OTHER                        -> ""

S_RejectConnect ==
    /\ S_Take("connect")
    /\ LET m == Head(controlCh[Server]) IN
          /\ Refusal(m) # ""
          /\ ServerPublish(createFailure(m.id, Refusal(m)))
    /\ UNCHANGED <<envVars, link, lostSignals, serverVars, client>>

\* NewTunnelFromControl with the next pair of topics; the topic is put in
\* tunnelTopics before the subscription is attempted.
NewTunnel(m) ==
    /\ Refusal(m) = ""
    /\ made < MaxTunnels
    /\ made' = made + 1
    /\ tun' = [tun EXCEPT ![made + 1].id = m.id]
    /\ tunnelTopics' = tunnelTopics \cup {made + 1}

\* setupRemoteTunnel: subscribe, publish connect_ack, wait for its PUBACK.
S_AcceptConnect ==
    /\ S_Take("connect")
    /\ link = "up"
    /\ LET m == Head(controlCh[Server]) IN
          /\ NewTunnel(m)
          /\ Publish(createAck(m.id, made + 1))
    /\ Work("ackwait", made + 1)
    /\ UNCHANGED <<envVars, linkVars, mapVars, signalVars, confirmTimers, client>>

\* The subscription fails (always, while the connection is down): the tunnel
\* is forgotten but its topic stays in tunnelTopics.
S_SubscribeFails ==
    /\ S_Take("connect")
    /\ link = "down" \/ "subscribe" \in Faults
    /\ NewTunnel(Head(controlCh[Server]))
    /\ UNCHANGED <<inbox, envVars, linkVars, mainVars, mapVars, signalVars, confirmTimers, client>>

\* The PUBACK came: only now is the tunnel put in pendingConfirms.
S_AckSent ==
    /\ spc = "ackwait"
    /\ link = "up"
    /\ pendingConfirms' = [pendingConfirms EXCEPT ![tun[cur].id] = cur]
    /\ confirmTimers' = confirmTimers \cup {cur}
    /\ Return
    /\ UNCHANGED <<netVars, envVars, linkVars, connected, signalVars, tunnelTopics, tunnelVars, client>>

\* connect_confirm: out of pendingConfirms, then dial.
S_HandleConfirm ==
    /\ S_Take("connect_confirm")
    /\ LET id == Head(controlCh[Server]).id IN
          IF Pending(id)
          THEN /\ Forget(id)
               /\ Work("dial", pendingConfirms[id])
          ELSE UNCHANGED <<pendingConfirms, mainVars>>
    /\ UNCHANGED <<inbox, envVars, linkVars, connected, signalVars, confirmTimers, tunnelTopics,
                   tunnelVars, client>>

\* net.Dial succeeds: the reader and the data loop start.
S_DialOk ==
    /\ spc = "dial"
    /\ tun' = [tun EXCEPT ![cur].conn = "open", ![cur].reader = "run", ![cur].loop = "run"]
    /\ Work("register", cur)
    /\ UNCHANGED <<netVars, envVars, linkVars, mapVars, signalVars, confirmTimers, tunnelTopics,
                   made, client>>

\* net.Dial fails: logged, nothing else.
S_DialFails ==
    /\ "dial" \in Faults
    /\ spc = "dial"
    /\ Return
    /\ UNCHANGED <<netVars, envVars, linkVars, mapVars, signalVars, confirmTimers, tunnelTopics,
                   tunnelVars, client>>

S_Register ==
    /\ spc = "register"
    /\ connected' = [connected EXCEPT ![tun[cur].id] = cur]
    /\ Return
    /\ UNCHANGED <<netVars, envVars, linkVars, pendingConfirms, signalVars, confirmTimers,
                   tunnelTopics, tunnelVars, client>>

\* "Explicitly close TCP connection to unblock handleRead and cleanup".
TeardownKeepsConn(t) == tun' = [tun EXCEPT ![t].closedByRemote = TRUE]
Teardown(t) == tun' = [tun EXCEPT ![t].closedByRemote = TRUE, ![t].conn = "closed"]

\* closed from the client: only a tunnel in connected is torn down.
S_HandleClosed ==
    /\ S_Take("closed")
    /\ LET id == Head(controlCh[Server]).id IN
          IF Connected(id)
          THEN connected' = [connected EXCEPT ![id] = NoTunnel] /\ Teardown(connected[id])
          ELSE UNCHANGED <<connected, tun>>
    /\ UNCHANGED <<inbox, envVars, linkVars, mainVars, pendingConfirms, signalVars, confirmTimers,
                   tunnelTopics, made, client>>

\* tunnelClosedCh: whatever tunnel has that ID leaves connected.
S_TunnelClosedAnytime ==
    /\ tunnelClosedCh # <<>>
    /\ connected' = [connected EXCEPT ![Head(tunnelClosedCh)] = NoTunnel]
    /\ tunnelClosedCh' = Tail(tunnelClosedCh)
    /\ UNCHANGED <<netVars, envVars, linkVars, mainVars, pendingConfirms, droppedSignals,
                   confirmTimers, tunnelTopics, tunnelVars, client>>
S_TunnelClosed ==
    /\ spc = "select"
    /\ tunnelClosedCh # <<>>
    /\ connected' = [connected EXCEPT ![Head(tunnelClosedCh)] = NoTunnel]
    /\ tunnelClosedCh' = Tail(tunnelClosedCh)
    /\ UNCHANGED <<netVars, envVars, linkVars, mainVars, pendingConfirms, droppedSignals,
                   confirmTimers, tunnelTopics, tunnelVars, client>>

\* unsubscribe removes the topics only if the connection is up.
UnsubscribeNothing(ts) == UNCHANGED tunnelTopics
Unsubscribe(ts) == tunnelTopics' = IF link = "up" THEN tunnelTopics \ ts ELSE tunnelTopics

\* The timer of tunnel t: whatever tunnel is pending under its ID goes.
S_ConfirmTimeout(t) ==
    /\ t \in confirmTimers
    /\ confirmTimers' = confirmTimers \ {t}
    /\ Forget(tun[t].id)
    /\ Unsubscribe({pendingConfirms[tun[t].id]})
    /\ UNCHANGED <<netVars, envVars, linkVars, mainVars, connected, signalVars, tunnelVars, client>>

-----------------------------------------------------------------------------
(***************************************************************************)
(* The goroutines of a server tunnel.                                      *)
(***************************************************************************)

\* The target (sshd) ends the TCP connection.
TargetCloses(t) ==
    /\ tun[t].conn = "open"
    /\ tun' = [tun EXCEPT ![t].conn = "eof"]
    /\ UNCHANGED <<netVars, envVars, linkVars, mainVars, mapVars, signalVars, confirmTimers,
                   tunnelTopics, made, client>>

\* handleRead gets EOF or the error of a closed connection: it closes
\* publishCh and the connection.
T_ReadEnds(t) ==
    /\ tun[t].reader = "run"
    /\ tun[t].conn \in {"eof", "closed"}
    /\ tun' = [tun EXCEPT ![t].reader = "done", ![t].conn = "closed"]
    /\ UNCHANGED <<netVars, envVars, linkVars, mainVars, mapVars, signalVars, confirmTimers,
                   tunnelTopics, made, client>>

\* safeSend on tunnelClosedCh.
SignalNothing(id) == UNCHANGED signalVars
SignalClosed(id) ==
    IF Len(tunnelClosedCh) < ClosedCap
    THEN tunnelClosedCh' = Append(tunnelClosedCh, id) /\ UNCHANGED droppedSignals
    ELSE droppedSignals' = droppedSignals \cup {id} /\ UNCHANGED tunnelClosedCh

\* mainLoop finds publishCh closed: tell the client unless it told us,
\* signal the main loop, leave.
T_LoopEnds(t) ==
    /\ tun[t].loop = "run"
    /\ tun[t].reader = "done"
    /\ IF tun[t].closedByRemote THEN UNCHANGED inbox
                                ELSE PublishQoS0(createConnectionClosed(tun[t].id, "server"))
    /\ SignalClosed(tun[t].id)
    /\ tun' = [tun EXCEPT ![t].loop = "unsub"]
    /\ UNCHANGED <<controlCh, envVars, linkVars, mainVars, mapVars, confirmTimers, tunnelTopics,
                   made, client>>

\* The deferred unsubscribe of mainLoop.
T_Unsubscribe(t) ==
    /\ tun[t].loop = "unsub"
    /\ tun' = [tun EXCEPT ![t].loop = "done"]
    /\ Unsubscribe({t})
    /\ UNCHANGED <<netVars, envVars, linkVars, mainVars, mapVars, signalVars, confirmTimers, made, client>>

-----------------------------------------------------------------------------
(***************************************************************************)
(* The server's MQTT connection.  paho reconnects by itself (AutoReconnect)*)
(* and runs onMqttConnectionLost and onConnect in goroutines of its own.   *)
(***************************************************************************)

\* With a clean session the broker forgets what it had not handed over.
LinkLost ==
    /\ link = "up"
    /\ Spend("loss")
    /\ link' = "down"
    /\ lostSignals' = lostSignals + 1
    /\ inbox' = [inbox EXCEPT ![Server] = <<>>]
    /\ delivered' = [delivered EXCEPT ![Server] = {}]
    /\ UNCHANGED <<controlCh, stored, serverVars, client>>

\* paho is connected again and onConnect has subscribed.
LinkUp ==
    /\ link = "down"
    /\ link' = "up"
    /\ UNCHANGED <<netVars, envVars, stored, lostSignals, serverVars, client>>

\* paho sends what it has stored.
Resume ==
    /\ link = "up"
    /\ stored # <<>>
    /\ Publish(Head(stored))
    /\ stored' = Tail(stored)
    /\ UNCHANGED <<controlCh, envVars, link, lostSignals, serverVars, client>>

\* The main loop sleeps in its select: a send on the unbuffered reconnectCh
\* finds a receiver.
Parked == spc = "select" /\ controlCh[Server] = <<>> /\ tunnelClosedCh = <<>>

\* closeAllTunnels: the maps are emptied; tun.cancel() cancels a context that
\* no goroutine of the tunnel watches.  Reconnect then returns at once,
\* because paho is connected or already reconnecting.
S_Reconnect ==
    /\ lostSignals > 0
    /\ Parked
    /\ lostSignals' = lostSignals - 1
    /\ connected' = [id \in IDs |-> NoTunnel]
    /\ pendingConfirms' = [id \in IDs |-> NoTunnel]
    /\ Unsubscribe({pendingConfirms[id] : id \in IDs})
    /\ UNCHANGED <<netVars, envVars, link, stored, mainVars, signalVars, confirmTimers, tunnelVars, client>>

\* The main loop is busy: the non-blocking send gives up.
SignalLost ==
    /\ lostSignals > 0
    /\ ~Parked
    /\ lostSignals' = lostSignals - 1
    /\ UNCHANGED <<netVars, envVars, link, stored, serverVars, client>>

-----------------------------------------------------------------------------
ServerMain ==
    \/ S_RejectConnect \/ S_AcceptConnect \/ S_SubscribeFails \/ S_AckSent
    \/ S_HandleConfirm \/ S_DialOk \/ S_DialFails \/ S_Register
    \/ S_HandleClosed \/ S_TunnelClosed

Callback == S_Reconnect \/ SignalLost

\* What no part of the program decides.
Environment ==
    \/ \E n \in Nodes : Redeliver(n)
    \/ \E id \in HandIDs : HandRequest(id)
    \/ \E c \in Clients : C_Open(c) \/ C_ConnectionLost(c) \/ C_StdinEof(c)
    \/ \E t \in Tunnels : TargetCloses(t)
    \/ LinkLost

Next ==
    \/ Environment
    \/ \E c \in Clients : C_Receive(c) \/ ClientMain(c) \/ C_Timeout(c) \/ C_LoopEnds(c)
    \/ S_Receive \/ S_DropPacket \/ ServerMain \/ Callback \/ LinkUp \/ Resume
    \/ \E t \in Tunnels : S_ConfirmTimeout(t) \/ T_ReadEnds(t) \/ T_LoopEnds(t) \/ T_Unsubscribe(t)

(***************************************************************************)
(* Goroutines that can run do run, timers fire, the network hands over     *)
(* what it keeps and paho's reconnect succeeds.  Nothing is assumed of the *)
(* environment.                                                            *)
(***************************************************************************)
Fairness ==
    /\ \A c \in Clients : /\ WF_vars(C_Receive(c))
                          /\ WF_vars(ClientMain(c))
                          /\ WF_vars(C_Timeout(c))
                          /\ WF_vars(C_LoopEnds(c))
    /\ WF_vars(S_Receive \/ S_DropPacket)
    /\ WF_vars(ServerMain)
    /\ WF_vars(Callback)
    /\ WF_vars(LinkUp)
    /\ WF_vars(Resume)
    /\ \A t \in Tunnels : /\ WF_vars(S_ConfirmTimeout(t))
                          /\ WF_vars(T_ReadEnds(t))
                          /\ WF_vars(T_LoopEnds(t))
                          /\ WF_vars(T_Unsubscribe(t))

Spec     == Init /\ [][Next]_vars
FairSpec == Spec /\ Fairness

-----------------------------------------------------------------------------
(***************************************************************************)
(* Safety.                                                                 *)
(***************************************************************************)

\* A client that has subscribed to a data topic uses the crossed pair of one
\* tunnel the server made for its ID: it listens where that tunnel publishes
\* and publishes where it listens (createAck swaps, handleControl copies).
TopicsAgree ==
    \A c \in Clients : client[c].sub # NoTopic =>
        \E t \in 1..made : /\ tun[t].id = c
                           /\ client[c].sub = ClientPubTopic(t)
                           /\ client[c].pub = ServerPubTopic(t)

\* While the server's data loop can publish what the target sends, its client
\* is subscribed to that very topic or gone: no first byte (the SSH banner)
\* is published into the void.  This is what connect_confirm is for.
SubscribedBeforeData ==
    \A t \in Tunnels : tun[t].loop = "run" =>
        \/ tun[t].id \in HandIDs
        \/ client[tun[t].id].state = "exited"
        \/ client[tun[t].id].sub = ClientPubTopic(t)

\* The maps of the server agree with the tunnels: an ID is in at most one of
\* pendingConfirms, connected and the tunnel handleControl works on; a pending
\* tunnel has no TCP connection and a connected one has had its loop started.
PendingConsistent ==
    \A id \in IDs : Pending(id) =>
        LET t == pendingConfirms[id] IN
            tun[t].id = id /\ tun[t].conn = "none" /\ t # cur /\ ~Connected(id)
ConnectedConsistent ==
    \A id \in IDs : Connected(id) =>
        LET t == connected[id] IN tun[t].id = id /\ tun[t].conn # "none" /\ tun[t].loop # "off" /\ t # cur
CurrentConsistent ==
    cur # NoTunnel => tun[cur].id \in IDs /\ ~InUse(tun[cur].id)
RegistryConsistent == PendingConsistent /\ ConnectedConsistent /\ CurrentConsistent

\* A TCP connection to the target belongs to a tunnel in the connected map,
\* or to the one handleControl is about to put there: otherwise no closed
\* packet can ever end it.
OpenImpliesTracked ==
    \A t \in Tunnels : tun[t].conn \in {"open", "eof"} =>
        \/ connected[tun[t].id] = t
        \/ spc = "register" /\ cur = t

\* A tunnel whose loop ended while it is (or is about to be) in connected has
\* its ID on tunnelClosedCh, unless the channel was full when it ended.  It
\* rests on the main loop not reading tunnelClosedCh between dial and insert.
ClosedSignalPending ==
    \A t \in Tunnels :
        /\ tun[t].loop \in {"unsub", "done"}
        /\ connected[tun[t].id] = t \/ (spc = "register" /\ cur = t)
        => tun[t].id \in ToSet(tunnelClosedCh) \cup droppedSignals

\* safeSend never finds tunnelClosedCh full when a tunnel in connected ends, so
\* that every entry with a data loop that has ended goes away.
NoSignalDropped ==
    \A t \in Tunnels :
        tun[t].loop = "done" /\ connected[tun[t].id] = t => tun[t].id \in ToSet(tunnelClosedCh)

\* The server is subscribed to exactly the topics of its live tunnels.
Live(t) == \/ spc \in {"ackwait", "dial"} /\ cur = t
           \/ t <= made /\ pendingConfirms[tun[t].id] = t
           \/ tun[t].loop \in {"run", "unsub"}
SubscriptionsMatchTunnels == tunnelTopics = {t \in Tunnels : Live(t)}

(***************************************************************************)
(* Liveness.                                                               *)
(***************************************************************************)

\* When the target ends the TCP connection the client process ends too, also
\* if its connect_confirm is still being acknowledged.
ServerCloseReachesClient ==
    \A c \in Clients, t \in Tunnels :
        (tun[t].id = c /\ tun[t].conn = "eof") ~> client[c].state = "exited"

\* After the end of stdin a client of the server's version ends, whatever
\* state it was in when stdin ended.
EofEndsClient == \A c \in Clients \ OldClients : (client[c].eof) ~> (client[c].state = "exited")

\* A client that a failure packet reaches ends: "Exit immediately on fatal
\* errors that prevent connection" (mqtunnel.go:358).
FailureEndsClient ==
    \A c \in Clients :
        (controlCh[c] # <<>> /\ Head(controlCh[c]).type = "failure") ~> client[c].state = "exited"

\* Once the client has confirmed, either the TCP connection is made or the
\* client gives up waiting for the tunnel.
ConfirmIsAnswered ==
    \A c \in Clients, t \in Tunnels :
        (spc = "dial" /\ cur = t /\ tun[t].id = c) ~> (tun[t].conn # "none" \/ client[c].state = "exited")

(***************************************************************************)
(* Action properties: what the router's filter may not drop.               *)
(***************************************************************************)
Drops(type) == /\ inbox[Server] # <<>>
               /\ Head(inbox[Server]).type = type
               /\ inbox'[Server] = Tail(inbox[Server])
               /\ controlCh'[Server] = controlCh[Server]
               /\ link' = link

\* The server receives the confirm of a client it has sent a connect_ack to
\* and waits for ("Server: receives confirm", README.md:340).
ConfirmNotDropped ==
    [][Drops("connect_confirm") =>
          ~(spc = "ackwait" /\ tun[cur].id = Head(inbox[Server]).id)]_vars

\* A closed packet is dropped only if it is for no tunnel of the server.
ClosedNotDropped ==
    [][Drops("closed") =>
          ~(spc \in {"dial", "register"} /\ tun[cur].id = Head(inbox[Server]).id)]_vars
=============================================================================
