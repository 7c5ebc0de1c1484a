----------------------- MODULE TunnelProtocol_proofs -----------------------
(***************************************************************************)
(* Theorems about TunnelProtocol, for every value of its constants.        *)
(***************************************************************************)
EXTENDS TunnelProtocol, TLAPS

-----------------------------------------------------------------------------
(* Facts about sequences. *)

LEMMA SeqStep ==
    ASSUME NEW S, NEW q \in Seq(S)
    PROVE  /\ \A x \in S : Append(q, x) \in Seq(S)
           /\ q # <<>> => Head(q) \in S /\ Tail(q) \in Seq(S)
  OBVIOUS

(* Changing one value of a function. *)

LEMMA UpdateType ==
    ASSUME NEW D, NEW R, NEW f \in [D -> R], NEW d, NEW v \in R
    PROVE  [f EXCEPT ![d] = v] \in [D -> R]
  OBVIOUS

(* Every constructor makes a control packet. *)

LEMMA PacketType ==
    ASSUME NEW id \in IDs
    PROVE  /\ createConnectRequest(id) \in controlPacket
           /\ createConnectConfirm(id) \in controlPacket
           /\ \A o \in {"client", "server"} : createConnectionClosed(id, o) \in controlPacket
           /\ \A reason \in Reasons : createFailure(id, reason) \in controlPacket
           /\ \A t \in Tunnels : createAck(id, t) \in controlPacket
  <1>1. NoTopic \in Topics /\ \A t \in Tunnels : ServerPubTopic(t) \in Topics /\ ClientPubTopic(t) \in Topics
    BY BoundAssumption DEF NoTopic, Topics, Topic, NoTunnel, Tunnels, ServerPubTopic, ClientPubTopic
  <1>2. \A type \in PacketTypes, o \in {"client", "server"} : Bare(type, id, o) \in controlPacket
    BY <1>1 DEF Bare, controlPacket, Reasons
  <1>3. createConnectRequest(id) \in controlPacket
    <2>1. Version(id) \in Nat
      BY DEF Version, ProtocolVersion
    <2>2. Bare("connect", id, "client") \in controlPacket
      BY <1>2 DEF PacketTypes
    <2> QED
      BY <2>1, <2>2 DEF createConnectRequest, controlPacket
  <1>4. \A t \in Tunnels : createAck(id, t) \in controlPacket
    <2>1. Bare("connect_ack", id, "server") \in controlPacket
      BY <1>2 DEF PacketTypes
    <2> QED
      BY <1>1, <2>1 DEF createAck, controlPacket
  <1>5. \A reason \in Reasons : createFailure(id, reason) \in controlPacket
    <2>1. Bare("failure", id, "server") \in controlPacket
      BY <1>2 DEF PacketTypes
    <2> QED
      BY <2>1 DEF createFailure, controlPacket
  <1> QED
    BY <1>2, <1>3, <1>4, <1>5 DEF createConnectConfirm, createConnectionClosed, PacketTypes

LEMMA PublishType ==
    ASSUME PacketsTyped, NEW m \in controlPacket, Publish(m) \/ PublishQoS0(m)
    PROVE  inbox' \in [Nodes -> Seq(controlPacket)]
  <1>1. inbox \in [Nodes -> Seq(controlPacket)]
    BY DEF PacketsTyped
  <1>2. \A n \in Nodes : Append(inbox[n], m) \in Seq(controlPacket)
    BY <1>1, SeqStep
  <1>3. CASE UNCHANGED inbox
    BY <1>1, <1>3
  <1>4. CASE Publish(m)
    BY <1>1, <1>2, <1>4 DEF Publish
  <1> QED
    BY <1>3, <1>4 DEF PublishQoS0

LEMMA ConsumeType ==
    ASSUME PacketsTyped, NEW n \in Nodes, controlCh[n] # <<>>
    PROVE  /\ Head(controlCh[n]) \in controlPacket
           /\ Consume(n) => controlCh' \in [Nodes -> Seq(controlPacket)]
  <1>1. controlCh \in [Nodes -> Seq(controlPacket)]
    BY DEF PacketsTyped
  <1>2. Head(controlCh[n]) \in controlPacket /\ Tail(controlCh[n]) \in Seq(controlPacket)
    BY <1>1, SeqStep
  <1>3. Consume(n) => controlCh' \in [Nodes -> Seq(controlPacket)]
    BY <1>1, <1>2 DEF Consume
  <1> QED
    BY <1>2, <1>3

(* The router moves the head of an inbox to controlCh, or drops it. *)

LEMMA HandOverType ==
    ASSUME PacketsTyped, NEW n \in Nodes, inbox[n] # <<>>, HandOver(n)
    PROVE  /\ Head(inbox[n]) \in controlPacket
           /\ Append(controlCh[n], Head(inbox[n])) \in Seq(controlPacket)
           /\ inbox' \in [Nodes -> Seq(controlPacket)]
           /\ delivered' \in [Nodes -> SUBSET controlPacket]
  <1>1. /\ inbox \in [Nodes -> Seq(controlPacket)]
        /\ controlCh \in [Nodes -> Seq(controlPacket)]
        /\ delivered \in [Nodes -> SUBSET controlPacket]
    BY DEF PacketsTyped
  <1>2. Head(inbox[n]) \in controlPacket /\ Tail(inbox[n]) \in Seq(controlPacket)
    BY <1>1, SeqStep
  <1>3. Append(controlCh[n], Head(inbox[n])) \in Seq(controlPacket)
    BY <1>1, <1>2, SeqStep
  <1>4. inbox' \in [Nodes -> Seq(controlPacket)]
    BY <1>1, <1>2 DEF HandOver
  <1>5. delivered' \in [Nodes -> SUBSET controlPacket]
    BY <1>1, <1>2 DEF HandOver
  <1> QED
    BY <1>2, <1>3, <1>4, <1>5

-----------------------------------------------------------------------------
(* Type correctness. *)

LEMMA InitType == Init => TypeOK
  <1> SUFFICES ASSUME Init PROVE TypeOK
    OBVIOUS
  <1>1. NoTopic \in Topics
    BY BoundAssumption DEF NoTopic, Topics, Topic, NoTunnel
  <1>2. client \in [Clients -> ClientProcess]
    BY <1>1 DEF Init, ClientProcess
  <1>3. ServerTyped
    BY BoundAssumption DEF Init, ServerTyped, ServerTunnel, Unmade, NoTunnel, Tunnels
  <1>4. PacketsTyped
    BY DEF Init, PacketsTyped
  <1>5. LinkTyped
    BY DEF Init, LinkTyped
  <1> QED
    BY <1>2, <1>3, <1>4, <1>5 DEF TypeOK

LEMMA LinkNext == TypeOK /\ [Next]_vars => LinkTyped'
  <1> SUFFICES ASSUME TypeOK, [Next]_vars PROVE LinkTyped'
    OBVIOUS
  <1> USE DEF TypeOK, LinkTyped
  <1>1. CASE UNCHANGED <<spent, link, lostSignals>>
    BY <1>1
  <1>2. ASSUME NEW n \in Nodes, Redeliver(n) PROVE LinkTyped'
    BY <1>2 DEF Redeliver, Spend, linkVars
  <1>3. ASSUME NEW id \in HandIDs, HandRequest(id) PROVE LinkTyped'
    BY <1>3 DEF HandRequest, Spend, linkVars
  <1>4. CASE LinkLost
    BY <1>4 DEF LinkLost, Spend
  <1>5. CASE LinkUp
    BY <1>5 DEF LinkUp, envVars
  <1>6. CASE Callback
    BY <1>6 DEF Callback, S_Reconnect, SignalLost, envVars
  <1>7. ASSUME NEW c \in Clients,
               C_Open(c) \/ C_ConnectionLost(c) \/ C_StdinEof(c) \/ C_Receive(c) \/ ClientMain(c)
                 \/ C_Timeout(c) \/ C_LoopEnds(c)
        PROVE  UNCHANGED <<spent, link, lostSignals>>
    BY <1>7 DEF C_Open, C_ConnectionLost, C_StdinEof, C_Receive, ClientMain, C_Timeout, C_LoopEnds,
       C_Register, C_HandleAck, C_SubscribeFails, C_IgnoreAck, C_Confirmed, C_FatalFailure,
       C_OtherFailure, C_HandleClosed, C_Done, Exit, envVars, linkVars
  <1>8. ASSUME NEW t \in Tunnels,
               TargetCloses(t) \/ S_ConfirmTimeout(t) \/ T_ReadEnds(t) \/ T_LoopEnds(t) \/ T_Unsubscribe(t)
        PROVE  UNCHANGED <<spent, link, lostSignals>>
    BY <1>8 DEF TargetCloses, S_ConfirmTimeout, T_ReadEnds, T_LoopEnds, T_Unsubscribe, envVars, linkVars
  <1>9. ASSUME S_Receive \/ S_DropPacket \/ ServerMain \/ Resume
        PROVE  UNCHANGED <<spent, link, lostSignals>>
    BY <1>9 DEF S_Receive, S_DropPacket, ServerMain, Resume, S_RejectConnect, S_AcceptConnect,
       S_SubscribeFails, S_AckSent, S_HandleConfirm, S_DialOk, S_DialFails, S_Register,
       S_HandleClosed, S_TunnelClosed, envVars, linkVars
  <1> QED
    BY <1>1, <1>2, <1>3, <1>4, <1>5, <1>6, <1>7, <1>8, <1>9
    DEF Next, Environment, vars, envVars, linkVars

(* The client's own record. *)

LEMMA ClientFieldType ==
    ASSUME NEW f \in [Clients -> ClientProcess], NEW c \in Clients
    PROVE  /\ \A v \in {"init", "opening", "waiting", "confirming", "connected", "failed", "closed", "exited"} :
                [f EXCEPT ![c].state = v] \in [Clients -> ClientProcess]
           /\ \A v \in {"off", "run", "done"} : [f EXCEPT ![c].loop = v] \in [Clients -> ClientProcess]
           /\ \A v \in BOOLEAN : [f EXCEPT ![c].closedByRemote = v] \in [Clients -> ClientProcess]
           /\ [f EXCEPT ![c].done = TRUE] \in [Clients -> ClientProcess]
           /\ [f EXCEPT ![c].eof = TRUE] \in [Clients -> ClientProcess]
  <1>1. f[c] \in ClientProcess
    OBVIOUS
  <1>2. \A v \in {"init", "opening", "waiting", "confirming", "connected", "failed", "closed", "exited"} :
           [f[c] EXCEPT !.state = v] \in ClientProcess
    BY <1>1 DEF ClientProcess
  <1>3. \A v \in {"off", "run", "done"} : [f[c] EXCEPT !.loop = v] \in ClientProcess
    BY <1>1 DEF ClientProcess
  <1>4. \A v \in BOOLEAN : [f[c] EXCEPT !.closedByRemote = v] \in ClientProcess
    BY <1>1 DEF ClientProcess
  <1>5. [f[c] EXCEPT !.done = TRUE] \in ClientProcess /\ [f[c] EXCEPT !.eof = TRUE] \in ClientProcess
    BY <1>1 DEF ClientProcess
  <1> QED
    BY <1>2, <1>3, <1>4, <1>5, UpdateType

LEMMA ClientNext == TypeOK /\ [Next]_vars => client' \in [Clients -> ClientProcess]
  <1> SUFFICES ASSUME TypeOK, [Next]_vars PROVE client' \in [Clients -> ClientProcess]
    OBVIOUS
  <1> client \in [Clients -> ClientProcess] /\ PacketsTyped
    BY DEF TypeOK
  <1> USE DEF ClientProcess
  <1>1. CASE UNCHANGED client
    BY <1>1
  <1>2. ASSUME NEW c \in Clients, Exit(c) PROVE client' \in [Clients -> ClientProcess]
    BY <1>2 DEF Exit
  <1>3. ASSUME NEW c \in Clients, C_Open(c) \/ C_Register(c) \/ C_Confirmed(c) \/ C_StdinEof(c)
        PROVE  client' \in [Clients -> ClientProcess]
    <2>1. CASE C_Open(c)
      BY <2>1 DEF C_Open
    <2>2. CASE C_Register(c)
      BY <2>2 DEF C_Register
    <2>3. CASE C_Confirmed(c)
      <3> DEFINE g == [client EXCEPT ![c].state = "connected"]
      <3>1. g \in [Clients -> ClientProcess]
        BY ClientFieldType
      <3>2. client' = [g EXCEPT ![c].loop = "run"]
        BY <2>3 DEF C_Confirmed
      <3> HIDE DEF g
      <3> QED
        BY <3>1, <3>2, ClientFieldType
    <2>4. CASE C_StdinEof(c)
      BY <2>4, ClientFieldType DEF C_StdinEof
    <2> QED
      BY <1>3, <2>1, <2>2, <2>3, <2>4
  <1>4. ASSUME NEW c \in Clients, C_HandleAck(c) PROVE client' \in [Clients -> ClientProcess]
    <2>1. Head(controlCh[c]) \in controlPacket
      BY <1>4, ConsumeType DEF C_HandleAck, C_Take, Nodes
    <2> DEFINE m == Head(controlCh[c])
               f == [client EXCEPT ![c].pub = m.clientPub]
               g == [f EXCEPT ![c].sub = m.serverPub]
    <2>2. m.clientPub \in Topics /\ m.serverPub \in Topics
      BY <2>1 DEF controlPacket
    <2>3. client' = [g EXCEPT ![c].state = "confirming"]
      BY <1>4 DEF C_HandleAck, TakeTopics
    <2> HIDE DEF m
    <2>4. f \in [Clients -> ClientProcess]
      BY <2>2
    <2> HIDE DEF f
    <2>5. g \in [Clients -> ClientProcess]
      BY <2>2, <2>4
    <2> HIDE DEF g
    <2> QED
      BY <2>3, <2>5
  <1>5. ASSUME NEW c \in Clients, C_SubscribeFails(c) PROVE client' \in [Clients -> ClientProcess]
    <2>1. Head(controlCh[c]) \in controlPacket
      BY <1>5, ConsumeType DEF C_SubscribeFails, C_Take, Nodes
    <2> QED
      BY <1>5, <2>1 DEF C_SubscribeFails, controlPacket
  <1>6. ASSUME NEW c \in Clients, C_OtherFailure(c) PROVE client' \in [Clients -> ClientProcess]
    BY <1>6 DEF C_OtherFailure
  <1>7. ASSUME NEW c \in Clients, C_HandleClosed(c) PROVE client' \in [Clients -> ClientProcess]
    <2> DEFINE known == client[c].state = "connected"
               state == IF known THEN "closed" ELSE client[c].state
               f == [client EXCEPT ![c].state = state]
               byRemote == IF known THEN TRUE ELSE f[c].closedByRemote
               g == [f EXCEPT ![c].closedByRemote = byRemote]
    <2>1. client' = [g EXCEPT ![c].done = TRUE]
      BY <1>7 DEF C_HandleClosed
    <2>2. f \in [Clients -> ClientProcess]
      <3>1. state \in {"init", "opening", "waiting", "confirming", "connected", "failed", "closed", "exited"}
        OBVIOUS
      <3> HIDE DEF state, ClientProcess
      <3> QED
        BY <3>1, ClientFieldType
    <2> HIDE DEF f
    <2>3. g \in [Clients -> ClientProcess]
      <3>1. byRemote \in BOOLEAN
        BY <2>2
      <3> HIDE DEF byRemote
      <3> QED
        BY <2>2, <3>1, ClientFieldType
    <2> HIDE DEF g
    <2> QED
      BY <2>1, <2>3, ClientFieldType
  <1>8. ASSUME NEW c \in Clients, C_LoopEnds(c) PROVE client' \in [Clients -> ClientProcess]
    BY <1>8 DEF C_LoopEnds
  <1>9. ASSUME NEW c \in Clients, C_Receive(c) \/ C_IgnoreAck(c) PROVE UNCHANGED client
    BY <1>9 DEF C_Receive, C_IgnoreAck
  <1>10. ASSUME NEW c \in Clients,
                C_FatalFailure(c) \/ C_Done(c) \/ C_Timeout(c) \/ C_ConnectionLost(c)
         PROVE  Exit(c)
    BY <1>10 DEF C_FatalFailure, C_Done, C_Timeout, C_ConnectionLost
  <1>11. ASSUME NEW t \in Tunnels,
                TargetCloses(t) \/ S_ConfirmTimeout(t) \/ T_ReadEnds(t) \/ T_LoopEnds(t) \/ T_Unsubscribe(t)
         PROVE  UNCHANGED client
    BY <1>11 DEF TargetCloses, S_ConfirmTimeout, T_ReadEnds, T_LoopEnds, T_Unsubscribe
  <1>12. ASSUME S_Receive \/ S_DropPacket \/ ServerMain \/ Resume \/ Callback \/ LinkUp \/ LinkLost
         PROVE  UNCHANGED client
    BY <1>12 DEF S_Receive, S_DropPacket, ServerMain, Resume, Callback, LinkUp, LinkLost,
       S_RejectConnect, S_AcceptConnect, S_SubscribeFails, S_AckSent, S_HandleConfirm, S_DialOk,
       S_DialFails, S_Register, S_HandleClosed, S_TunnelClosed, S_Reconnect, SignalLost
  <1>13. ASSUME NEW n \in Nodes, Redeliver(n) PROVE UNCHANGED client
    BY <1>13 DEF Redeliver
  <1>14. ASSUME NEW id \in HandIDs, HandRequest(id) PROVE UNCHANGED client
    BY <1>14 DEF HandRequest
  <1> QED
    BY <1>1, <1>2, <1>3, <1>4, <1>5, <1>6, <1>7, <1>8, <1>9, <1>10, <1>11, <1>12, <1>13, <1>14
    DEF Next, Environment, ClientMain, vars

(* The packets.  All that is published is a control packet. *)

LEMMA PacketsNext == TypeOK /\ [Next]_vars => PacketsTyped'
  <1> SUFFICES ASSUME TypeOK, [Next]_vars PROVE PacketsTyped'
    OBVIOUS
  <1> DEFINE Boxes == [Nodes -> Seq(controlPacket)]
             Sets  == [Nodes -> SUBSET controlPacket]
  <1>a. PacketsTyped /\ ServerTyped
    BY DEF TypeOK
  <1>b. inbox \in Boxes /\ controlCh \in Boxes /\ delivered \in Sets /\ stored \in Seq(controlPacket)
    BY <1>a DEF PacketsTyped
  <1>c. Server \in Nodes /\ Clients \subseteq Nodes /\ \A n \in Nodes : n # Server => n \in Clients
    BY DEF Nodes
  <1>d. SUFFICES inbox' \in Boxes /\ controlCh' \in Boxes /\ delivered' \in Sets /\ stored' \in Seq(controlPacket)
    BY DEF PacketsTyped
  <1>e. Clients \subseteq IDs /\ HandIDs \subseteq IDs
    BY DEF IDs
  <1> HIDE DEF Boxes, Sets
  <1>1. CASE UNCHANGED <<netVars, delivered, stored>>
    BY <1>1, <1>b DEF netVars
  <1>2. ASSUME NEW n \in Nodes, Redeliver(n) PROVE inbox' \in Boxes /\ UNCHANGED <<controlCh, delivered, stored>>
    <2>1. PICK m \in delivered[n] : inbox' = [inbox EXCEPT ![n] = Append(inbox[n], m)]
      BY <1>2 DEF Redeliver
    <2>2. m \in controlPacket /\ inbox[n] \in Seq(controlPacket)
      BY <1>b DEF Boxes, Sets
    <2>3. Append(inbox[n], m) \in Seq(controlPacket)
      BY <2>2, SeqStep
    <2>4. inbox' \in Boxes
      <3>1. [inbox EXCEPT ![n] = Append(inbox[n], m)] \in [Nodes -> Seq(controlPacket)]
        BY <1>b, <2>3, UpdateType DEF Boxes
      <3> QED
        BY <2>1, <3>1 DEF Boxes
    <2> QED
      BY <1>2, <2>4 DEF Redeliver, linkVars
  <1>3. ASSUME NEW id \in HandIDs, HandRequest(id)
        PROVE  inbox' \in Boxes /\ UNCHANGED <<controlCh, delivered, stored>>
    BY <1>3, <1>a, <1>e, PacketType, PublishType DEF HandRequest, linkVars, Boxes
  <1>4. CASE LinkLost
    <2>a. <<>> \in Seq(controlPacket)
      OBVIOUS
    <2>1. inbox' \in Boxes
      BY <1>4, <1>b, <2>a, UpdateType DEF LinkLost, Boxes
    <2>2. delivered' \in Sets
      BY <1>4, <1>b, UpdateType DEF LinkLost, Sets
    <2> QED
      BY <1>4, <1>b, <2>1, <2>2 DEF LinkLost
  <1>5. CASE Resume
    <2>1. Head(stored) \in controlPacket /\ stored' \in Seq(controlPacket)
      BY <1>5, <1>b, SeqStep DEF Resume
    <2>2. inbox' \in Boxes
      BY <1>5, <1>a, <2>1, PublishType DEF Resume, Boxes
    <2> QED
      BY <1>5, <1>b, <2>1, <2>2 DEF Resume, envVars
  <1>6. CASE S_Receive \/ S_DropPacket
    <2>1. inbox[Server] # <<>> /\ HandOver(Server)
      BY <1>6 DEF S_Receive, S_DropPacket
    <2>2. inbox' \in Boxes /\ delivered' \in Sets /\ Append(controlCh[Server], Head(inbox[Server])) \in Seq(controlPacket)
      BY <1>a, <1>c, <2>1, HandOverType DEF Boxes, Sets
    <2>3. controlCh' \in Boxes
      BY <1>6, <1>b, <2>2 DEF S_Receive, S_DropPacket, Boxes
    <2> QED
      BY <1>6, <1>b, <2>2, <2>3 DEF S_Receive, S_DropPacket, linkVars
  <1>7. ASSUME S_Take("connect") \/ S_Take("connect_confirm") \/ S_Take("closed")
        PROVE  Head(controlCh[Server]) \in controlPacket /\ controlCh' \in Boxes
    BY <1>7, <1>a, <1>c, ConsumeType DEF S_Take, Boxes
  <1>8. CASE S_RejectConnect
    <2> DEFINE m == Head(controlCh[Server])
    <2>1. S_Take("connect") /\ ServerPublish(createFailure(m.id, Refusal(m)))
      BY <1>8 DEF S_RejectConnect
    <2>2. createFailure(m.id, Refusal(m)) \in controlPacket
      <3>1. m.id \in IDs
        BY <1>7, <2>1 DEF controlPacket
      <3>2. Refusal(m) \in Reasons
        BY DEF Refusal, Reasons
      <3> QED
        BY <3>1, <3>2, PacketType
    <2> HIDE DEF m
    <2>3. inbox' \in Boxes /\ stored' \in Seq(controlPacket)
      BY <1>a, <1>b, <2>1, <2>2, PublishType, SeqStep DEF ServerPublish, Boxes
    <2> QED
      BY <1>7, <1>8, <1>b, <2>1, <2>3 DEF S_RejectConnect, envVars
  <1>9. CASE S_AcceptConnect
    <2> DEFINE m == Head(controlCh[Server])
    <2>1. m.id \in IDs /\ controlCh' \in Boxes
      BY <1>7, <1>9 DEF S_AcceptConnect, controlPacket
    <2>2. made + 1 \in Tunnels
      <3>1. made < MaxTunnels
        BY <1>9 DEF S_AcceptConnect, NewTunnel
      <3>2. made \in 0..MaxTunnels
        BY <1>a DEF ServerTyped
      <3> QED
        BY <3>1, <3>2, BoundAssumption DEF Tunnels
    <2>3. inbox' \in Boxes
      <3>1. createAck(m.id, made + 1) \in controlPacket
        BY <2>1, <2>2, PacketType
      <3>2. Publish(createAck(m.id, made + 1))
        BY <1>9 DEF S_AcceptConnect
      <3> QED
        BY <1>a, <3>1, <3>2, PublishType DEF Boxes
    <2> QED
      BY <1>9, <1>b, <2>1, <2>3 DEF S_AcceptConnect, envVars, linkVars
  <1>10. ASSUME S_SubscribeFails \/ S_HandleConfirm \/ S_HandleClosed
         PROVE  controlCh' \in Boxes /\ UNCHANGED <<inbox, delivered, stored>>
    BY <1>7, <1>10 DEF S_SubscribeFails, S_HandleConfirm, S_HandleClosed, envVars, linkVars
  <1>11. ASSUME S_AckSent \/ S_DialOk \/ S_DialFails \/ S_Register \/ S_TunnelClosed \/ Callback \/ LinkUp
         PROVE  UNCHANGED <<netVars, delivered, stored>>
    BY <1>11 DEF S_AckSent, S_DialOk, S_DialFails, S_Register, S_TunnelClosed, Callback, S_Reconnect,
       SignalLost, LinkUp, envVars, linkVars
  <1>12. ASSUME NEW t \in Tunnels, TargetCloses(t) \/ S_ConfirmTimeout(t) \/ T_ReadEnds(t) \/ T_Unsubscribe(t)
         PROVE  UNCHANGED <<netVars, delivered, stored>>
    BY <1>12 DEF TargetCloses, S_ConfirmTimeout, T_ReadEnds, T_Unsubscribe, envVars, linkVars
  <1>13. ASSUME NEW t \in Tunnels, T_LoopEnds(t)
         PROVE  inbox' \in Boxes /\ UNCHANGED <<controlCh, delivered, stored>>
    <2>1. tun[t].id \in IDs
      BY <1>13, <1>a DEF T_LoopEnds, ServerTyped, Unmade
    <2>2. inbox' \in Boxes
      BY <1>13, <1>a, <1>b, <2>1, PacketType, PublishType DEF T_LoopEnds, Boxes
    <2> QED
      BY <1>13, <2>2 DEF T_LoopEnds, envVars, linkVars
  <1>14. ASSUME NEW c \in Clients, Exit(c)
         PROVE  inbox' \in Boxes /\ controlCh' \in Boxes /\ delivered' \in Sets /\ UNCHANGED stored
    <2>a. <<>> \in Seq(controlPacket)
      OBVIOUS
    <2>1. inbox' \in Boxes
      BY <1>14, <1>b, <2>a, UpdateType DEF Exit, Boxes
    <2>2. controlCh' \in Boxes
      BY <1>14, <1>b, <2>a, UpdateType DEF Exit, Boxes
    <2>3. delivered' \in Sets
      BY <1>14, <1>b DEF Exit, Sets
    <2> QED
      BY <1>14, <2>1, <2>2, <2>3 DEF Exit, linkVars
  <1>15. ASSUME NEW c \in Clients, C_FatalFailure(c) \/ C_Done(c) \/ C_Timeout(c) \/ C_ConnectionLost(c)
         PROVE  Exit(c)
    BY <1>15 DEF C_FatalFailure, C_Done, C_Timeout, C_ConnectionLost
  <1>16. ASSUME NEW c \in Clients, C_Open(c)
         PROVE  inbox' \in Boxes /\ UNCHANGED <<controlCh, delivered, stored>>
    BY <1>16, <1>a, <1>e, PacketType, PublishType DEF C_Open, envVars, linkVars, Boxes
  <1>17. ASSUME NEW c \in Clients, C_Receive(c)
         PROVE  inbox' \in Boxes /\ controlCh' \in Boxes /\ delivered' \in Sets /\ UNCHANGED stored
    <2>1. inbox' \in Boxes /\ delivered' \in Sets /\ Append(controlCh[c], Head(inbox[c])) \in Seq(controlPacket)
      BY <1>17, <1>a, <1>c, HandOverType DEF C_Receive, Boxes, Sets
    <2>2. controlCh' \in Boxes
      BY <1>17, <1>b, <2>1 DEF C_Receive, Boxes
    <2> QED
      BY <1>17, <2>1, <2>2 DEF C_Receive, linkVars
  <1>18. ASSUME NEW c \in Clients, C_HandleAck(c)
         PROVE  inbox' \in Boxes /\ controlCh' \in Boxes /\ UNCHANGED <<delivered, stored>>
    <2>1. inbox' \in Boxes
      BY <1>18, <1>a, <1>e, PacketType, PublishType DEF C_HandleAck, Boxes
    <2>2. controlCh' \in Boxes
      BY <1>18, <1>a, <1>c, ConsumeType DEF C_HandleAck, C_Take, Boxes
    <2> QED
      BY <1>18, <2>1, <2>2 DEF C_HandleAck, envVars, linkVars
  <1>19. ASSUME NEW c \in Clients,
                C_SubscribeFails(c) \/ C_IgnoreAck(c) \/ C_OtherFailure(c) \/ C_HandleClosed(c)
         PROVE  controlCh' \in Boxes /\ UNCHANGED <<inbox, delivered, stored>>
    <2>1. controlCh[c] # <<>> /\ Consume(c)
      BY <1>19 DEF C_SubscribeFails, C_IgnoreAck, C_OtherFailure, C_HandleClosed, C_Take
    <2>2. controlCh' \in Boxes
      BY <1>a, <1>c, <2>1, ConsumeType DEF Boxes
    <2> QED
      BY <1>19, <2>2 DEF C_SubscribeFails, C_IgnoreAck, C_OtherFailure, C_HandleClosed, envVars, linkVars
  <1>20. ASSUME NEW c \in Clients, C_Register(c) \/ C_Confirmed(c) \/ C_StdinEof(c)
         PROVE  UNCHANGED <<netVars, delivered, stored>>
    BY <1>20 DEF C_Register, C_Confirmed, C_StdinEof, envVars, linkVars
  <1>21. ASSUME NEW c \in Clients, C_LoopEnds(c)
         PROVE  inbox' \in Boxes /\ UNCHANGED <<controlCh, delivered, stored>>
    BY <1>21, <1>a, <1>b, <1>e, PacketType, PublishType DEF C_LoopEnds, envVars, linkVars, Boxes
  <1> QED
    BY <1>b, <1>1, <1>2, <1>3, <1>4, <1>5, <1>6, <1>7, <1>8, <1>9, <1>10, <1>11, <1>12, <1>13, <1>14,
       <1>15, <1>16, <1>17, <1>18, <1>19, <1>20, <1>21
    DEF Next, Environment, ServerMain, ClientMain, vars, envVars, linkVars

(* The server's own state. *)

LEMMA TakeType ==
    ASSUME TypeOK, S_Take("connect") \/ S_Take("connect_confirm") \/ S_Take("closed")
    PROVE  Head(controlCh[Server]) \in controlPacket /\ Head(controlCh[Server]).id \in IDs
  <1>1. controlCh[Server] # <<>>
    BY DEF S_Take
  <1> QED
    BY <1>1, ConsumeType DEF TypeOK, Nodes, controlPacket

ObjectsTyped ==
    /\ tun \in [Tunnels -> ServerTunnel]
    /\ \A t \in Tunnels : IF t <= made THEN tun[t].id \in IDs ELSE tun[t] = Unmade

LEMMA ObjectChanged ==
    ASSUME ServerTyped, NEW t \in 1..made, NEW o \in ServerTunnel, o.id = tun[t].id,
           tun' = [tun EXCEPT ![t] = o], made' = made
    PROVE  ObjectsTyped'
  <1>1. ObjectsTyped
    BY DEF ServerTyped, ObjectsTyped
  <1>2. tun' \in [Tunnels -> ServerTunnel]
    BY <1>1, UpdateType DEF ObjectsTyped
  <1>3. \A u \in Tunnels : IF u <= made' THEN tun'[u].id \in IDs ELSE tun'[u] = Unmade
    BY <1>1, BoundAssumption DEF ObjectsTyped, ServerTyped, Tunnels
  <1> QED
    BY <1>2, <1>3 DEF ObjectsTyped

LEMMA ServerNext == TypeOK /\ [Next]_vars => ServerTyped'
  <1> SUFFICES ASSUME TypeOK, [Next]_vars PROVE ServerTyped'
    OBVIOUS
  <1>a. ServerTyped
    BY DEF TypeOK
  <1>b. MaxTunnels \in Nat
    BY BoundAssumption
  <1>c. NoTunnel \in 0..made
    BY <1>a, <1>b DEF ServerTyped, NoTunnel
  <1>1. CASE UNCHANGED serverVars
    BY <1>a, <1>1 DEF ServerTyped, serverVars, mainVars, mapVars, signalVars, tunnelVars
  <1>2. ASSUME S_AcceptConnect \/ S_SubscribeFails
        PROVE  /\ Head(controlCh[Server]).id \in IDs
               /\ made + 1 \in Tunnels /\ made' = made + 1
               /\ tun' = [tun EXCEPT ![made + 1].id = Head(controlCh[Server]).id]
               /\ tunnelTopics' = tunnelTopics \cup {made + 1}
               /\ UNCHANGED <<mapVars, signalVars, confirmTimers>>
    <2>1. NewTunnel(Head(controlCh[Server])) /\ UNCHANGED <<mapVars, signalVars, confirmTimers>>
      BY <1>2 DEF S_AcceptConnect, S_SubscribeFails
    <2>2. Head(controlCh[Server]).id \in IDs
      BY <1>2, TakeType DEF S_AcceptConnect, S_SubscribeFails
    <2>3. made < MaxTunnels /\ made' = made + 1 /\ tunnelTopics' = tunnelTopics \cup {made + 1}
      BY <2>1 DEF NewTunnel
    <2>4. made \in 0..MaxTunnels
      BY <1>a DEF ServerTyped
    <2>5. made + 1 \in Tunnels
      BY <1>b, <2>3, <2>4 DEF Tunnels
    <2>6. tun' = [tun EXCEPT ![made + 1].id = Head(controlCh[Server]).id]
      BY <2>1 DEF NewTunnel
    <2> QED
      BY <2>1, <2>2, <2>3, <2>5, <2>6
  <1>3. ASSUME S_AcceptConnect \/ S_SubscribeFails PROVE ServerTyped'
    <2> DEFINE id == Head(controlCh[Server]).id
    <2>1. id \in IDs
      BY <1>2, <1>3
    <2> HIDE DEF id
    <2>2. /\ tun' \in [Tunnels -> ServerTunnel]
          /\ \A t \in Tunnels : IF t <= made' THEN tun'[t].id \in IDs ELSE tun'[t] = Unmade
      <3>1. tun' = [tun EXCEPT ![made + 1].id = id] /\ made' = made + 1 /\ made + 1 \in Tunnels
        BY <1>2, <1>3 DEF id
      <3>2. tun' \in [Tunnels -> ServerTunnel]
        <4>1. tun \in [Tunnels -> ServerTunnel] /\ tun[made + 1] \in ServerTunnel
          BY <1>a, <3>1 DEF ServerTyped
        <4>2. [tun[made + 1] EXCEPT !.id = id] \in ServerTunnel
          BY <2>1, <4>1 DEF ServerTunnel
        <4> QED
          BY <3>1, <4>1, <4>2, UpdateType
      <3>3. \A t \in Tunnels : IF t <= made' THEN tun'[t].id \in IDs ELSE tun'[t] = Unmade
        BY <1>a, <1>b, <2>1, <3>1 DEF ServerTyped, ServerTunnel, Tunnels
      <3> QED
        BY <3>2, <3>3
    <2>3. spc' \in {"select", "ackwait", "dial", "register"} /\ cur' \in 0..made' /\ (cur' # NoTunnel <=> spc' # "select")
      BY <1>a, <1>b, <1>2, <1>3 DEF S_AcceptConnect, S_SubscribeFails, Work, mainVars, ServerTyped, NoTunnel, Tunnels
    <2>4. made' = made + 1 /\ made + 1 \in Tunnels /\ made \in 0..MaxTunnels
      BY <1>a, <1>2, <1>3 DEF ServerTyped
    <2>5. tunnelTopics' = tunnelTopics \cup {made + 1} /\ UNCHANGED <<mapVars, signalVars, confirmTimers>>
      BY <1>2, <1>3
    <2>6. made' \in 0..MaxTunnels /\ 0..made \subseteq 0..made' /\ 1..made \subseteq 1..made' /\ made + 1 \in 1..made'
      BY <1>b, <2>4 DEF Tunnels
    <2>7. confirmTimers' \subseteq 1..made' /\ tunnelTopics' \subseteq 1..made'
      BY <1>a, <2>5, <2>6 DEF ServerTyped
    <2>8. pendingConfirms' \in [IDs -> 0..made'] /\ connected' \in [IDs -> 0..made']
      BY <1>a, <2>5, <2>6 DEF ServerTyped, mapVars
    <2>9. tunnelClosedCh' \in Seq(IDs) /\ droppedSignals' \subseteq IDs
      BY <1>a, <2>5 DEF ServerTyped, signalVars
    <2> QED
      BY <2>2, <2>3, <2>6, <2>7, <2>8, <2>9 DEF ServerTyped
  <1>4. CASE S_AckSent
    <2>1. cur \in 1..made /\ cur' = NoTunnel /\ spc' = "select"
      BY <1>4, <1>a DEF S_AckSent, ServerTyped, Return, Work, NoTunnel
    <2>2. pendingConfirms' \in [IDs -> 0..made]
      <3>1. cur \in 0..made /\ pendingConfirms \in [IDs -> 0..made]
        BY <1>a DEF ServerTyped
      <3>2. pendingConfirms' = [pendingConfirms EXCEPT ![tun[cur].id] = cur]
        BY <1>4 DEF S_AckSent
      <3> QED
        BY <3>1, <3>2, UpdateType
    <2>3. confirmTimers' \subseteq 1..made
      BY <1>4, <1>a, <2>1 DEF S_AckSent, ServerTyped
    <2> QED
      BY <1>4, <1>a, <1>b, <2>1, <2>2, <2>3 DEF S_AckSent, ServerTyped, NoTunnel, signalVars, tunnelVars
  <1>5. CASE S_HandleConfirm
    <2> DEFINE id == Head(controlCh[Server]).id
    <2>1. id \in IDs
      BY <1>5, TakeType DEF S_HandleConfirm
    <2>2. pendingConfirms' \in [IDs -> 0..made]
      <3>1. Forget(id) \/ UNCHANGED pendingConfirms
        BY <1>5 DEF S_HandleConfirm
      <3> QED
        BY <1>a, <1>c, <3>1, UpdateType DEF Forget, ServerTyped
    <2>3. spc' \in {"select", "ackwait", "dial", "register"} /\ cur' \in 0..made /\ (cur' # NoTunnel <=> spc' # "select")
      <3> HIDE DEF id
      <3> QED
        BY <1>5, <1>a, <1>b, <2>1 DEF S_HandleConfirm, Work, ServerTyped, NoTunnel, mainVars, Pending, id
    <2> QED
      BY <1>5, <1>a, <2>2, <2>3 DEF S_HandleConfirm, ServerTyped, signalVars, tunnelVars
  <1>6. CASE S_DialOk
    <2>1. cur \in 1..made /\ cur \in Tunnels /\ cur' = cur /\ spc' = "register" /\ spc # "select"
      BY <1>6, <1>a, <1>b DEF S_DialOk, ServerTyped, Work, NoTunnel, Tunnels
    <2> DEFINE o == [tun[cur] EXCEPT !.conn = "open", !.reader = "run", !.loop = "run"]
    <2>2. o \in ServerTunnel /\ o.id = tun[cur].id
      <3>1. tun[cur] \in ServerTunnel
        BY <1>a, <2>1 DEF ServerTyped
      <3> QED
        BY <3>1 DEF ServerTunnel
    <2>3. tun' = [tun EXCEPT ![cur] = o] /\ made' = made
      BY <1>6 DEF S_DialOk
    <2> HIDE DEF o
    <2>4. ObjectsTyped'
      BY <1>a, <2>1, <2>2, <2>3, ObjectChanged
    <2> QED
      BY <1>6, <1>a, <2>1, <2>3, <2>4 DEF S_DialOk, ServerTyped, ObjectsTyped, mapVars, signalVars
  <1>7. CASE S_DialFails
    BY <1>7, <1>a, <1>b DEF S_DialFails, Return, Work, ServerTyped, NoTunnel, mapVars, signalVars, tunnelVars
  <1>8. CASE S_Register
    <2>1. cur \in 0..made /\ cur' = NoTunnel /\ spc' = "select"
      BY <1>8, <1>a DEF S_Register, ServerTyped, Return, Work
    <2>2. connected' \in [IDs -> 0..made]
      BY <1>8, <1>a, <2>1, UpdateType DEF S_Register, ServerTyped
    <2> QED
      BY <1>8, <1>a, <1>b, <2>1, <2>2 DEF S_Register, ServerTyped, NoTunnel, signalVars, tunnelVars
  <1>10. CASE S_TunnelClosed
    <2>1. connected' \in [IDs -> 0..made]
      BY <1>10, <1>a, <1>c, UpdateType DEF S_TunnelClosed, ServerTyped
    <2>2. tunnelClosedCh' \in Seq(IDs)
      BY <1>10, <1>a, SeqStep DEF S_TunnelClosed, ServerTyped
    <2> QED
      BY <1>10, <1>a, <2>1, <2>2 DEF S_TunnelClosed, ServerTyped, mainVars, tunnelVars
  <1>11. ASSUME NEW t \in Tunnels, S_ConfirmTimeout(t) PROVE ServerTyped'
    <2>1. pendingConfirms' \in [IDs -> 0..made]
      BY <1>11, <1>a, <1>c, UpdateType DEF S_ConfirmTimeout, Forget, ServerTyped
    <2>2. tunnelTopics' \subseteq tunnelTopics
      BY <1>11 DEF S_ConfirmTimeout, Unsubscribe
    <2> QED
      BY <1>11, <1>a, <2>1, <2>2 DEF S_ConfirmTimeout, ServerTyped, mainVars, signalVars, tunnelVars
  <1>12. CASE S_Reconnect
    <2>1. pendingConfirms' \in [IDs -> 0..made] /\ connected' \in [IDs -> 0..made]
      BY <1>12, <1>a, <1>b DEF S_Reconnect, ServerTyped, NoTunnel
    <2>2. tunnelTopics' \subseteq tunnelTopics
      BY <1>12 DEF S_Reconnect, Unsubscribe
    <2> QED
      BY <1>12, <1>a, <2>1, <2>2 DEF S_Reconnect, ServerTyped, mainVars, signalVars, tunnelVars
  <1>9. CASE S_HandleClosed
    <2> DEFINE id == Head(controlCh[Server]).id
               t  == connected[id]
               o  == [tun[t] EXCEPT !.closedByRemote = TRUE, !.conn = "closed"]
    <2>1. id \in IDs
      BY <1>9, TakeType DEF S_HandleClosed
    <2>2. connected' \in [IDs -> 0..made]
      <3>1. connected' = [connected EXCEPT ![id] = NoTunnel] \/ UNCHANGED connected
        BY <1>9 DEF S_HandleClosed
      <3> QED
        BY <1>a, <1>c, <3>1, UpdateType DEF ServerTyped
    <2>3. ObjectsTyped'
      <3>1. CASE Connected(id)
        <4>1. t \in 1..made /\ t \in Tunnels
          <5>1. made \in 0..MaxTunnels /\ connected[id] \in 0..made /\ connected[id] # NoTunnel
            BY <1>a, <2>1, <3>1 DEF ServerTyped, Connected
          <5> QED
            BY <1>b, <5>1 DEF NoTunnel, Tunnels
        <4>2. o \in ServerTunnel /\ o.id = tun[t].id
          <5>1. tun[t] \in ServerTunnel
            BY <1>a, <4>1 DEF ServerTyped
          <5> HIDE DEF t, id
          <5> QED
            BY <5>1 DEF ServerTunnel
        <4>3. tun' = [tun EXCEPT ![t] = o] /\ made' = made
          BY <1>9, <3>1 DEF S_HandleClosed, Teardown
        <4> HIDE DEF o, t, id
        <4> QED
          BY <1>a, <4>1, <4>2, <4>3, ObjectChanged
      <3>2. CASE ~Connected(id)
        BY <1>9, <1>a, <3>2 DEF S_HandleClosed, ServerTyped, ObjectsTyped
      <3> QED
        BY <3>1, <3>2
    <2> QED
      BY <1>9, <1>a, <2>2, <2>3 DEF S_HandleClosed, ServerTyped, ObjectsTyped, mainVars, signalVars
  <1>13. ASSUME NEW t \in Tunnels, tun[t].conn # "none" \/ tun[t].reader # "off" \/ tun[t].loop # "off"
         PROVE  t \in 1..made /\ tun[t] \in ServerTunnel
    BY <1>13, <1>a, <1>b DEF ServerTyped, Unmade, Tunnels
  <1>14. ASSUME NEW t \in Tunnels, TargetCloses(t) PROVE ServerTyped'
    <2> DEFINE o == [tun[t] EXCEPT !.conn = "eof"]
    <2>1. t \in 1..made /\ o \in ServerTunnel /\ o.id = tun[t].id
      BY <1>13, <1>14 DEF TargetCloses, ServerTunnel
    <2>2. ObjectsTyped'
      BY <1>14, <1>a, <2>1, ObjectChanged DEF TargetCloses
    <2> QED
      BY <1>14, <1>a, <2>2 DEF TargetCloses, ServerTyped, ObjectsTyped, mainVars, mapVars, signalVars
  <1>15. ASSUME NEW t \in Tunnels, T_ReadEnds(t) PROVE ServerTyped'
    <2> DEFINE o == [tun[t] EXCEPT !.reader = "done", !.conn = "closed"]
    <2>1. t \in 1..made /\ o \in ServerTunnel /\ o.id = tun[t].id
      BY <1>13, <1>15 DEF T_ReadEnds, ServerTunnel
    <2>2. tun' = [tun EXCEPT ![t] = o] /\ made' = made
      BY <1>15 DEF T_ReadEnds
    <2> HIDE DEF o
    <2>3. ObjectsTyped'
      BY <1>a, <2>1, <2>2, ObjectChanged
    <2> QED
      BY <1>15, <1>a, <2>3 DEF T_ReadEnds, ServerTyped, ObjectsTyped, mainVars, mapVars, signalVars
  <1>16. ASSUME NEW t \in Tunnels, T_LoopEnds(t) PROVE ServerTyped'
    <2> DEFINE o == [tun[t] EXCEPT !.loop = "unsub"]
    <2>1. t \in 1..made /\ o \in ServerTunnel /\ o.id = tun[t].id
      BY <1>13, <1>16 DEF T_LoopEnds, ServerTunnel
    <2>2. ObjectsTyped'
      BY <1>16, <1>a, <2>1, ObjectChanged DEF T_LoopEnds
    <2>3. tun[t].id \in IDs
      BY <1>a, <2>1, <1>16 DEF ServerTyped
    <2>4. tunnelClosedCh' \in Seq(IDs) /\ droppedSignals' \subseteq IDs
      <3>1. SignalClosed(tun[t].id)
        BY <1>16 DEF T_LoopEnds
      <3>2. tunnelClosedCh \in Seq(IDs) /\ droppedSignals \subseteq IDs
        BY <1>a DEF ServerTyped
      <3>3. Append(tunnelClosedCh, tun[t].id) \in Seq(IDs)
        BY <2>3, <3>2, SeqStep
      <3> QED
        BY <2>3, <3>1, <3>2, <3>3 DEF SignalClosed
    <2> QED
      BY <1>16, <1>a, <2>2, <2>4 DEF T_LoopEnds, ServerTyped, ObjectsTyped, mainVars, mapVars
  <1>17. ASSUME NEW t \in Tunnels, T_Unsubscribe(t) PROVE ServerTyped'
    <2> DEFINE o == [tun[t] EXCEPT !.loop = "done"]
    <2>1. t \in 1..made /\ o \in ServerTunnel /\ o.id = tun[t].id
      BY <1>13, <1>17 DEF T_Unsubscribe, ServerTunnel
    <2>2. ObjectsTyped'
      BY <1>17, <1>a, <2>1, ObjectChanged DEF T_Unsubscribe
    <2>3. tunnelTopics' \subseteq tunnelTopics
      BY <1>17 DEF T_Unsubscribe, Unsubscribe
    <2> QED
      BY <1>17, <1>a, <2>2, <2>3 DEF T_Unsubscribe, ServerTyped, ObjectsTyped, mainVars, mapVars, signalVars
  <1>18. ASSUME NEW c \in Clients,
                C_Open(c) \/ C_ConnectionLost(c) \/ C_StdinEof(c) \/ C_Receive(c) \/ ClientMain(c)
                  \/ C_Timeout(c) \/ C_LoopEnds(c)
         PROVE  UNCHANGED serverVars
    BY <1>18 DEF C_Open, C_ConnectionLost, C_StdinEof, C_Receive, ClientMain, C_Timeout, C_LoopEnds,
       C_Register, C_HandleAck, C_SubscribeFails, C_IgnoreAck, C_Confirmed, C_FatalFailure,
       C_OtherFailure, C_HandleClosed, C_Done, Exit
  <1>19. ASSUME S_Receive \/ S_DropPacket \/ S_RejectConnect \/ SignalLost \/ LinkUp \/ Resume \/ LinkLost
         PROVE  UNCHANGED serverVars
    BY <1>19 DEF S_Receive, S_DropPacket, S_RejectConnect, SignalLost, LinkUp, Resume, LinkLost
  <1>20. ASSUME NEW n \in Nodes, Redeliver(n) PROVE UNCHANGED serverVars
    BY <1>20 DEF Redeliver
  <1>21. ASSUME NEW id \in HandIDs, HandRequest(id) PROVE UNCHANGED serverVars
    BY <1>21 DEF HandRequest
  <1> QED
    BY <1>1, <1>3, <1>4, <1>5, <1>6, <1>7, <1>8, <1>9, <1>10, <1>11, <1>12, <1>14, <1>15, <1>16, <1>17,
       <1>18, <1>19, <1>20, <1>21
    DEF Next, Environment, ServerMain, Callback, vars

(***************************************************************************)
(* Every variable keeps its type, and every tunnel that a map, a timer or  *)
(* handleControl names has been created.                                   *)
(***************************************************************************)
THEOREM TypeCorrect == Spec => []TypeOK
  <1>1. TypeOK /\ [Next]_vars => TypeOK'
    BY PacketsNext, LinkNext, ServerNext, ClientNext DEF TypeOK
  <1> QED
    BY InitType, <1>1, PTL DEF Spec
=============================================================================
