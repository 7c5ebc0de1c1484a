----------------------- MODULE TunnelResources_proofs -----------------------
(***************************************************************************)
(* What holds as long as the broker delivers every control packet once:    *)
(* each client gets one tunnel, its data finds it subscribed, and every    *)
(* TCP connection is one that a closed packet can end.  And what holds as  *)
(* long as the server stays connected: its subscriptions are those of its  *)
(* live tunnels.                                                           *)
(***************************************************************************)
EXTENDS TunnelAgreement_proofs

-----------------------------------------------------------------------------
(* Requests of one client in a queue of packets. *)

IsRequest(m, c) == m.type = "connect" /\ m.id = c
Holds(q, c) == \E i \in DOMAIN q : IsRequest(q[i], c)
Once(q, c)  == \A i, j \in DOMAIN q : IsRequest(q[i], c) /\ IsRequest(q[j], c) => i = j

LEMMA AppendRequest ==
    ASSUME NEW S, NEW q \in Seq(S), NEW m \in S, NEW c
    PROVE  /\ Holds(Append(q, m), c) => Holds(q, c) \/ IsRequest(m, c)
           /\ Once(q, c) /\ ~(Holds(q, c) /\ IsRequest(m, c)) => Once(Append(q, m), c)
  <1> DEFINE n == Len(q)
             a == Append(q, m)
  <1>1. /\ n \in Nat /\ DOMAIN q = 1..n /\ DOMAIN a = 1..n + 1
        /\ a[n + 1] = m /\ \A i \in 1..n : a[i] = q[i]
    OBVIOUS
  <1> HIDE DEF n, a
  <1>2. \A i \in DOMAIN a : i = n + 1 \/ i \in DOMAIN q
    BY <1>1
  <1>3. Holds(a, c) => Holds(q, c) \/ IsRequest(m, c)
    BY <1>1, <1>2 DEF Holds
  <1>4. ASSUME Once(q, c), ~(Holds(q, c) /\ IsRequest(m, c)) PROVE Once(a, c)
    <2> SUFFICES ASSUME NEW i \in DOMAIN a, NEW j \in DOMAIN a, IsRequest(a[i], c), IsRequest(a[j], c)
                 PROVE  i = j
      BY DEF Once
    <2>1. CASE i \in DOMAIN q /\ j \in DOMAIN q
      BY <1>1, <1>4, <2>1 DEF Once
    <2>2. CASE i = n + 1 /\ j \in DOMAIN q
      BY <1>1, <1>4, <2>2 DEF Holds
    <2>3. CASE j = n + 1 /\ i \in DOMAIN q
      BY <1>1, <1>4, <2>3 DEF Holds
    <2> QED
      BY <1>2, <2>1, <2>2, <2>3
  <1> QED
    BY <1>3, <1>4 DEF a

LEMMA TailRequest ==
    ASSUME NEW S, NEW q \in Seq(S), q # <<>>, NEW c
    PROVE  /\ Holds(Tail(q), c) => Holds(q, c)
           /\ IsRequest(Head(q), c) => Holds(q, c)
           /\ Once(q, c) => Once(Tail(q), c) /\ ~(IsRequest(Head(q), c) /\ Holds(Tail(q), c))
  <1> DEFINE n == Len(q)
             t == Tail(q)
  <1>1. /\ n \in Nat \ {0} /\ DOMAIN q = 1..n /\ DOMAIN t = 1..n - 1
        /\ Head(q) = q[1] /\ \A i \in 1..n - 1 : t[i] = q[i + 1]
    OBVIOUS
  <1> HIDE DEF n, t
  <1>2. 1 \in DOMAIN q /\ \A i \in DOMAIN t : i + 1 \in DOMAIN q /\ i + 1 # 1 /\ t[i] = q[i + 1] /\ i \in Int
    BY <1>1
  <1>3. Holds(t, c) => Holds(q, c)
    BY <1>2 DEF Holds
  <1>4. IsRequest(Head(q), c) => Holds(q, c)
    BY <1>1, <1>2 DEF Holds
  <1>5. ASSUME Once(q, c) PROVE Once(t, c)
    <2> SUFFICES ASSUME NEW i \in DOMAIN t, NEW j \in DOMAIN t, IsRequest(t[i], c), IsRequest(t[j], c)
                 PROVE  i = j
      BY DEF Once
    <2>1. i + 1 = j + 1
      BY <1>2, <1>5 DEF Once
    <2> QED
      BY <1>2, <2>1
  <1>6. ASSUME Once(q, c), IsRequest(Head(q), c) PROVE ~Holds(t, c)
    <2> SUFFICES ASSUME NEW i \in DOMAIN t, IsRequest(t[i], c) PROVE FALSE
      BY DEF Holds
    <2> QED
      BY <1>1, <1>2, <1>6 DEF Once
  <1> QED
    BY <1>3, <1>4, <1>5, <1>6 DEF t

LEMMA NoRequest == \A c : ~Holds(<<>>, c) /\ Once(<<>>, c)
  BY DEF Holds, Once

-----------------------------------------------------------------------------
(* The invariants. *)

\* The server has made a tunnel for client c.
Served(c) == \E t \in 1..made : tun[t].id = c

\* There is one request of a client at most, in one place or as a tunnel.
QueuedOnce(c) ==
    /\ Once(inbox[Server], c) /\ Once(controlCh[Server], c)
    /\ ~(Holds(inbox[Server], c) /\ Holds(controlCh[Server], c))
    /\ Holds(inbox[Server], c) \/ Holds(controlCh[Server], c) => ~Served(c) /\ client[c].state # "init"
ServedOnce(c) ==
    /\ \A t, u \in 1..made : tun[t].id = c /\ tun[u].id = c => t = u
    /\ Served(c) => client[c].state # "init"
OneRequest == \A c \in Clients : QueuedOnce(c) /\ ServedOnce(c)

\* The client of a tunnel that may be dialled for is subscribed or gone.
Ready(id) == id \in Clients /\ (client[id].sub # NoTopic \/ client[id].state = "exited")
Readied   == {m \in controlPacket : m.type = "connect_confirm" => Ready(m.id)}
ConfirmsReady == inbox[Server] \in Seq(Readied) /\ controlCh[Server] \in Seq(Readied)

Dialed(t)   == tun[t].conn # "none" \/ tun[t].loop # "off" \/ (spc = "dial" /\ cur = t)
DialedReady == \A t \in Tunnels : Dialed(t) => Ready(tun[t].id)

StoredFailures == stored \in Seq({m \in controlPacket : m.type = "failure"})

OnceInv == OneRequest /\ ConfirmsReady /\ DialedReady /\ StoredFailures

-----------------------------------------------------------------------------
(* What a step does to the client's record, to the server's two queues and *)
(* to the IDs of its tunnels.                                              *)

ClientGoesOn == \A c \in Clients : /\ client'[c].state = "init" => client[c].state = "init"
                                   /\ Ready(c) => Ready(c)'

\* A packet that may be published in this step.
Fresh(m) ==
    \/ m.type \notin {"connect", "connect_confirm"}
    \/ m.type = "connect" /\ m.id \in Clients /\ client[m.id].state = "init" /\ client'[m.id].state # "init"
    \/ m.type = "connect" /\ m.id \notin Clients
    \/ m.type = "connect_confirm" /\ Ready(m.id)'

Arrives == \/ inbox'[Server] = inbox[Server]
           \/ \E m \in controlPacket : Fresh(m) /\ inbox'[Server] = Append(inbox[Server], m)

SameIDs == made' = made /\ \A t \in 1..made : tun'[t].id = tun[t].id
NewID   == /\ Head(controlCh[Server]).type = "connect"
           /\ made' = made + 1 /\ tun'[made + 1].id = Head(controlCh[Server]).id
           /\ \A t \in 1..made : tun'[t].id = tun[t].id

Moves == /\ inbox[Server] # <<>> /\ inbox'[Server] = Tail(inbox[Server])
         /\ controlCh'[Server] = Append(controlCh[Server], Head(inbox[Server]))
         /\ SameIDs
Takes == /\ controlCh[Server] # <<>> /\ controlCh'[Server] = Tail(controlCh[Server])
         /\ Arrives
         /\ SameIDs \/ NewID
Stays == /\ controlCh'[Server] = controlCh[Server]
         /\ \/ Arrives
            \/ inbox'[Server] = <<>>
            \/ inbox[Server] # <<>> /\ inbox'[Server] = Tail(inbox[Server])
         /\ SameIDs
QueueStep == Moves \/ Takes \/ Stays

-----------------------------------------------------------------------------
(* The invariants survive such a step. *)

LEMMA QueueTypes ==
    ASSUME TypeOK
    PROVE  /\ inbox[Server] \in Seq(controlPacket) /\ controlCh[Server] \in Seq(controlPacket)
           /\ made \in Nat
  <1>1. Server \in Nodes
    BY DEF Nodes
  <1>2. made \in Nat
    <2>1. MaxTunnels \in Nat /\ made \in 0..MaxTunnels
      BY RegistryTypes
    <2> QED
      BY <2>1
  <1> QED
    BY <1>1, <1>2 DEF TypeOK, PacketsTyped

\* Requests of client c in what is published now: none, or the first.
LEMMA ArrivesRequest ==
    ASSUME TypeOK, Arrives, NEW c \in Clients, QueuedOnce(c), ServedOnce(c)
    PROVE  /\ Once(inbox'[Server], c)
           /\ \/ Holds(inbox'[Server], c) => Holds(inbox[Server], c)
              \/ /\ ~Holds(inbox[Server], c) /\ ~Holds(controlCh[Server], c) /\ ~Served(c)
                 /\ client'[c].state # "init"
  <1>1. CASE inbox'[Server] = inbox[Server]
    BY <1>1 DEF QueuedOnce
  <1>2. ASSUME NEW m \in controlPacket, Fresh(m), inbox'[Server] = Append(inbox[Server], m)
        PROVE  /\ Once(inbox'[Server], c)
               /\ \/ Holds(inbox'[Server], c) => Holds(inbox[Server], c)
                  \/ /\ ~Holds(inbox[Server], c) /\ ~Holds(controlCh[Server], c) /\ ~Served(c)
                     /\ client'[c].state # "init"
    <2>1. /\ Holds(inbox'[Server], c) => Holds(inbox[Server], c) \/ IsRequest(m, c)
          /\ ~(Holds(inbox[Server], c) /\ IsRequest(m, c)) => Once(inbox'[Server], c)
      BY <1>2, QueueTypes, AppendRequest DEF QueuedOnce
    <2>2. CASE ~IsRequest(m, c)
      BY <2>1, <2>2
    <2>3. CASE IsRequest(m, c)
      <3>1. client[c].state = "init" /\ client'[c].state # "init"
        BY <1>2, <2>3 DEF Fresh, IsRequest
      <3>2. ~Holds(inbox[Server], c) /\ ~Holds(controlCh[Server], c) /\ ~Served(c)
        BY <3>1 DEF QueuedOnce, ServedOnce
      <3> QED
        BY <2>1, <3>1, <3>2
    <2> QED
      BY <2>2, <2>3
  <1> QED
    BY <1>1, <1>2 DEF Arrives

LEMMA OneRequestStep ==
    ASSUME TypeOK, OneRequest, ClientGoesOn, QueueStep, NEW c \in Clients
    PROVE  QueuedOnce(c)' /\ ServedOnce(c)'
  <1>1. QueuedOnce(c) /\ ServedOnce(c) /\ (client'[c].state = "init" => client[c].state = "init")
    BY DEF OneRequest, ClientGoesOn
  <1>2. ASSUME SameIDs PROVE (Served(c)' <=> Served(c)) /\ ServedOnce(c)'
    BY <1>1, <1>2 DEF SameIDs, Served, ServedOnce
  <1>3. inbox[Server] \in Seq(controlPacket) /\ controlCh[Server] \in Seq(controlPacket) /\ made \in Nat
    BY QueueTypes
  <1>4. inbox[Server] # <<>> =>
          /\ Head(inbox[Server]) \in controlPacket
          /\ Holds(Tail(inbox[Server]), c) => Holds(inbox[Server], c)
          /\ IsRequest(Head(inbox[Server]), c) => Holds(inbox[Server], c)
          /\ Once(Tail(inbox[Server]), c)
          /\ ~(IsRequest(Head(inbox[Server]), c) /\ Holds(Tail(inbox[Server]), c))
    BY <1>1, <1>3, SeqStep, TailRequest DEF QueuedOnce
  <1>5. controlCh[Server] # <<>> =>
          /\ Holds(Tail(controlCh[Server]), c) => Holds(controlCh[Server], c)
          /\ IsRequest(Head(controlCh[Server]), c) => Holds(controlCh[Server], c)
          /\ Once(Tail(controlCh[Server]), c)
          /\ ~(IsRequest(Head(controlCh[Server]), c) /\ Holds(Tail(controlCh[Server]), c))
    BY <1>1, <1>3, SeqStep, TailRequest DEF QueuedOnce
  <1>6. CASE Moves
    <2>1. /\ inbox[Server] # <<>> /\ inbox'[Server] = Tail(inbox[Server])
          /\ controlCh'[Server] = Append(controlCh[Server], Head(inbox[Server])) /\ SameIDs
      BY <1>6 DEF Moves
    <2>2. /\ Holds(controlCh'[Server], c) => Holds(controlCh[Server], c) \/ IsRequest(Head(inbox[Server]), c)
          /\ Once(controlCh'[Server], c)
      <3>1. /\ Holds(controlCh'[Server], c) => Holds(controlCh[Server], c) \/ IsRequest(Head(inbox[Server]), c)
            /\ Once(controlCh[Server], c) /\ ~(Holds(controlCh[Server], c) /\ IsRequest(Head(inbox[Server]), c))
                 => Once(controlCh'[Server], c)
        BY <1>3, <1>4, <2>1, AppendRequest
      <3> QED
        BY <1>1, <1>4, <2>1, <3>1 DEF QueuedOnce
    <2> QED
      BY <1>1, <1>2, <1>4, <2>1, <2>2 DEF QueuedOnce
  <1>7. CASE Stays
    <2>1. controlCh'[Server] = controlCh[Server] /\ SameIDs
      BY <1>7 DEF Stays
    <2>2. CASE Arrives
      BY <1>1, <1>2, <2>1, <2>2, ArrivesRequest DEF QueuedOnce
    <2>3. CASE inbox'[Server] = <<>>
      BY <1>1, <1>2, <2>1, <2>3, NoRequest DEF QueuedOnce
    <2>4. CASE inbox[Server] # <<>> /\ inbox'[Server] = Tail(inbox[Server])
      BY <1>1, <1>2, <1>4, <2>1, <2>4 DEF QueuedOnce
    <2> QED
      BY <1>7, <2>2, <2>3, <2>4 DEF Stays
  <1>8. CASE Takes
    <2>1. controlCh[Server] # <<>> /\ controlCh'[Server] = Tail(controlCh[Server]) /\ Arrives
      BY <1>8 DEF Takes
    <2>2. /\ Once(inbox'[Server], c)
          /\ \/ Holds(inbox'[Server], c) => Holds(inbox[Server], c)
             \/ /\ ~Holds(inbox[Server], c) /\ ~Holds(controlCh[Server], c) /\ ~Served(c)
                /\ client'[c].state # "init"
      BY <1>1, <2>1, ArrivesRequest
    <2>3. CASE SameIDs
      BY <1>1, <1>2, <1>5, <2>1, <2>2, <2>3 DEF QueuedOnce
    <2>4. CASE NewID
      <3>1. /\ made' = made + 1 /\ tun'[made + 1].id = Head(controlCh[Server]).id
            /\ Head(controlCh[Server]).type = "connect" /\ \A t \in 1..made : tun'[t].id = tun[t].id
        BY <2>4 DEF NewID
      <3>2. \A t \in 1..made' : t = made + 1 \/ t \in 1..made
        BY <1>3, <3>1
      <3>3. CASE Head(controlCh[Server]).id # c
        <4>1. Served(c)' => Served(c)
          BY <3>1, <3>2, <3>3 DEF Served
        <4>2. ServedOnce(c)'
          BY <1>1, <3>1, <3>2, <3>3, <4>1 DEF ServedOnce
        <4> QED
          BY <1>1, <1>5, <2>1, <2>2, <4>1, <4>2 DEF QueuedOnce
      <3>4. CASE Head(controlCh[Server]).id = c
        <4>1. IsRequest(Head(controlCh[Server]), c)
          BY <3>1, <3>4 DEF IsRequest
        <4>2. /\ Holds(controlCh[Server], c) /\ ~Served(c) /\ client[c].state # "init"
              /\ ~Holds(inbox[Server], c) /\ ~Holds(controlCh'[Server], c) /\ ~Holds(inbox'[Server], c)
          BY <1>1, <1>5, <2>1, <2>2, <4>1 DEF QueuedOnce
        <4>3. ServedOnce(c)'
          BY <1>1, <3>1, <3>2, <4>2 DEF ServedOnce, Served
        <4> QED
          BY <1>5, <2>1, <2>2, <4>2, <4>3 DEF QueuedOnce
      <3> QED
        BY <3>3, <3>4
    <2> QED
      BY <1>8, <2>3, <2>4 DEF Takes
  <1> QED
    BY <1>6, <1>7, <1>8 DEF QueueStep

\* Confirms on their way to the server are of clients that stay ready.
LEMMA ConfirmsStep ==
    ASSUME TypeOK, ConfirmsReady, ClientGoesOn, QueueStep
    PROVE  ConfirmsReady'
  <1> DEFINE R == Readied'
  <1>1. Readied \subseteq R
    BY DEF ClientGoesOn, Readied, Ready
  <1>2. \A m \in controlPacket : Fresh(m) => m \in R
    BY DEF Fresh, Readied
  <1> HIDE DEF R
  <1>3. inbox[Server] \in Seq(R) /\ controlCh[Server] \in Seq(R) /\ <<>> \in Seq(R)
    BY <1>1, SeqWider DEF ConfirmsReady
  <1>4. /\ \A m \in R : Append(inbox[Server], m) \in Seq(R) /\ Append(controlCh[Server], m) \in Seq(R)
        /\ inbox[Server] # <<>> => Head(inbox[Server]) \in R /\ Tail(inbox[Server]) \in Seq(R)
        /\ controlCh[Server] # <<>> => Tail(controlCh[Server]) \in Seq(R)
    BY <1>3, SeqStep
  <1>5. Arrives => inbox'[Server] \in Seq(R)
    BY <1>2, <1>3, <1>4 DEF Arrives
  <1>6. inbox'[Server] \in Seq(R) /\ controlCh'[Server] \in Seq(R)
    BY <1>3, <1>4, <1>5 DEF QueueStep, Moves, Takes, Stays
  <1> QED
    BY <1>6 DEF ConfirmsReady, R
-----------------------------------------------------------------------------
(* Every step is such a step, as long as nothing is delivered twice. *)

ClientRuns(d) ==
    \/ C_Open(d) \/ C_ConnectionLost(d) \/ C_StdinEof(d) \/ C_Receive(d) \/ ClientMain(d)
    \/ C_Timeout(d) \/ C_LoopEnds(d)

\* A process starts once and does not come back.
Lives(c) == /\ client'[c].state = "init" => client[c].state = "init"
            /\ client[c].state = "exited" => client'[c].state = "exited"

LEMMA LivesStep ==
    ASSUME TypeOK, NEW c \in Clients, NEW d \in Clients, ClientRuns(d)
    PROVE  Lives(c)
  <1>a. client \in [Clients -> ClientProcess] /\ client[d] \in ClientProcess
    BY DEF TypeOK
  <1>2. CASE C_Open(d)
    <2>1. client' = [client EXCEPT ![d] = [client[d] EXCEPT !.state = "opening"]] /\ client[d].state = "init"
      BY <1>2 DEF C_Open
    <2> QED
      BY <1>a, <2>1 DEF Lives, ClientProcess
  <1>3. CASE C_Register(d)
    <2>1. client' = [client EXCEPT ![d] = [client[d] EXCEPT !.state = "waiting"]] /\ client[d].state = "opening"
      BY <1>3 DEF C_Register
    <2> QED
      BY <1>a, <2>1 DEF Lives, ClientProcess
  <1>4. CASE C_StdinEof(d)
    <2>1. client' = [client EXCEPT ![d] = [client[d] EXCEPT !.eof = TRUE]]
      BY <1>4 DEF C_StdinEof
    <2> QED
      BY <1>a, <2>1 DEF Lives, ClientProcess
  <1>5. CASE C_LoopEnds(d)
    <2>1. client' = [client EXCEPT ![d] = [client[d] EXCEPT !.done = TRUE, !.loop = "done"]]
      BY <1>5 DEF C_LoopEnds
    <2> QED
      BY <1>a, <2>1 DEF Lives, ClientProcess
  <1>6. CASE Exit(d)
    <2>1. client' = [client EXCEPT ![d] = [client[d] EXCEPT !.state = "exited"]]
      BY <1>6 DEF Exit
    <2> QED
      BY <1>a, <2>1 DEF Lives, ClientProcess
  <1>7. CASE C_HandleAck(d)
    <2>1. client[d].state = "waiting"
      BY <1>7 DEF C_HandleAck, C_Take, ClientSelect, AckWaiting
    <2>2. PICK x, y : client' = [client EXCEPT ![d] = [client[d] EXCEPT !.pub = x, !.sub = y, !.state = "confirming"]]
      BY <1>7 DEF C_HandleAck, TakeTopics
    <2> QED
      BY <1>a, <2>1, <2>2 DEF Lives, ClientProcess
  <1>8. CASE C_SubscribeFails(d)
    <2>1. PICK x : client' = [client EXCEPT ![d] = [client[d] EXCEPT !.pub = x]]
      BY <1>8 DEF C_SubscribeFails
    <2> QED
      BY <1>a, <2>1 DEF Lives, ClientProcess
  <1>9. CASE C_Confirmed(d)
    <2>1. client' = [client EXCEPT ![d] = [client[d] EXCEPT !.state = "connected", !.loop = "run"]]
          /\ client[d].state = "confirming"
      BY <1>9 DEF C_Confirmed
    <2> QED
      BY <1>a, <2>1 DEF Lives, ClientProcess
  <1>10. CASE C_OtherFailure(d)
    <2>1. PICK x : client' = [client EXCEPT ![d] = [client[d] EXCEPT !.state = x]] /\ x \in {"failed", client[d].state}
      BY <1>10 DEF C_OtherFailure
    <2>2. client[d].state # "exited"
      BY <1>10 DEF C_OtherFailure, C_Take, ClientSelect
    <2> QED
      BY <1>a, <2>1, <2>2 DEF Lives, ClientProcess
  <1>11. CASE C_HandleClosed(d)
    <2>1. PICK x, y : /\ client' = [client EXCEPT ![d] = [client[d] EXCEPT !.state = x, !.closedByRemote = y, !.done = TRUE]]
                      /\ x \in {"closed", client[d].state}
      BY <1>11 DEF C_HandleClosed
    <2>2. client[d].state # "exited"
      BY <1>11 DEF C_HandleClosed, C_Take, ClientSelect
    <2> QED
      BY <1>a, <2>1, <2>2 DEF Lives, ClientProcess
  <1>12. CASE UNCHANGED client
    BY <1>12 DEF Lives
  <1> QED
    BY <1>2, <1>3, <1>4, <1>5, <1>6, <1>7, <1>8, <1>9, <1>10, <1>11, <1>12
    DEF ClientRuns, ClientMain, C_FatalFailure, C_Done, C_Timeout, C_ConnectionLost, C_Receive, C_IgnoreAck

LEMMA ClientGoesOnNext ==
    ASSUME TypeOK, PacketsGenuine, [Next]_vars
    PROVE  ClientGoesOn
  <1> SUFFICES ASSUME NEW c \in Clients
               PROVE  (client'[c].state = "init" => client[c].state = "init") /\ (Ready(c) => Ready(c)')
    BY DEF ClientGoesOn
  <1>1. Lives(c)
    <2>1. CASE \E d \in Clients : ClientRuns(d)
      BY <2>1, LivesStep
    <2>2. CASE UNCHANGED client
      BY <2>2 DEF Lives
    <2>3. CASE ServerMain \/ Callback
      BY <2>2, <2>3 DEF ServerMain, Callback, S_RejectConnect, S_AcceptConnect, S_SubscribeFails, S_AckSent,
         S_HandleConfirm, S_DialOk, S_DialFails, S_Register, S_HandleClosed, S_TunnelClosed, S_Reconnect, SignalLost
    <2>4. CASE OtherSteps
      BY <2>2, <2>4 DEF OtherSteps, Redeliver, HandRequest, S_Receive, S_DropPacket, LinkLost, LinkUp, Resume,
         TargetCloses, S_ConfirmTimeout, T_ReadEnds, T_LoopEnds, T_Unsubscribe
    <2>5. CASE UNCHANGED vars
      BY <2>2, <2>5 DEF vars
    <2> QED
      BY <2>1, <2>3, <2>4, <2>5 DEF Next, Environment, OtherSteps, ClientRuns
  <1>2. client[c].sub # NoTopic => client'[c].sub # NoTopic
    <2>1. \A m \in GenuineTo(c) : m.type = "connect_ack" => m.serverPub # NoTopic
      BY QueueTypes DEF GenuineTo, Genuine, ClientPubTopic, Topic, NoTopic, NoTunnel
    <2>2. ClientKept(c) \/ ClientUnsubscribed(c) \/ \E m \in GenuineTo(c) : ClientTakes(c, m)
      BY ClientsNext
    <2> QED
      BY <2>1, <2>2 DEF ClientKept, ClientUnsubscribed, ClientTakes
  <1> QED
    BY <1>1, <1>2 DEF Lives, Ready
\* Publishing a packet.
LEMMA PublishArrives ==
    ASSUME TypeOK, NEW m \in controlPacket, Fresh(m), Publish(m) \/ PublishQoS0(m) \/ ServerPublish(m)
    PROVE  Arrives
  <1>1. Publish(m) => inbox'[Server] = inbox[Server] \/ inbox'[Server] = Append(inbox[Server], m)
    BY DEF Publish, Nodes
  <1>2. Publish(m) \/ UNCHANGED inbox
    BY DEF PublishQoS0, ServerPublish
  <1> QED
    BY <1>1, <1>2 DEF Arrives

LEMMA ClientQueues ==
    ASSUME TypeOK, PacketsGenuine, NEW d \in Clients, ClientRuns(d)
    PROVE  Stays
  <1>a. d # Server /\ Server \in Nodes /\ d \in Nodes /\ d \in IDs
    BY ServerAssumption DEF Nodes, IDs
  <1>b. /\ inbox \in [Nodes -> Seq(controlPacket)] /\ controlCh \in [Nodes -> Seq(controlPacket)]
        /\ client \in [Clients -> ClientProcess]
    BY DEF TypeOK, PacketsTyped
  <1>1. SameIDs
    BY DEF ClientRuns, C_Open, C_ConnectionLost, C_StdinEof, C_Receive, ClientMain, C_Timeout, C_LoopEnds,
       C_Register, C_HandleAck, C_SubscribeFails, C_IgnoreAck, C_Confirmed, C_FatalFailure,
       C_OtherFailure, C_HandleClosed, C_Done, Exit, serverVars, tunnelVars, SameIDs
  <1>2. controlCh'[Server] = controlCh[Server]
    <2>1. CASE Exit(d)
      BY <1>a, <1>b, <2>1 DEF Exit
    <2>2. CASE Consume(d)
      BY <1>a, <1>b, <2>2 DEF Consume
    <2>3. CASE UNCHANGED controlCh
      BY <2>3
    <2>4. CASE C_Receive(d)
      BY <1>a, <1>b, <2>4 DEF C_Receive
    <2> QED
      BY <2>1, <2>2, <2>3, <2>4
      DEF ClientRuns, C_Open, C_ConnectionLost, C_StdinEof, ClientMain, C_Timeout, C_LoopEnds,
          C_Register, C_HandleAck, C_SubscribeFails, C_IgnoreAck, C_Confirmed, C_FatalFailure,
          C_OtherFailure, C_HandleClosed, C_Done, netVars
  <1>3. CASE inbox'[Server] = inbox[Server]
    BY <1>1, <1>2, <1>3 DEF Stays, Arrives
  <1>4. CASE C_Open(d)
    <2>1. /\ client[d].state = "init" /\ client' = [client EXCEPT ![d] = [client[d] EXCEPT !.state = "opening"]]
          /\ Publish(createConnectRequest(d))
      BY <1>4 DEF C_Open
    <2>2. client'[d].state = "opening"
      BY <1>b, <2>1 DEF ClientProcess
    <2>3. createConnectRequest(d) \in controlPacket /\ createConnectRequest(d).type = "connect"
          /\ createConnectRequest(d).id = d
      BY <1>a, PacketType DEF createConnectRequest, Bare
    <2>4. Fresh(createConnectRequest(d))
      BY <2>1, <2>2, <2>3 DEF Fresh
    <2> QED
      BY <1>1, <1>2, <2>1, <2>3, <2>4, PublishArrives DEF Stays
  <1>5. CASE C_HandleAck(d)
    <2> DEFINE m == Head(controlCh[d])
    <2>1. /\ controlCh[d] # <<>> /\ m.type = "connect_ack" /\ client' = TakeTopics(d, m)
          /\ Publish(createConnectConfirm(d))
      BY <1>5 DEF C_HandleAck, C_Take
    <2>2. m \in GenuineTo(d)
      BY <2>1, SeqStep DEF PacketsGenuine
    <2> HIDE DEF m
    <2>3. m.serverPub # NoTopic
      BY <2>1, <2>2, QueueTypes DEF GenuineTo, Genuine, ClientPubTopic, Topic, NoTopic, NoTunnel
    <2>4. client'[d] = [client[d] EXCEPT !.pub = m.clientPub, !.sub = m.serverPub, !.state = "confirming"]
      BY <1>b, <2>1 DEF TakeTopics
    <2>5. client'[d].sub # NoTopic
      BY <1>b, <2>3, <2>4 DEF ClientProcess
    <2>6. createConnectConfirm(d) \in controlPacket /\ createConnectConfirm(d).type = "connect_confirm"
          /\ createConnectConfirm(d).id = d
      BY <1>a, PacketType DEF createConnectConfirm, Bare
    <2>7. Fresh(createConnectConfirm(d))
      BY <2>5, <2>6 DEF Fresh, Ready
    <2> QED
      BY <1>1, <1>2, <2>1, <2>6, <2>7, PublishArrives DEF Stays
  <1>6. CASE C_LoopEnds(d)
    <2>1. createConnectionClosed(d, "client") \in controlPacket /\ createConnectionClosed(d, "client").type = "closed"
      BY <1>a, PacketType DEF createConnectionClosed, Bare
    <2>2. Fresh(createConnectionClosed(d, "client"))
      BY <2>1 DEF Fresh
    <2>3. UNCHANGED inbox \/ PublishQoS0(createConnectionClosed(d, "client"))
      BY <1>6 DEF C_LoopEnds
    <2>4. Arrives
      BY <2>1, <2>2, <2>3, PublishArrives DEF Arrives
    <2> QED
      BY <1>1, <1>2, <2>4 DEF Stays
  <1>7. CASE C_Receive(d)
    BY <1>3, <1>7, <1>a, <1>b DEF C_Receive, HandOver
  <1>8. CASE Exit(d)
    BY <1>3, <1>8, <1>a, <1>b DEF Exit
  <1> QED
    BY <1>3, <1>4, <1>5, <1>6, <1>7, <1>8
    DEF ClientRuns, C_ConnectionLost, C_StdinEof, ClientMain, C_Timeout,
        C_Register, C_SubscribeFails, C_IgnoreAck, C_Confirmed, C_FatalFailure,
        C_OtherFailure, C_HandleClosed, C_Done, netVars

LEMMA ServerQueues ==
    ASSUME TypeOK, IDsKept, ServerMain \/ Callback
    PROVE  QueueStep
  <1>a. PacketsTyped /\ Server \in Nodes /\ controlCh \in [Nodes -> Seq(controlPacket)]
    BY DEF TypeOK, PacketsTyped, Nodes
  <1>1. ASSUME UNCHANGED made PROVE SameIDs
    BY <1>1 DEF SameIDs, IDsKept
  <1>2. ASSUME NEW type, S_Take(type)
        PROVE  /\ controlCh[Server] # <<>> /\ controlCh'[Server] = Tail(controlCh[Server])
               /\ Head(controlCh[Server]).type = type
    BY <1>2, <1>a DEF S_Take, Consume
  <1>3. CASE S_RejectConnect
    <2> DEFINE id == Head(controlCh[Server]).id
               reason == Refusal(Head(controlCh[Server]))
    <2>1. id \in IDs /\ reason \in Reasons /\ ServerPublish(createFailure(id, reason))
      BY <1>3, TakeType DEF S_RejectConnect, Refusal, Reasons
    <2> HIDE DEF id, reason
    <2>2. createFailure(id, reason) \in controlPacket /\ createFailure(id, reason).type = "failure"
      BY <2>1, PacketType DEF createFailure, Bare
    <2>3. Fresh(createFailure(id, reason))
      BY <2>2 DEF Fresh
    <2>4. Arrives
      BY <2>1, <2>2, <2>3, PublishArrives
    <2>5. SameIDs
      BY <1>1, <1>3 DEF S_RejectConnect, serverVars, tunnelVars
    <2> QED
      BY <1>2, <1>3, <2>4, <2>5 DEF S_RejectConnect, QueueStep, Takes
  <1>4. CASE S_AcceptConnect \/ S_SubscribeFails
    <2> DEFINE id == Head(controlCh[Server]).id
    <2>1. /\ id \in IDs /\ made < MaxTunnels /\ made' = made + 1 /\ tun' = [tun EXCEPT ![made + 1].id = id]
          /\ S_Take("connect") /\ (Publish(createAck(id, made + 1)) \/ UNCHANGED inbox)
      BY <1>4, TakeType DEF S_AcceptConnect, S_SubscribeFails, NewTunnel
    <2>2. Head(controlCh[Server]).type = "connect" /\ controlCh[Server] # <<>>
          /\ controlCh'[Server] = Tail(controlCh[Server])
      BY <1>2, <2>1
    <2>3. MaxTunnels \in Nat /\ made \in 0..MaxTunnels /\ tun \in [Tunnels -> ServerTunnel]
      BY RegistryTypes
    <2>4. made + 1 \in Tunnels
      BY <2>1, <2>3 DEF Tunnels
    <2>5. tun'[made + 1].id = id
      <3> HIDE DEF id
      <3> QED
        BY <2>1, <2>3, <2>4 DEF ServerTunnel
    <2>6. NewID
      BY <2>1, <2>2, <2>5 DEF NewID, IDsKept
    <2>7. createAck(id, made + 1) \in controlPacket /\ createAck(id, made + 1).type = "connect_ack"
      BY <2>1, <2>4, PacketType DEF createAck, Bare
    <2>8. Fresh(createAck(id, made + 1))
      BY <2>7 DEF Fresh
    <2>9. Arrives
      BY <2>1, <2>7, <2>8, PublishArrives DEF Arrives
    <2> QED
      BY <2>2, <2>6, <2>9 DEF QueueStep, Takes
  <1>5. CASE S_HandleConfirm \/ S_HandleClosed
    <2>1. SameIDs /\ Arrives
      BY <1>1, <1>5 DEF S_HandleConfirm, S_HandleClosed, tunnelVars, Arrives
    <2> QED
      BY <1>2, <1>5, <2>1 DEF S_HandleConfirm, S_HandleClosed, QueueStep, Takes
  <1>6. CASE UNCHANGED <<netVars, made>>
    BY <1>1, <1>6 DEF netVars, QueueStep, Stays, Arrives
  <1> QED
    BY <1>3, <1>4, <1>5, <1>6 DEF ServerMain, Callback, S_AckSent, S_DialOk, S_DialFails, S_Register,
       S_TunnelClosed, S_Reconnect, SignalLost, tunnelVars, serverVars

\* Only the failure packet of a refused request is ever stored.
LEMMA StoredFailuresNext ==
    ASSUME TypeOK, StoredFailures, [Next]_vars
    PROVE  StoredFailures'
  <1> DEFINE Storable == {m \in controlPacket : m.type = "failure"}
  <1>1. stored \in Seq(Storable)
    BY DEF StoredFailures
  <1>2. CASE S_RejectConnect
    <2> DEFINE id == Head(controlCh[Server]).id
               reason == Refusal(Head(controlCh[Server]))
    <2>1. id \in IDs /\ reason \in Reasons /\ ServerPublish(createFailure(id, reason))
      BY <1>2, TakeType DEF S_RejectConnect, Refusal, Reasons
    <2> HIDE DEF id, reason
    <2>2. createFailure(id, reason) \in Storable
      BY <2>1, PacketType DEF createFailure, Bare
    <2>3. Append(stored, createFailure(id, reason)) \in Seq(Storable)
      BY <1>1, <2>2, SeqStep
    <2> QED
      BY <1>1, <2>1, <2>3 DEF ServerPublish, StoredFailures
  <1>3. CASE Resume
    BY <1>1, <1>3, SeqStep DEF Resume, StoredFailures
  <1>4. CASE UNCHANGED stored
    BY <1>1, <1>4 DEF StoredFailures
  <1>5. ASSUME NEW d \in Clients, ClientRuns(d) PROVE UNCHANGED stored
    BY <1>5 DEF ClientRuns, C_Open, C_ConnectionLost, C_StdinEof, C_Receive, ClientMain, C_Timeout, C_LoopEnds,
       C_Register, C_HandleAck, C_SubscribeFails, C_IgnoreAck, C_Confirmed, C_FatalFailure,
       C_OtherFailure, C_HandleClosed, C_Done, Exit, linkVars
  <1>6. ASSUME S_AcceptConnect \/ S_SubscribeFails \/ S_AckSent \/ S_HandleConfirm \/ S_DialOk \/ S_DialFails
                 \/ S_Register \/ S_HandleClosed \/ S_TunnelClosed \/ Callback
        PROVE  UNCHANGED stored
    BY <1>6 DEF S_AcceptConnect, S_SubscribeFails, S_AckSent, S_HandleConfirm, S_DialOk, S_DialFails, S_Register,
       S_HandleClosed, S_TunnelClosed, Callback, S_Reconnect, SignalLost, linkVars
  <1>7. ASSUME OtherSteps PROVE Resume \/ UNCHANGED stored
    BY <1>7 DEF OtherSteps, Redeliver, HandRequest, S_Receive, S_DropPacket, LinkLost, LinkUp,
       TargetCloses, S_ConfirmTimeout, T_ReadEnds, T_LoopEnds, T_Unsubscribe, linkVars
  <1>8. CASE UNCHANGED vars
    BY <1>4, <1>8 DEF vars, linkVars
  <1> QED
    BY <1>2, <1>3, <1>4, <1>5, <1>6, <1>7, <1>8 DEF Next, Environment, ServerMain, OtherSteps, ClientRuns

LEMMA OtherQueues ==
    ASSUME TypeOK, IDsKept, MaxRedeliver = 0, StoredFailures, OtherSteps
    PROVE  QueueStep
  <1>a. /\ Server \in Nodes /\ inbox \in [Nodes -> Seq(controlPacket)] /\ controlCh \in [Nodes -> Seq(controlPacket)]
    BY DEF TypeOK, PacketsTyped, Nodes
  <1>1. ~\E n \in Nodes : Redeliver(n)
    <2>1. spent.redeliver \in Nat /\ Limit.redeliver = 0
      BY DEF TypeOK, LinkTyped, Limit
    <2> QED
      BY <2>1 DEF Redeliver, Spend
  <1>2. UNCHANGED made /\ SameIDs
    <2>1. UNCHANGED made
      BY <1>1 DEF OtherSteps, HandRequest, S_Receive, S_DropPacket, LinkLost, LinkUp, Resume, TargetCloses,
         S_ConfirmTimeout, T_ReadEnds, T_LoopEnds, T_Unsubscribe, serverVars, tunnelVars
    <2> QED
      BY <2>1 DEF SameIDs, IDsKept
  <1>3. ASSUME Arrives, UNCHANGED controlCh PROVE QueueStep
    BY <1>2, <1>3 DEF QueueStep, Stays
  <1>4. ASSUME NEW id \in HandIDs, HandRequest(id) PROVE QueueStep
    <2>1. id \in IDs /\ id \notin Clients
      BY IDAssumption DEF IDs
    <2>2. createConnectRequest(id) \in controlPacket /\ createConnectRequest(id).type = "connect"
          /\ createConnectRequest(id).id = id
      BY <2>1, PacketType DEF createConnectRequest, Bare
    <2>3. Fresh(createConnectRequest(id))
      BY <2>1, <2>2 DEF Fresh
    <2> QED
      BY <1>3, <1>4, <2>2, <2>3, PublishArrives DEF HandRequest
  <1>5. CASE S_Receive
    <2>1. /\ inbox[Server] # <<>> /\ inbox'[Server] = Tail(inbox[Server])
          /\ controlCh'[Server] = Append(controlCh[Server], Head(inbox[Server]))
      BY <1>5, <1>a DEF S_Receive, HandOver
    <2> QED
      BY <1>2, <2>1 DEF QueueStep, Moves
  <1>6. CASE S_DropPacket
    <2>1. inbox[Server] # <<>> /\ inbox'[Server] = Tail(inbox[Server]) /\ UNCHANGED controlCh
      BY <1>6, <1>a DEF S_DropPacket, HandOver
    <2> QED
      BY <1>2, <2>1 DEF QueueStep, Stays
  <1>7. CASE LinkLost
    BY <1>2, <1>7, <1>a DEF LinkLost, QueueStep, Stays
  <1>8. CASE Resume
    <2>1. Head(stored) \in {m \in controlPacket : m.type = "failure"}
      BY <1>8, SeqStep DEF Resume, StoredFailures
    <2>2. Fresh(Head(stored))
      BY <2>1 DEF Fresh
    <2> QED
      BY <1>3, <1>8, <2>1, <2>2, PublishArrives DEF Resume
  <1>9. ASSUME NEW t \in Tunnels, T_LoopEnds(t) PROVE QueueStep
    <2>1. tun[t].id \in IDs
      <3>1. tun[t] # Unmade
        BY <1>9 DEF T_LoopEnds, Unmade
      <3> QED
        BY <3>1, RegistryTypes DEF Tunnels
    <2>2. createConnectionClosed(tun[t].id, "server") \in controlPacket
          /\ createConnectionClosed(tun[t].id, "server").type = "closed"
      BY <2>1, PacketType DEF createConnectionClosed, Bare
    <2>3. Fresh(createConnectionClosed(tun[t].id, "server"))
      BY <2>2 DEF Fresh
    <2>4. UNCHANGED inbox \/ PublishQoS0(createConnectionClosed(tun[t].id, "server"))
      BY <1>9 DEF T_LoopEnds
    <2>5. Arrives
      BY <2>2, <2>3, <2>4, PublishArrives DEF Arrives
    <2> QED
      BY <1>3, <1>9, <2>5 DEF T_LoopEnds
  <1>10. ASSUME UNCHANGED netVars PROVE QueueStep
    BY <1>3, <1>10 DEF netVars, Arrives
  <1> QED
    BY <1>1, <1>4, <1>5, <1>6, <1>7, <1>8, <1>9, <1>10
    DEF OtherSteps, LinkUp, TargetCloses, S_ConfirmTimeout, T_ReadEnds, T_Unsubscribe

LEMMA QueuesNext ==
    ASSUME TypeOK, PacketsGenuine, MaxRedeliver = 0, StoredFailures, [Next]_vars
    PROVE  QueueStep
  <1>1. IDsKept
    BY IDsNext
  <1>2. CASE \E d \in Clients : ClientRuns(d)
    BY <1>2, ClientQueues DEF QueueStep
  <1>3. CASE ServerMain \/ Callback
    BY <1>1, <1>3, ServerQueues
  <1>4. CASE OtherSteps
    BY <1>1, <1>4, OtherQueues
  <1>5. CASE UNCHANGED vars
    BY <1>5 DEF vars, netVars, serverVars, tunnelVars, QueueStep, Stays, Arrives, SameIDs
  <1> QED
    BY <1>2, <1>3, <1>4, <1>5 DEF Next, Environment, OtherSteps, ClientRuns
-----------------------------------------------------------------------------
(* Which tunnels are dialled for. *)

\* Dialled-for tunnels exist.
LEMMA DialedMade == ASSUME TypeOK, NEW t \in Tunnels, Dialed(t) PROVE t \in 1..made
  <1>1. tun[t] # Unmade => t \in 1..made
    BY RegistryTypes DEF Tunnels
  <1>2. spc = "dial" /\ cur = t => t \in 1..made
    BY RegistryTypes DEF NoTunnel
  <1> QED
    BY <1>1, <1>2 DEF Dialed, Unmade

LEMMA DialedNext ==
    ASSUME TypeOK, RegistryInv, [Next]_vars, ~S_HandleConfirm, NEW t \in Tunnels, Dialed(t)'
    PROVE  Dialed(t)
  <1>a. tun \in [Tunnels -> ServerTunnel] /\ tun[t] \in ServerTunnel
    BY RegistryTypes
  <1>1. CASE UNCHANGED <<mainVars, tun>>
    BY <1>1 DEF Dialed, mainVars
  <1>2. CASE UNCHANGED serverVars
    BY <1>1, <1>2 DEF serverVars, tunnelVars
  <1>3. CASE S_AcceptConnect \/ S_SubscribeFails
    <2>1. /\ spc = "select" /\ tun' = [tun EXCEPT ![made + 1].id = Head(controlCh[Server]).id]
          /\ spc' # "dial"
      BY <1>3 DEF S_AcceptConnect, S_SubscribeFails, S_Take, NewTunnel, Work, mainVars
    <2>2. tun'[t].conn = tun[t].conn /\ tun'[t].loop = tun[t].loop
      BY <1>a, <2>1 DEF ServerTunnel
    <2> QED
      BY <2>1, <2>2 DEF Dialed
  <1>4. CASE S_AckSent \/ S_DialFails \/ S_Register
    BY <1>4 DEF S_AckSent, S_DialFails, S_Register, Return, Work, tunnelVars, Dialed
  <1>5. CASE S_DialOk
    <2>1. spc = "dial" /\ spc' # "dial" /\ (t # cur => tun'[t] = tun[t])
      BY <1>5, <1>a DEF S_DialOk, Work
    <2> QED
      BY <2>1 DEF Dialed
  <1>6. CASE S_HandleClosed
    <2> DEFINE id == Head(controlCh[Server]).id
    <2>1. UNCHANGED mainVars /\ id \in IDs
      BY <1>6, TakeType DEF S_HandleClosed
    <2>2. CASE Connected(id)
      <3>1. tun[connected[id]].conn # "none"
        BY <2>1, <2>2 DEF RegistryInv, RegistryConsistent, ConnectedConsistent
      <3>2. t # connected[id] => tun'[t] = tun[t]
        BY <1>6, <1>a, <2>2 DEF S_HandleClosed, Teardown
      <3> QED
        BY <2>1, <3>1, <3>2 DEF Dialed, mainVars
    <2>3. CASE ~Connected(id)
      BY <1>1, <1>6, <2>1, <2>3 DEF S_HandleClosed
    <2> QED
      BY <2>2, <2>3
  <1>7. ASSUME NEW u \in Tunnels, TargetCloses(u) \/ T_ReadEnds(u) \/ T_LoopEnds(u) \/ T_Unsubscribe(u)
        PROVE  Dialed(t)
    <2>1. UNCHANGED mainVars /\ (t # u => tun'[t] = tun[t])
      BY <1>7, <1>a DEF TargetCloses, T_ReadEnds, T_LoopEnds, T_Unsubscribe
    <2>2. Dialed(u)
      BY <1>7 DEF Dialed, TargetCloses, T_ReadEnds, T_LoopEnds, T_Unsubscribe
    <2> QED
      BY <2>1, <2>2 DEF Dialed, mainVars
  <1>8. CASE S_TunnelClosed \/ S_RejectConnect \/ Callback
    BY <1>1, <1>8 DEF S_TunnelClosed, S_RejectConnect, Callback, S_Reconnect, SignalLost, serverVars, tunnelVars
  <1>9. ASSUME NEW u \in Tunnels, S_ConfirmTimeout(u) PROVE Dialed(t)
    BY <1>1, <1>9 DEF S_ConfirmTimeout, tunnelVars
  <1>10. ASSUME NEW d \in Clients, ClientRuns(d) PROVE UNCHANGED serverVars
    BY <1>10 DEF ClientRuns, C_Open, C_ConnectionLost, C_StdinEof, C_Receive, ClientMain, C_Timeout, C_LoopEnds,
       C_Register, C_HandleAck, C_SubscribeFails, C_IgnoreAck, C_Confirmed, C_FatalFailure,
       C_OtherFailure, C_HandleClosed, C_Done, Exit
  <1>11. ASSUME OtherSteps
         PROVE  \/ UNCHANGED serverVars
                \/ \E u \in Tunnels : TargetCloses(u) \/ S_ConfirmTimeout(u) \/ T_ReadEnds(u) \/ T_LoopEnds(u)
                                        \/ T_Unsubscribe(u)
    BY <1>11 DEF OtherSteps, Redeliver, HandRequest, S_Receive, S_DropPacket, LinkLost, LinkUp, Resume
  <1>12. CASE UNCHANGED vars
    BY <1>2, <1>12 DEF vars
  <1> QED
    BY <1>2, <1>3, <1>4, <1>5, <1>6, <1>7, <1>8, <1>9, <1>10, <1>11, <1>12
    DEF Next, Environment, ServerMain, OtherSteps, ClientRuns

LEMMA DialedReadyNext ==
    ASSUME TypeOK, RegistryInv, ConfirmsReady, DialedReady, ClientGoesOn, [Next]_vars
    PROVE  DialedReady'
  <1> SUFFICES ASSUME NEW t \in Tunnels, Dialed(t)' PROVE Ready(tun[t].id)'
    BY DEF DialedReady
  <1>1. ASSUME Ready(tun[t].id), t \in 1..made PROVE Ready(tun[t].id)'
    BY <1>1, IDsNext DEF ClientGoesOn, IDsKept, Ready
  <1>2. CASE Dialed(t)
    BY <1>1, <1>2, DialedMade DEF DialedReady
  <1>3. CASE S_HandleConfirm /\ ~Dialed(t)
    <2> DEFINE m == Head(controlCh[Server])
    <2>1. controlCh[Server] # <<>> /\ m.type = "connect_confirm" /\ UNCHANGED tun
      BY <1>3 DEF S_HandleConfirm, S_Take, tunnelVars
    <2>2. m \in Readied /\ m.id \in IDs
      BY <1>3, <2>1, SeqStep, TakeType DEF ConfirmsReady, S_HandleConfirm
    <2>3. Ready(m.id)
      BY <2>1, <2>2 DEF Readied
    <2>4. spc' = "dial" /\ cur' = t
      BY <1>3, <2>1 DEF Dialed
    <2>5. Pending(m.id) /\ t = pendingConfirms[m.id]
      <3>1. S_Take("connect_confirm")
        BY <1>3 DEF S_HandleConfirm
      <3> QED
        BY <1>3, <2>4, <3>1 DEF S_HandleConfirm, S_Take, Work, mainVars
    <2>6. tun[t].id = m.id /\ t \in 1..made
      BY <2>2, <2>5, RegistryTypes DEF RegistryInv, RegistryConsistent, PendingConsistent, Pending, NoTunnel
    <2> QED
      BY <1>1, <2>3, <2>6
  <1> QED
    BY <1>2, <1>3, DialedNext

-----------------------------------------------------------------------------
\* All that the theorems below assume of a state.
Consistent == TypeOK /\ RegistryInv /\ TopicsInv

LEMMA OnceNext ==
    ASSUME MaxRedeliver = 0, Consistent, OnceInv, [Next]_vars
    PROVE  OnceInv'
  <1>1. TypeOK /\ RegistryInv /\ PacketsGenuine /\ OneRequest /\ ConfirmsReady /\ DialedReady /\ StoredFailures
    BY DEF Consistent, OnceInv, TopicsInv
  <1>2. ClientGoesOn /\ QueueStep
    BY <1>1, ClientGoesOnNext, QueuesNext
  <1>3. OneRequest'
    BY <1>1, <1>2, OneRequestStep DEF OneRequest
  <1> QED
    BY <1>1, <1>2, <1>3, ConfirmsStep, DialedReadyNext, StoredFailuresNext DEF OnceInv

LEMMA OnceInit == Init => OnceInv
  <1> SUFFICES ASSUME Init PROVE OnceInv
    OBVIOUS
  <1>1. inbox[Server] = <<>> /\ controlCh[Server] = <<>> /\ stored = <<>> /\ made = 0
    BY DEF Init, Nodes
  <1>2. OneRequest
    BY <1>1, NoRequest DEF OneRequest, QueuedOnce, ServedOnce, Served
  <1>3. ConfirmsReady /\ StoredFailures
    <2>1. \A S : <<>> \in Seq(S)
      OBVIOUS
    <2> QED
      BY <1>1, <2>1 DEF ConfirmsReady, StoredFailures
  <1>4. DialedReady
    BY DEF Init, DialedReady, Dialed, Unmade
  <1> QED
    BY <1>2, <1>3, <1>4 DEF OnceInv

LEMMA ConsistentCorrect == Spec => []Consistent
  <1>1. Init => RegistryInv
    BY DEF Init, RegistryInv, RegistryConsistent, PendingConsistent, ConnectedConsistent, CurrentConsistent,
       Stage, Pending, Connected
  <1>2. Init => Consistent
    BY <1>1, InitType, TopicsInit DEF Consistent
  <1>3. TypeOK /\ [Next]_vars => TypeOK'
    BY PacketsNext, LinkNext, ServerNext, ClientNext DEF TypeOK
  <1>4. Consistent /\ [Next]_vars => Consistent'
    BY <1>3, RegistryNext, TopicsNext DEF Consistent
  <1> QED
    BY <1>2, <1>4, PTL DEF Spec

\* A tunnel of a client that was dialled for is the one whose topics it has.
LEMMA OnceReady ==
    ASSUME Consistent, OnceInv
    PROVE  SubscribedBeforeData
  <1> SUFFICES ASSUME NEW t \in Tunnels, tun[t].loop = "run", client[tun[t].id].state # "exited"
               PROVE  client[tun[t].id].sub = ClientPubTopic(t)
    BY DEF SubscribedBeforeData
  <1> DEFINE c == tun[t].id
  <1>1. TypeOK /\ TopicsAgree /\ OneRequest
    BY DEF Consistent, TopicsInv, OnceInv
  <1>2. Dialed(t) /\ t \in 1..made
    BY <1>1, DialedMade DEF Dialed
  <1>3. Ready(c)
    BY <1>2 DEF OnceInv, DialedReady
  <1> HIDE DEF c
  <1>4. c \in Clients /\ client[c].sub # NoTopic
    BY <1>3 DEF Ready, c
  <1>5. PICK u \in 1..made : tun[u].id = c /\ client[c].sub = ClientPubTopic(u)
    BY <1>1, <1>4 DEF TopicsAgree
  <1>6. u = t
    BY <1>1, <1>2, <1>4, <1>5 DEF OneRequest, ServedOnce, c
  <1> QED
    BY <1>5, <1>6 DEF c

(***************************************************************************)
(* If the broker delivers no control packet twice, the server's data loop  *)
(* publishes nothing before its client is subscribed to its topic: a       *)
(* connect_confirm reaches the server only when TakeTopics is done, and    *)
(* the tunnel it confirms is the only one made for that client.            *)
(***************************************************************************)
THEOREM BeforeDataCorrect == MaxRedeliver = 0 => (Spec => []SubscribedBeforeData)
  <1> SUFFICES ASSUME MaxRedeliver = 0 PROVE Spec => []SubscribedBeforeData
    OBVIOUS
  <1>1. Consistent /\ OnceInv /\ [Next]_vars => OnceInv'
    BY OnceNext
  <1>2. Consistent /\ OnceInv => SubscribedBeforeData
    BY OnceReady
  <1> QED
    BY <1>1, <1>2, OnceInit, ConsistentCorrect, PTL DEF Spec
-----------------------------------------------------------------------------
(* Steps seen from the server's resources. *)

resourceVars == <<mainVars, mapVars, tunnelClosedCh, tunnelTopics, tunnelVars>>

TunnelRuns(t) == S_ConfirmTimeout(t) \/ TargetCloses(t) \/ T_ReadEnds(t) \/ T_LoopEnds(t) \/ T_Unsubscribe(t)

LEMMA ResourceSteps ==
    ASSUME [Next]_vars
    PROVE  \/ UNCHANGED resourceVars
           \/ S_AcceptConnect \/ S_SubscribeFails \/ S_AckSent \/ S_HandleConfirm \/ S_DialOk \/ S_DialFails
           \/ S_Register \/ S_HandleClosed \/ S_TunnelClosed \/ S_Reconnect
           \/ \E t \in Tunnels : TunnelRuns(t)
  <1>1. ASSUME NEW d \in Clients, ClientRuns(d) PROVE UNCHANGED serverVars
    BY <1>1 DEF ClientRuns, C_Open, C_ConnectionLost, C_StdinEof, C_Receive, ClientMain, C_Timeout, C_LoopEnds,
       C_Register, C_HandleAck, C_SubscribeFails, C_IgnoreAck, C_Confirmed, C_FatalFailure,
       C_OtherFailure, C_HandleClosed, C_Done, Exit
  <1>2. ASSUME OtherSteps PROVE UNCHANGED serverVars \/ \E t \in Tunnels : TunnelRuns(t)
    BY <1>2 DEF OtherSteps, Redeliver, HandRequest, S_Receive, S_DropPacket, LinkLost, LinkUp, Resume, TunnelRuns
  <1>3. ASSUME S_RejectConnect \/ SignalLost PROVE UNCHANGED serverVars
    BY <1>3 DEF S_RejectConnect, SignalLost
  <1>4. UNCHANGED vars => UNCHANGED serverVars
    BY DEF vars
  <1>5. UNCHANGED serverVars => UNCHANGED resourceVars
    BY DEF serverVars, resourceVars, signalVars
  <1> QED
    BY <1>1, <1>2, <1>3, <1>4, <1>5 DEF Next, Environment, ServerMain, Callback, OtherSteps, ClientRuns

\* What a step may do to the connection and the goroutines of a tunnel.
SameObject(t) == tun'[t].conn = tun[t].conn /\ tun'[t].reader = tun[t].reader /\ tun'[t].loop = tun[t].loop
Starts(t) == /\ S_DialOk /\ cur = t
             /\ tun'[t].conn = "open" /\ tun'[t].reader = "run" /\ tun'[t].loop = "run"
Closes(t) == /\ S_HandleClosed /\ Connected(Head(controlCh[Server]).id)
             /\ t = connected[Head(controlCh[Server]).id]
             /\ tun'[t].conn = "closed" /\ tun'[t].reader = tun[t].reader /\ tun'[t].loop = tun[t].loop
Reads(t) == /\ TargetCloses(t) /\ tun[t].conn = "open" /\ tun'[t].conn = "eof"
            /\ tun'[t].reader = tun[t].reader /\ tun'[t].loop = tun[t].loop
ReadsOn(t) == /\ T_ReadEnds(t) /\ tun[t].reader = "run" /\ tun[t].conn \in {"eof", "closed"}
              /\ tun'[t].conn = "closed" /\ tun'[t].reader = "done" /\ tun'[t].loop = tun[t].loop
Leaves(t) == /\ T_LoopEnds(t) /\ tun[t].loop = "run" /\ tun[t].reader = "done" /\ tun'[t].loop = "unsub"
             /\ tun'[t].conn = tun[t].conn /\ tun'[t].reader = tun[t].reader
Finishes(t) == /\ T_Unsubscribe(t) /\ tun[t].loop = "unsub" /\ tun'[t].loop = "done"
               /\ tun'[t].conn = tun[t].conn /\ tun'[t].reader = tun[t].reader
ObjectStep(t) == \/ SameObject(t) \/ Starts(t) \/ Closes(t) \/ Reads(t) \/ ReadsOn(t) \/ Leaves(t) \/ Finishes(t)

LEMMA ObjectSteps ==
    ASSUME TypeOK, [Next]_vars, NEW t \in Tunnels
    PROVE  ObjectStep(t)
  <1>a. tun \in [Tunnels -> ServerTunnel] /\ tun[t] \in ServerTunnel
    BY RegistryTypes
  <1>1. CASE tun'[t] = tun[t]
    BY <1>1 DEF ObjectStep, SameObject
  <1>2. CASE UNCHANGED resourceVars
    BY <1>1, <1>2 DEF resourceVars, tunnelVars
  <1>3. CASE S_AcceptConnect \/ S_SubscribeFails
    <2>1. tun' = [tun EXCEPT ![made + 1].id = Head(controlCh[Server]).id]
      BY <1>3 DEF S_AcceptConnect, S_SubscribeFails, NewTunnel
    <2> QED
      BY <1>a, <2>1 DEF ServerTunnel, ObjectStep, SameObject
  <1>4. CASE S_DialOk
    <2>1. tun' = [tun EXCEPT ![cur] = [tun[cur] EXCEPT !.conn = "open", !.reader = "run", !.loop = "run"]]
      BY <1>4 DEF S_DialOk
    <2>2. CASE t = cur
      <3>1. tun'[t] = [tun[t] EXCEPT !.conn = "open", !.reader = "run", !.loop = "run"]
        BY <1>a, <2>1, <2>2
      <3>2. tun'[t].conn = "open" /\ tun'[t].reader = "run" /\ tun'[t].loop = "run"
        BY <1>a, <3>1 DEF ServerTunnel
      <3> QED
        BY <1>4, <2>2, <3>2 DEF ObjectStep, Starts
    <2>3. CASE t # cur
      BY <1>1, <1>a, <2>1, <2>3
    <2> QED
      BY <2>2, <2>3
  <1>5. CASE S_HandleClosed
    <2> DEFINE id == Head(controlCh[Server]).id
    <2>1. CASE Connected(id) /\ t = connected[id]
      <3>1. Teardown(t)
        BY <1>5, <2>1 DEF S_HandleClosed
      <3>2. tun'[t] = [tun[t] EXCEPT !.closedByRemote = TRUE, !.conn = "closed"]
        BY <1>a, <3>1 DEF Teardown
      <3>3. tun'[t].conn = "closed" /\ tun'[t].reader = tun[t].reader /\ tun'[t].loop = tun[t].loop
        BY <1>a, <3>2 DEF ServerTunnel
      <3> QED
        BY <1>5, <2>1, <3>3 DEF ObjectStep, Closes
    <2>2. CASE ~(Connected(id) /\ t = connected[id])
      <3>1. tun'[t] = tun[t]
        BY <1>5, <1>a, <2>2 DEF S_HandleClosed, Teardown
      <3> QED
        BY <1>1, <3>1
    <2> QED
      BY <2>1, <2>2
  <1>6. CASE S_AckSent \/ S_HandleConfirm \/ S_DialFails \/ S_Register \/ S_TunnelClosed \/ S_Reconnect
    BY <1>1, <1>6 DEF S_AckSent, S_HandleConfirm, S_DialFails, S_Register, S_TunnelClosed, S_Reconnect, tunnelVars
  <1>7. ASSUME NEW u \in Tunnels, TunnelRuns(u), t # u PROVE tun'[t] = tun[t]
    BY <1>7, <1>a DEF TunnelRuns, S_ConfirmTimeout, TargetCloses, T_ReadEnds, T_LoopEnds, T_Unsubscribe, tunnelVars
  <1>8. CASE S_ConfirmTimeout(t)
    BY <1>1, <1>8 DEF S_ConfirmTimeout, tunnelVars
  <1>9. CASE TargetCloses(t)
    <2>1. tun[t].conn = "open" /\ tun'[t] = [tun[t] EXCEPT !.conn = "eof"]
      BY <1>9, <1>a DEF TargetCloses
    <2> QED
      BY <1>9, <1>a, <2>1 DEF ServerTunnel, ObjectStep, Reads
  <1>10. CASE T_ReadEnds(t)
    <2>1. /\ tun[t].reader = "run" /\ tun[t].conn \in {"eof", "closed"}
          /\ tun'[t] = [tun[t] EXCEPT !.reader = "done", !.conn = "closed"]
      BY <1>10, <1>a DEF T_ReadEnds
    <2> QED
      BY <1>10, <1>a, <2>1 DEF ServerTunnel, ObjectStep, ReadsOn
  <1>11. CASE T_LoopEnds(t)
    <2>1. tun[t].loop = "run" /\ tun[t].reader = "done" /\ tun'[t] = [tun[t] EXCEPT !.loop = "unsub"]
      BY <1>11, <1>a DEF T_LoopEnds
    <2> QED
      BY <1>11, <1>a, <2>1 DEF ServerTunnel, ObjectStep, Leaves
  <1>12. CASE T_Unsubscribe(t)
    <2>1. tun[t].loop = "unsub" /\ tun'[t] = [tun[t] EXCEPT !.loop = "done"]
      BY <1>12, <1>a DEF T_Unsubscribe
    <2> QED
      BY <1>12, <1>a, <2>1 DEF ServerTunnel, ObjectStep, Finishes
  <1> QED
    BY <1>1, <1>2, <1>3, <1>4, <1>5, <1>6, <1>7, <1>8, <1>9, <1>10, <1>11, <1>12, ResourceSteps DEF TunnelRuns

-----------------------------------------------------------------------------
(* More invariants: the link, the goroutines of a tunnel, the signals. *)

LinkKept == link = "up" /\ lostSignals = 0

\* A tunnel's loop ends after its reader, its reader with the connection,
\* and both start when the connection is made.
OrderlyEnd ==
    \A t \in Tunnels : /\ Ended(t) => tun[t].reader = "done"
                       /\ tun[t].reader = "done" => tun[t].conn = "closed"
                       /\ tun[t].loop = "off" <=> tun[t].conn = "none"

\* What is on tunnelClosedCh is the ID of a tunnel whose loop has ended.
EndedIDs     == {id \in IDs : \E t \in 1..made : tun[t].id = id /\ Ended(t)}
SignalsEnded == tunnelClosedCh \in Seq(EndedIDs)

LEMMA LinkKeptNext ==
    ASSUME MaxLinkLoss = 0, TypeOK, LinkKept, [Next]_vars
    PROVE  LinkKept' /\ ~S_Reconnect
  <1>1. ~LinkLost
    <2>1. spent.loss \in Nat /\ Limit.loss = 0
      BY DEF TypeOK, LinkTyped, Limit
    <2> QED
      BY <2>1 DEF LinkLost, Spend
  <1>2. ~S_Reconnect /\ ~SignalLost
    BY DEF S_Reconnect, SignalLost, LinkKept
  <1>3. ASSUME UNCHANGED <<link, lostSignals>> PROVE LinkKept'
    BY <1>3 DEF LinkKept
  <1>4. ASSUME NEW d \in Clients, ClientRuns(d) PROVE UNCHANGED <<link, lostSignals>>
    BY <1>4 DEF ClientRuns, C_Open, C_ConnectionLost, C_StdinEof, C_Receive, ClientMain, C_Timeout, C_LoopEnds,
       C_Register, C_HandleAck, C_SubscribeFails, C_IgnoreAck, C_Confirmed, C_FatalFailure,
       C_OtherFailure, C_HandleClosed, C_Done, Exit, linkVars
  <1>5. ASSUME ServerMain PROVE UNCHANGED <<link, lostSignals>>
    BY <1>5 DEF ServerMain, S_RejectConnect, S_AcceptConnect, S_SubscribeFails, S_AckSent, S_HandleConfirm,
       S_DialOk, S_DialFails, S_Register, S_HandleClosed, S_TunnelClosed, linkVars
  <1>6. ASSUME OtherSteps, ~LinkLost PROVE LinkUp \/ UNCHANGED <<link, lostSignals>>
    BY <1>6 DEF OtherSteps, Redeliver, HandRequest, S_Receive, S_DropPacket, Resume, TargetCloses,
       S_ConfirmTimeout, T_ReadEnds, T_LoopEnds, T_Unsubscribe, linkVars
  <1>7. LinkUp => LinkKept'
    BY DEF LinkUp, LinkKept
  <1>8. UNCHANGED vars => UNCHANGED <<link, lostSignals>>
    BY DEF vars, linkVars
  <1> QED
    BY <1>1, <1>2, <1>3, <1>4, <1>5, <1>6, <1>7, <1>8 DEF Next, Environment, Callback, OtherSteps, ClientRuns

LEMMA OrderlyEndNext ==
    ASSUME TypeOK, RegistryInv, OrderlyEnd, [Next]_vars
    PROVE  OrderlyEnd' /\ \A t \in Tunnels : Ended(t) => Ended(t)'
  <1> SUFFICES ASSUME NEW t \in Tunnels
               PROVE  /\ Ended(t)' => tun'[t].reader = "done"
                      /\ tun'[t].reader = "done" => tun'[t].conn = "closed"
                      /\ tun'[t].loop = "off" <=> tun'[t].conn = "none"
                      /\ Ended(t) => Ended(t)'
    BY DEF OrderlyEnd
  <1>1. /\ Ended(t) => tun[t].reader = "done"
        /\ tun[t].reader = "done" => tun[t].conn = "closed"
        /\ tun[t].loop = "off" <=> tun[t].conn = "none"
    BY DEF OrderlyEnd
  <1>2. Starts(t) => tun[t].conn = "none"
    BY DEF Starts, S_DialOk, RegistryInv, Stage
  <1>3. Closes(t) => tun[t].conn # "none"
    <2> SUFFICES ASSUME Closes(t) PROVE tun[t].conn # "none"
      OBVIOUS
    <2>1. Head(controlCh[Server]).id \in IDs
      BY TakeType DEF Closes, S_HandleClosed
    <2> QED
      BY <2>1 DEF Closes, RegistryInv, RegistryConsistent, ConnectedConsistent
  <1> QED
    BY <1>1, <1>2, <1>3, ObjectSteps
    DEF ObjectStep, SameObject, Starts, Closes, Reads, ReadsOn, Leaves, Finishes, Ended

LEMMA SignalsNext ==
    ASSUME TypeOK, RegistryInv, OrderlyEnd, SignalsEnded, [Next]_vars
    PROVE  SignalsEnded'
  <1> DEFINE E == EndedIDs'
  <1>1. /\ IDsKept /\ \A t \in Tunnels : Ended(t) => Ended(t)'
        /\ made \in Nat /\ 1..made \subseteq Tunnels
    BY IDsNext, OrderlyEndNext, QueueTypes, RegistryTypes
  <1>2. EndedIDs \subseteq E
    <2> SUFFICES ASSUME NEW t \in 1..made, Ended(t) PROVE \E u \in 1..made' : tun'[u].id = tun[t].id /\ Ended(u)'
      BY DEF EndedIDs
    <2>1. t \in 1..made' /\ t \in Tunnels
      BY <1>1 DEF IDsKept
    <2> QED
      BY <1>1, <2>1 DEF IDsKept
  <1> HIDE DEF E
  <1>3. tunnelClosedCh \in Seq(E)
    BY <1>2, SeqWider DEF SignalsEnded
  <1>4. CASE UNCHANGED tunnelClosedCh
    BY <1>3, <1>4 DEF SignalsEnded, E
  <1>5. CASE S_TunnelClosed
    BY <1>3, <1>5, SeqStep DEF S_TunnelClosed, SignalsEnded, E
  <1>6. ASSUME NEW t \in Tunnels, T_LoopEnds(t) PROVE SignalsEnded'
    <2>1. t \in 1..made
      <3>1. tun[t] # Unmade
        BY <1>6 DEF T_LoopEnds, Unmade
      <3> QED
        BY <3>1, RegistryTypes DEF Tunnels
    <2>2. tun'[t].loop = "unsub"
      BY <1>6, RegistryTypes DEF T_LoopEnds, ServerTunnel
    <2>3. tun[t].id \in E
      <3>1. tun[t].id \in IDs /\ t \in 1..made' /\ tun'[t].id = tun[t].id
        BY <1>1, <2>1, RegistryTypes DEF IDsKept
      <3> QED
        BY <2>2, <3>1 DEF E, EndedIDs, Ended
    <2>4. Append(tunnelClosedCh, tun[t].id) \in Seq(E)
      BY <1>3, <2>3, SeqStep
    <2> QED
      BY <1>3, <1>6, <2>4 DEF T_LoopEnds, SignalClosed, SignalsEnded, E
  <1>7. ASSUME NEW t \in Tunnels, TunnelRuns(t) PROVE T_LoopEnds(t) \/ UNCHANGED tunnelClosedCh
    BY <1>7 DEF TunnelRuns, S_ConfirmTimeout, TargetCloses, T_ReadEnds, T_Unsubscribe, signalVars
  <1>8. ASSUME S_AcceptConnect \/ S_SubscribeFails \/ S_AckSent \/ S_HandleConfirm \/ S_DialOk \/ S_DialFails
                 \/ S_Register \/ S_HandleClosed \/ S_Reconnect
        PROVE  UNCHANGED tunnelClosedCh
    BY <1>8 DEF S_AcceptConnect, S_SubscribeFails, S_AckSent, S_HandleConfirm, S_DialOk, S_DialFails,
       S_Register, S_HandleClosed, S_Reconnect, signalVars
  <1> QED
    BY <1>4, <1>5, <1>6, <1>7, <1>8, ResourceSteps DEF resourceVars
-----------------------------------------------------------------------------
(* Open connections are tracked. *)

Open(t) == tun[t].conn \in {"open", "eof"}

\* The tunnel of a signal is the only one with its ID, and shut.
LEMMA SignalShut ==
    ASSUME TypeOK, OnceInv, OrderlyEnd, SignalsEnded, tunnelClosedCh # <<>>, NEW t \in 1..made, Dialed(t),
           tun[t].id = Head(tunnelClosedCh)
    PROVE  tun[t].conn = "closed"
  <1>1. Head(tunnelClosedCh) \in EndedIDs
    BY SeqStep DEF SignalsEnded
  <1>2. PICK u \in 1..made : tun[u].id = tun[t].id /\ Ended(u)
    BY <1>1 DEF EndedIDs
  <1>3. t \in Tunnels /\ u \in Tunnels
    BY RegistryTypes
  <1>4. tun[t].id \in Clients
    BY <1>3 DEF OnceInv, DialedReady, Ready
  <1>5. u = t
    BY <1>2, <1>4 DEF OnceInv, OneRequest, ServedOnce
  <1> QED
    BY <1>2, <1>3, <1>5 DEF OrderlyEnd

LEMMA TrackedNext ==
    ASSUME TypeOK, RegistryInv, OnceInv, OrderlyEnd, SignalsEnded, OpenImpliesTracked, ~S_Reconnect, [Next]_vars
    PROVE  OpenImpliesTracked'
  <1> SUFFICES ASSUME NEW t \in Tunnels, Open(t)' PROVE Tracked(t)'
    BY DEF OpenImpliesTracked, Open, Tracked
  <1>1. ObjectStep(t)
    BY ObjectSteps
  <1>2. CASE Starts(t)
    BY <1>2 DEF Starts, S_DialOk, Work, Tracked
  <1>3. CASE ~Starts(t)
    <2>1. Open(t)
      BY <1>1, <1>3 DEF ObjectStep, SameObject, Starts, Closes, Reads, ReadsOn, Leaves, Finishes, Open
    <2>2. Dialed(t) /\ t \in 1..made /\ tun[t].id \in IDs
      BY <2>1, DialedMade, RegistryTypes DEF Dialed, Open
    <2>3. tun'[t].id = tun[t].id /\ t # NoTunnel
      BY <2>2, IDsNext DEF IDsKept, NoTunnel
    <2>4. Tracked(t)
      BY <2>1 DEF OpenImpliesTracked, Open, Tracked
    <2>5. CASE UNCHANGED <<mainVars, connected>>
      BY <2>3, <2>4, <2>5 DEF Tracked, mainVars
    <2>6. CASE spc # "register" /\ UNCHANGED connected
      BY <2>3, <2>4, <2>6 DEF Tracked
    <2>7. CASE S_Register
      <3>1. /\ spc = "register" /\ cur # NoTunnel /\ connected' = [connected EXCEPT ![tun[cur].id] = cur]
        BY <2>7, RegistryTypes DEF S_Register
      <3>2. connected[tun[cur].id] = NoTunnel
        BY <3>1 DEF RegistryInv, RegistryConsistent, CurrentConsistent, InUse, Connected
      <3> QED
        BY <2>2, <2>3, <2>4, <3>1, <3>2, RegistryTypes DEF Tracked
    <2>8. CASE S_HandleClosed
      <3> DEFINE id == Head(controlCh[Server]).id
      <3>1. CASE Connected(id)
        <4>1. connected' = [connected EXCEPT ![id] = NoTunnel] /\ spc = "select" /\ UNCHANGED mainVars
          BY <2>8, <3>1 DEF S_HandleClosed, S_Take
        <4>2. connected[id] # t
          <5> SUFFICES ASSUME connected[id] = t PROVE FALSE
            OBVIOUS
          <5>1. tun' = [tun EXCEPT ![t].closedByRemote = TRUE, ![t].conn = "closed"] /\ tun \in [Tunnels -> ServerTunnel]
            BY <2>8, <3>1, RegistryTypes DEF S_HandleClosed, Teardown
          <5>2. tun'[t].conn = "closed"
            BY <5>1 DEF ServerTunnel
          <5> QED
            BY <5>2 DEF Open
        <4>3. connected[tun[t].id] = t
          BY <2>4, <4>1 DEF Tracked
        <4> HIDE DEF id
        <4>4. tun[t].id # id
          BY <4>2, <4>3
        <4> QED
          BY <2>2, <2>3, <4>1, <4>3, <4>4, RegistryTypes DEF Tracked
      <3>2. CASE ~Connected(id)
        BY <2>5, <2>8, <3>2 DEF S_HandleClosed
      <3> QED
        BY <3>1, <3>2
    <2>9. CASE S_TunnelClosed
      <3>1. /\ spc = "select" /\ UNCHANGED mainVars /\ tunnelClosedCh # <<>>
            /\ connected' = [connected EXCEPT ![Head(tunnelClosedCh)] = NoTunnel]
        BY <2>9 DEF S_TunnelClosed
      <3>2. tun[t].id # Head(tunnelClosedCh)
        BY <2>1, <2>2, <3>1, SignalShut DEF Open
      <3>3. connected[tun[t].id] = t
        BY <2>4, <3>1 DEF Tracked
      <3> QED
        BY <2>2, <2>3, <3>1, <3>2, <3>3, RegistryTypes DEF Tracked
    <2>10. CASE S_AcceptConnect \/ S_SubscribeFails \/ S_AckSent \/ S_HandleConfirm \/ S_DialOk \/ S_DialFails
      BY <2>6, <2>10 DEF S_AcceptConnect, S_SubscribeFails, S_AckSent, S_HandleConfirm, S_DialOk, S_DialFails,
         S_Take, mapVars
    <2>11. ASSUME NEW u \in Tunnels, TunnelRuns(u) PROVE UNCHANGED <<mainVars, connected>>
      BY <2>11 DEF TunnelRuns, S_ConfirmTimeout, TargetCloses, T_ReadEnds, T_LoopEnds, T_Unsubscribe, mapVars
    <2> QED
      BY <2>5, <2>7, <2>8, <2>9, <2>10, <2>11, ResourceSteps DEF resourceVars, mapVars
  <1> QED
    BY <1>2, <1>3

(***************************************************************************)
(* If the broker delivers no control packet twice and the server keeps its *)
(* connection to it, every TCP connection belongs to a tunnel in           *)
(* connected, or to the one that handleControl puts there next: a closed   *)
(* packet and closeAllTunnels can find it.                                 *)
(***************************************************************************)
THEOREM TrackedCorrect == MaxRedeliver = 0 /\ MaxLinkLoss = 0 => (Spec => []OpenImpliesTracked)
  <1> SUFFICES ASSUME MaxRedeliver = 0, MaxLinkLoss = 0 PROVE Spec => []OpenImpliesTracked
    OBVIOUS
  <1> DEFINE Inv == OnceInv /\ LinkKept /\ OrderlyEnd /\ SignalsEnded /\ OpenImpliesTracked
  <1>1. Init => Inv
    <2> SUFFICES ASSUME Init PROVE Inv
      OBVIOUS
    <2>1. SignalsEnded
      BY DEF Init, SignalsEnded
    <2>2. LinkKept /\ OrderlyEnd /\ OpenImpliesTracked
      BY DEF Init, LinkKept, OrderlyEnd, OpenImpliesTracked, Ended, Unmade
    <2> QED
      BY <2>1, <2>2, OnceInit
  <1>2. Consistent /\ Inv /\ [Next]_vars => Inv'
    <2> SUFFICES ASSUME Consistent, Inv, [Next]_vars PROVE Inv'
      OBVIOUS
    <2>1. TypeOK /\ RegistryInv
      BY DEF Consistent
    <2>2. LinkKept' /\ ~S_Reconnect
      BY <2>1, LinkKeptNext
    <2> QED
      BY <2>1, <2>2, OnceNext, OrderlyEndNext, SignalsNext, TrackedNext
  <1>3. Inv => OpenImpliesTracked
    OBVIOUS
  <1> QED
    BY <1>1, <1>2, <1>3, ConsistentCorrect, PTL DEF Spec
-----------------------------------------------------------------------------
(* The server's subscriptions are those of its live tunnels. *)

Negotiated(t) == spc \in {"ackwait", "dial"} /\ cur = t
Waits(t)      == t <= made /\ pendingConfirms[tun[t].id] = t
Loops(t)      == tun[t].loop \in {"run", "unsub"}

LEMMA LiveParts == \A t : Live(t) <=> Negotiated(t) \/ Waits(t) \/ Loops(t)
  BY DEF Live, Negotiated, Waits, Loops

\* A tunnel is live in one way only.
LEMMA LiveOnce ==
    ASSUME TypeOK, RegistryInv, OrderlyEnd, NEW t \in Tunnels
    PROVE  /\ Loops(t) => ~Waits(t) /\ ~Negotiated(t)
           /\ Waits(t) => t \in 1..made /\ tun[t].id \in IDs /\ Pending(tun[t].id)
           /\ Negotiated(t) => t \in 1..made /\ tun[t].id \in IDs /\ ~Pending(tun[t].id)
  <1>1. Loops(t) => tun[t].conn # "none"
    BY DEF OrderlyEnd, Loops
  <1>2. Waits(t) => t \in 1..made /\ tun[t].id \in IDs /\ Pending(tun[t].id)
    <2>1. \A u \in Tunnels : u <= made => u \in 1..made
      BY DEF Tunnels
    <2> QED
      BY <2>1, RegistryTypes DEF Waits, Pending, NoTunnel, Tunnels
  <1>3. Waits(t) => tun[t].conn = "none"
    BY <1>2 DEF RegistryInv, RegistryConsistent, PendingConsistent, Waits
  <1>4. Negotiated(t) => t \in 1..made /\ tun[t].id \in IDs /\ ~Pending(tun[t].id)
    BY RegistryTypes DEF RegistryInv, RegistryConsistent, CurrentConsistent, InUse, Negotiated, NoTunnel
  <1>5. Negotiated(t) => tun[t].conn = "none"
    BY DEF RegistryInv, Stage, Negotiated
  <1> QED
    BY <1>1, <1>2, <1>3, <1>4, <1>5

\* The step adds to or takes from the subscriptions what it makes live or ends.
LEMMA SubscriptionStep ==
    ASSUME TypeOK, SubscriptionsMatchTunnels, [Next]_vars,
           \A t \in Tunnels : \/ (t \in tunnelTopics' <=> t \in tunnelTopics) /\ (Live(t)' <=> Live(t))
                              \/ t \in tunnelTopics' /\ Live(t)'
                              \/ t \notin tunnelTopics' /\ ~Live(t)'
    PROVE  SubscriptionsMatchTunnels'
  <1>1. tunnelTopics' \subseteq Tunnels
    <2>1. ServerTyped'
      BY ServerNext
    <2>2. tunnelTopics' \subseteq 1..made' /\ made' \in 0..MaxTunnels
      BY <2>1 DEF ServerTyped
    <2> QED
      BY <2>2, BoundAssumption DEF Tunnels
  <1>2. \A t \in Tunnels : t \in tunnelTopics <=> Live(t)
    BY DEF SubscriptionsMatchTunnels
  <1>3. \A t \in Tunnels : t \in tunnelTopics' <=> Live(t)'
    BY <1>2
  <1>4. tunnelTopics' = {t \in Tunnels : Live(t)'}
    BY <1>1, <1>3
  <1> QED
    BY <1>4 DEF SubscriptionsMatchTunnels, Live

LEMMA NegotiationLive ==
    ASSUME TypeOK, RegistryInv, OrderlyEnd, [Next]_vars, NEW t \in Tunnels,
           S_AcceptConnect \/ S_AckSent \/ S_HandleConfirm \/ S_DialOk \/ S_Register
    PROVE  \/ (t \in tunnelTopics' <=> t \in tunnelTopics) /\ (Live(t)' <=> Live(t))
           \/ t \in tunnelTopics' /\ Live(t)'
  <1>a. /\ IDsKept /\ made \in Nat /\ MaxTunnels \in Nat /\ pendingConfirms \in [IDs -> 0..made]
        /\ t # NoTunnel /\ t \in Nat
    BY IDsNext, QueueTypes, RegistryTypes DEF Tunnels, NoTunnel
  <1>b. ASSUME UNCHANGED <<made, tun>> PROVE Loops(t)' <=> Loops(t)
    BY <1>b DEF Loops
  <1>1. CASE S_AcceptConnect
    <2>1. /\ spc = "select" /\ spc' = "ackwait" /\ cur' = made + 1 /\ made' = made + 1
          /\ tunnelTopics' = tunnelTopics \cup {made + 1} /\ UNCHANGED pendingConfirms
      BY <1>1 DEF S_AcceptConnect, S_Take, NewTunnel, Work, mapVars
    <2>2. CASE t = made + 1
      BY <2>1, <2>2 DEF Live
    <2>3. CASE t # made + 1
      <3>1. Loops(t)' <=> Loops(t)
        BY <1>1, ObjectSteps, RegistryTypes DEF S_AcceptConnect, NewTunnel, Loops, ServerTunnel
      <3>2. Waits(t)' <=> Waits(t)
        <4>1. t <= made' <=> t <= made
          BY <1>a, <2>1, <2>3
        <4>2. t <= made => tun'[t].id = tun[t].id
          BY <1>a DEF IDsKept, NoTunnel, Tunnels
        <4> QED
          BY <2>1, <4>1, <4>2 DEF Waits
      <3>3. ~Negotiated(t) /\ ~Negotiated(t)'
        BY <2>1, <2>3 DEF Negotiated
      <3>4. Live(t)' <=> Live(t)
        BY <3>1, <3>2, <3>3 DEF Live, Loops, Waits, Negotiated
      <3> QED
        BY <2>1, <2>3, <3>4
    <2> QED
      BY <2>2, <2>3
  <1>2. CASE S_AckSent
    <2>1. /\ spc = "ackwait" /\ spc' = "select" /\ UNCHANGED <<made, tun, tunnelTopics>>
          /\ pendingConfirms' = [pendingConfirms EXCEPT ![tun[cur].id] = cur]
      BY <1>2 DEF S_AckSent, Return, Work, tunnelVars
    <2>2. cur \in 1..made /\ tun[cur].id \in IDs /\ pendingConfirms[tun[cur].id] = NoTunnel /\ cur \in Tunnels
      BY <2>1, RegistryTypes DEF RegistryInv, RegistryConsistent, CurrentConsistent, InUse, Pending, NoTunnel
    <2>3. CASE t = cur
      <3>1. Waits(t)' /\ Negotiated(t)
        BY <2>1, <2>2, <2>3, <1>a DEF Waits, Negotiated
      <3> QED
        BY <2>1, <3>1, LiveParts DEF Live, Waits
    <2>4. CASE t # cur
      <3>1. Waits(t)' <=> Waits(t)
        BY <1>a, <2>1, <2>2, <2>4 DEF Waits
      <3>2. ~Negotiated(t) /\ ~Negotiated(t)'
        BY <2>1, <2>4 DEF Negotiated
      <3> QED
        BY <1>b, <2>1, <3>1, <3>2 DEF Live, Loops, Waits, Negotiated
    <2> QED
      BY <2>3, <2>4
  <1>3. CASE S_HandleConfirm
    <2> DEFINE id == Head(controlCh[Server]).id
    <2>1. spc = "select" /\ UNCHANGED <<made, tun, tunnelTopics>> /\ id \in IDs
      BY <1>3, TakeType DEF S_HandleConfirm, S_Take, tunnelVars
    <2>2. CASE Pending(id)
      <3>1. /\ pendingConfirms' = [pendingConfirms EXCEPT ![id] = NoTunnel]
            /\ spc' = "dial" /\ cur' = pendingConfirms[id]
        BY <1>3, <2>2 DEF S_HandleConfirm, Forget, Work
      <3>2. tun[pendingConfirms[id]].id = id
        BY <2>1, <2>2 DEF RegistryInv, RegistryConsistent, PendingConsistent
      <3>3. pendingConfirms[id] \in 1..made
        BY <2>1, <2>2, RegistryTypes DEF Pending, NoTunnel
      <3> HIDE DEF id
      <3>4. CASE t = pendingConfirms[id]
        <4>1. Waits(t) /\ Negotiated(t)'
          BY <1>a, <3>1, <3>2, <3>3, <3>4 DEF Waits, Negotiated
        <4> QED
          BY <2>1, <4>1 DEF Live, Waits, Negotiated
      <3>5. CASE t # pendingConfirms[id]
        <4>1. Waits(t)' <=> Waits(t)
          BY <1>a, <2>1, <3>1, <3>5 DEF Waits
        <4>2. ~Negotiated(t) /\ ~Negotiated(t)'
          BY <2>1, <3>1, <3>5 DEF Negotiated
        <4> QED
          BY <1>b, <2>1, <4>1, <4>2 DEF Live, Loops, Waits, Negotiated
      <3> QED
        BY <3>4, <3>5
    <2>3. CASE ~Pending(id)
      BY <1>3, <2>1, <2>3 DEF S_HandleConfirm, Live, mainVars
    <2> QED
      BY <2>2, <2>3
  <1>4. CASE S_DialOk
    <2>1. spc = "dial" /\ spc' = "register" /\ UNCHANGED <<made, pendingConfirms, tunnelTopics>>
      BY <1>4 DEF S_DialOk, Work, mapVars
    <2>2. CASE t = cur
      <3>1. tun'[t].loop = "run"
        BY <1>4, <2>2, RegistryTypes DEF S_DialOk, ServerTunnel
      <3> QED
        BY <2>1, <2>2, <3>1 DEF Live
    <2>3. CASE t # cur
      <3>1. tun'[t] = tun[t]
        BY <1>4, <2>3, RegistryTypes DEF S_DialOk
      <3> QED
        BY <2>1, <2>3, <3>1 DEF Live
    <2> QED
      BY <2>2, <2>3
  <1>5. CASE S_Register
    <2>1. spc = "register" /\ spc' = "select" /\ UNCHANGED <<made, tun, pendingConfirms, tunnelTopics>>
      BY <1>5 DEF S_Register, Return, Work, tunnelVars
    <2> QED
      BY <2>1 DEF Live
  <1> QED
    BY <1>1, <1>2, <1>3, <1>4, <1>5

LEMMA TunnelLive ==
    ASSUME TypeOK, RegistryInv, OrderlyEnd, LinkKept, [Next]_vars, NEW t \in Tunnels, NEW u \in Tunnels, TunnelRuns(u)
    PROVE  \/ (t \in tunnelTopics' <=> t \in tunnelTopics) /\ (Live(t)' <=> Live(t))
           \/ t \notin tunnelTopics' /\ ~Live(t)'
  <1>a. /\ UNCHANGED <<mainVars, made>> /\ pendingConfirms \in [IDs -> 0..made]
        /\ made \in Nat /\ t # NoTunnel /\ t \in Nat
    BY QueueTypes, RegistryTypes DEF TunnelRuns, S_ConfirmTimeout, TargetCloses, T_ReadEnds, T_LoopEnds, T_Unsubscribe,
       tunnelVars, Tunnels, NoTunnel
  <1>b. t <= made => tun'[t].id = tun[t].id
    BY <1>a, IDsNext DEF IDsKept, Tunnels
  <1>c. Negotiated(t)' <=> Negotiated(t)
    BY <1>a DEF Negotiated, mainVars
  <1>1. CASE S_ConfirmTimeout(u)
    <2> DEFINE id == tun[u].id
               p  == pendingConfirms[id]
    <2>1. /\ UNCHANGED tun /\ pendingConfirms' = [pendingConfirms EXCEPT ![id] = NoTunnel]
          /\ tunnelTopics' = tunnelTopics \ {p} /\ u \in confirmTimers
      BY <1>1 DEF S_ConfirmTimeout, Forget, Unsubscribe, LinkKept, tunnelVars
    <2>2. id \in IDs
      <3>1. u \in 1..made
        BY <2>1 DEF TypeOK, ServerTyped
      <3> QED
        BY <3>1, RegistryTypes
    <2> HIDE DEF id
    <2>3. CASE t # p
      <3>1. Waits(t)' <=> Waits(t)
        BY <1>a, <2>1, <2>2, <2>3 DEF Waits, p
      <3>2. Loops(t)' <=> Loops(t)
        BY <2>1 DEF Loops
      <3>3. Live(t)' <=> Live(t)
        BY <1>c, <3>1, <3>2 DEF Live, Loops, Waits, Negotiated
      <3> QED
        BY <2>1, <2>3, <3>3
    <2>4. CASE t = p
      <3>1. Pending(id)
        BY <1>a, <2>4 DEF Pending, p
      <3>2. tun[t].id = id /\ t \in 1..made
        BY <2>2, <2>4, <3>1, RegistryTypes DEF RegistryInv, RegistryConsistent, PendingConsistent, p, Pending, NoTunnel
      <3>3. Waits(t)
        BY <2>4, <3>2 DEF Waits, p
      <3>4. ~Loops(t) /\ ~Negotiated(t)
        BY <3>1, <3>2, <3>3, LiveOnce
      <3>5. ~Waits(t)' /\ ~Loops(t)'
        BY <1>a, <2>1, <2>2, <3>2, <3>4 DEF Waits, Loops
      <3>6. ~Live(t)'
        BY <1>c, <3>4, <3>5 DEF Live, Loops, Waits, Negotiated
      <3> QED
        BY <2>1, <2>4, <3>6
    <2> QED
      BY <2>3, <2>4
  <1>d. ASSUME UNCHANGED pendingConfirms PROVE Waits(t)' <=> Waits(t)
    BY <1>a, <1>b, <1>d DEF Waits
  <1>2. CASE T_Unsubscribe(u)
    <2>1. UNCHANGED pendingConfirms /\ tunnelTopics' = tunnelTopics \ {u} /\ tun[u].loop = "unsub"
          /\ tun' = [tun EXCEPT ![u].loop = "done"]
      BY <1>2 DEF T_Unsubscribe, Unsubscribe, LinkKept, mapVars
    <2>2. CASE t = u
      <3>1. Loops(t)
        BY <2>1, <2>2 DEF Loops
      <3>2. ~Waits(t) /\ ~Negotiated(t)
        BY <3>1, LiveOnce
      <3>3. ~Loops(t)'
        BY <2>1, <2>2, RegistryTypes DEF Loops, ServerTunnel
      <3>4. ~Live(t)'
        BY <1>c, <1>d, <2>1, <3>2, <3>3 DEF Live, Loops, Waits, Negotiated
      <3> QED
        BY <2>1, <2>2, <3>4
    <2>3. CASE t # u
      <3>1. tun'[t] = tun[t]
        BY <2>1, <2>3, RegistryTypes
      <3>2. Live(t)' <=> Live(t)
        BY <1>c, <1>d, <2>1, <3>1 DEF Live, Loops, Waits, Negotiated
      <3> QED
        BY <2>1, <2>3, <3>2
    <2> QED
      BY <2>2, <2>3
  <1>3. CASE TargetCloses(u) \/ T_ReadEnds(u) \/ T_LoopEnds(u)
    <2>1. UNCHANGED <<pendingConfirms, tunnelTopics>>
      BY <1>3 DEF TargetCloses, T_ReadEnds, T_LoopEnds, mapVars
    <2>2. Loops(t)' <=> Loops(t)
      <3>1. CASE t # u
        BY <1>3, <3>1, RegistryTypes DEF TargetCloses, T_ReadEnds, T_LoopEnds, Loops
      <3>2. CASE t = u /\ TargetCloses(u)
        BY <3>2, RegistryTypes DEF TargetCloses, Loops, ServerTunnel
      <3>3. CASE t = u /\ T_ReadEnds(u)
        BY <3>3, RegistryTypes DEF T_ReadEnds, Loops, ServerTunnel
      <3>4. CASE t = u /\ T_LoopEnds(u)
        BY <3>4, RegistryTypes DEF T_LoopEnds, Loops, ServerTunnel
      <3> QED
        BY <1>3, <3>1, <3>2, <3>3, <3>4
    <2> QED
      BY <1>c, <1>d, <2>1, <2>2 DEF Live, Loops, Waits, Negotiated
  <1> QED
    BY <1>1, <1>2, <1>3 DEF TunnelRuns

LEMMA SubscriptionsNext ==
    ASSUME Faults \subseteq {"qos0"}, TypeOK, RegistryInv, OrderlyEnd, LinkKept, SubscriptionsMatchTunnels,
           ~S_Reconnect, [Next]_vars
    PROVE  SubscriptionsMatchTunnels'
  <1>1. CASE S_AcceptConnect \/ S_AckSent \/ S_HandleConfirm \/ S_DialOk \/ S_Register
    BY <1>1, NegotiationLive, SubscriptionStep
  <1>2. CASE \E u \in Tunnels : TunnelRuns(u)
    BY <1>2, TunnelLive, SubscriptionStep
  <1>3. ~S_SubscribeFails /\ ~S_DialFails
    BY DEF S_SubscribeFails, S_DialFails, LinkKept
  <1>4. CASE S_HandleClosed \/ S_TunnelClosed
    <2>1. UNCHANGED <<mainVars, made, pendingConfirms, tunnelTopics>>
      BY <1>4 DEF S_HandleClosed, S_TunnelClosed, tunnelVars
    <2>2. ASSUME NEW t \in Tunnels PROVE Live(t)' <=> Live(t)
      <3>1. tun'[t].loop = tun[t].loop
        <4>1. UNCHANGED tun \/ \E v : Teardown(v)
          BY <1>4 DEF S_HandleClosed, S_TunnelClosed, tunnelVars
        <4>2. ASSUME NEW v, Teardown(v) PROVE tun'[t].loop = tun[t].loop
          BY <4>2, RegistryTypes DEF Teardown, ServerTunnel
        <4> QED
          BY <4>1, <4>2
      <3>2. t <= made => tun'[t].id = tun[t].id
        BY IDsNext, QueueTypes DEF IDsKept, Tunnels
      <3> QED
        BY <2>1, <3>1, <3>2 DEF Live, mainVars
    <2> QED
      BY <2>1, <2>2, SubscriptionStep
  <1>5. CASE UNCHANGED resourceVars
    BY <1>5 DEF resourceVars, mainVars, mapVars, tunnelVars, SubscriptionsMatchTunnels, Live
  <1> QED
    BY <1>1, <1>2, <1>3, <1>4, <1>5, ResourceSteps

(***************************************************************************)
(* If the server keeps its connection to the broker and no subscription    *)
(* and no dial fails, it is subscribed to exactly the topics of the tunnels *)
(* it negotiates, waits for or carries data for, however often packets are *)
(* delivered: handleControl, the confirm timer and the deferred            *)
(* unsubscribe of mainLoop leave no subscription behind and take none that *)
(* is needed.                                                              *)
(***************************************************************************)
THEOREM SubscriptionsCorrect ==
    MaxLinkLoss = 0 /\ Faults \subseteq {"qos0"} => (Spec => []SubscriptionsMatchTunnels)
  <1> SUFFICES ASSUME MaxLinkLoss = 0, Faults \subseteq {"qos0"} PROVE Spec => []SubscriptionsMatchTunnels
    OBVIOUS
  <1> DEFINE Inv == LinkKept /\ OrderlyEnd /\ SubscriptionsMatchTunnels
  <1>1. Init => Inv
    BY DEF Init, LinkKept, OrderlyEnd, SubscriptionsMatchTunnels, Live, Ended, Unmade, Tunnels, NoTunnel
  <1>2. Consistent /\ Inv /\ [Next]_vars => Inv'
    <2> SUFFICES ASSUME Consistent, Inv, [Next]_vars PROVE Inv'
      OBVIOUS
    <2>1. TypeOK /\ RegistryInv
      BY DEF Consistent
    <2>2. LinkKept' /\ ~S_Reconnect
      BY <2>1, LinkKeptNext
    <2> QED
      BY <2>1, <2>2, OrderlyEndNext, SubscriptionsNext
  <1>3. Inv => SubscriptionsMatchTunnels
    OBVIOUS
  <1> QED
    BY <1>1, <1>2, <1>3, ConsistentCorrect, PTL DEF Spec
=============================================================================
