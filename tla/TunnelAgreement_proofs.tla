----------------------- MODULE TunnelAgreement_proofs -----------------------
(***************************************************************************)
(* The server's maps agree with its tunnels, and the two ends of a tunnel  *)
(* with each other, for every value of the constants: whatever fails, is   *)
(* delivered twice or is lost.                                             *)
(***************************************************************************)
EXTENDS TunnelProtocol_proofs

(***************************************************************************)
(* RegistryConsistent says nothing of the connection of the tunnel that    *)
(* handleControl works on, which decides what may be put in a map when it  *)
(* returns.  Stage adds it: no connection before the dial, a connection    *)
(* and a data loop after it.                                               *)
(***************************************************************************)
Stage ==
    /\ spc \in {"ackwait", "dial"} => tun[cur].conn = "none"
    /\ spc = "register" => tun[cur].conn # "none" /\ tun[cur].loop # "off"

RegistryInv == RegistryConsistent /\ Stage

\* What the invariant looks at.
registryVars == <<mainVars, mapVars, tunnelVars>>

-----------------------------------------------------------------------------
(* Facts of the type invariant in the form the steps below use. *)

LEMMA RegistryTypes ==
    ASSUME TypeOK
    PROVE  /\ MaxTunnels \in Nat /\ made \in 0..MaxTunnels
           /\ spc \in {"select", "ackwait", "dial", "register"}
           /\ cur \in 0..made /\ (cur # NoTunnel <=> spc # "select")
           /\ pendingConfirms \in [IDs -> 0..made]
           /\ connected \in [IDs -> 0..made]
           /\ tun \in [Tunnels -> ServerTunnel]
           /\ \A t \in Tunnels : t > made => tun[t] = Unmade
           /\ \A t \in 1..made : t \in Tunnels /\ tun[t].id \in IDs
  <1>1. ServerTyped /\ MaxTunnels \in Nat
    BY BoundAssumption DEF TypeOK
  <1> QED
    BY <1>1 DEF ServerTyped, Tunnels

(* A step that changes no ID, opens no connection and starts no loop, and  *)
(* leaves the maps and the main loop alone.                                *)

LEMMA SameStage ==
    ASSUME TypeOK, RegistryInv, UNCHANGED <<mainVars, mapVars, made>>,
           \A t \in 1..made : /\ tun'[t].id = tun[t].id
                              /\ tun'[t].conn = "none" <=> tun[t].conn = "none"
                              /\ tun'[t].loop = "off" <=> tun[t].loop = "off"
    PROVE  RegistryInv'
  <1>1. \A id \in IDs : /\ Pending(id) => pendingConfirms[id] \in 1..made
                        /\ Connected(id) => connected[id] \in 1..made
    BY RegistryTypes DEF Pending, Connected, NoTunnel
  <1>2. cur # NoTunnel => cur \in 1..made
    BY RegistryTypes DEF NoTunnel
  <1> QED
    BY <1>1, <1>2, RegistryTypes DEF RegistryInv, RegistryConsistent, PendingConsistent,
       ConnectedConsistent, CurrentConsistent, Stage, InUse, Pending, Connected, mainVars, mapVars

-----------------------------------------------------------------------------
(* The steps of the main loop and of the timer. *)

LEMMA NewTunnelStep ==
    ASSUME TypeOK, RegistryInv, S_AcceptConnect \/ S_SubscribeFails
    PROVE  RegistryInv'
  <1> DEFINE id == Head(controlCh[Server]).id
  <1>1. /\ spc = "select" /\ UNCHANGED mapVars
        /\ made < MaxTunnels /\ tun' = [tun EXCEPT ![made + 1].id = id]
        /\ Refusal(Head(controlCh[Server])) = ""
        /\ Work("ackwait", made + 1) \/ UNCHANGED mainVars
    BY DEF S_AcceptConnect, S_SubscribeFails, S_Take, NewTunnel
  <1>2. id \in IDs
    BY TakeType DEF S_AcceptConnect, S_SubscribeFails
  <1>3. ~InUse(id)
    BY <1>1 DEF Refusal
  <1>4. /\ \A t \in 1..made : tun'[t] = tun[t]
        /\ made + 1 \in Tunnels /\ tun'[made + 1].id = id /\ tun'[made + 1].conn = "none"
    <2>0. made \in Nat /\ made + 1 \in Tunnels /\ made + 1 > made /\ \A t \in 1..made : t # made + 1
      <3>1. MaxTunnels \in Nat /\ made \in 0..MaxTunnels /\ made < MaxTunnels
        BY <1>1, RegistryTypes
      <3> QED
        BY <3>1 DEF Tunnels
    <2>1. tun[made + 1] = Unmade
      BY <2>0, RegistryTypes
    <2>2. tun'[made + 1] = [tun[made + 1] EXCEPT !.id = id] /\ \A t \in 1..made : tun'[t] = tun[t]
      BY <1>1, <2>0, RegistryTypes
    <2>3. [Unmade EXCEPT !.id = id].id = id /\ [Unmade EXCEPT !.id = id].conn = "none"
      BY DEF Unmade
    <2> QED
      BY <2>0, <2>1, <2>2, <2>3
  <1> HIDE DEF id
  <1>5. cur = NoTunnel
    BY <1>1, RegistryTypes
  <1>6. \A i \in IDs : /\ Pending(i) => pendingConfirms[i] \in 1..made
                       /\ Connected(i) => connected[i] \in 1..made
    BY RegistryTypes DEF Pending, Connected, NoTunnel
  <1>7. (cur' = NoTunnel /\ spc' = "select") \/ (cur' = made + 1 /\ spc' = "ackwait")
    <2>1. spc = "select" /\ (Work("ackwait", made + 1) \/ UNCHANGED mainVars)
      BY <1>1
    <2> QED
      BY <1>5, <2>1 DEF Work, mainVars
  <1>8. PendingConsistent' /\ ConnectedConsistent'
    <2>0. MaxTunnels \in Nat /\ made \in 0..MaxTunnels
      BY RegistryTypes
    <2>1. UNCHANGED mapVars
      BY <1>1
    <2>2. cur' = NoTunnel \/ cur' = made + 1
      BY <1>7
    <2>3. made \in Nat
      BY <2>0
    <2> QED
      BY <1>4, <1>6, <2>1, <2>2, <2>3 DEF RegistryInv, RegistryConsistent, PendingConsistent,
         ConnectedConsistent, Pending, Connected, mapVars, NoTunnel
  <1>9. CurrentConsistent' /\ Stage'
    BY <1>1, <1>2, <1>3, <1>4, <1>7 DEF CurrentConsistent, Stage, InUse, Pending, Connected, mapVars
  <1> QED
    BY <1>8, <1>9 DEF RegistryInv, RegistryConsistent

LEMMA AckSentStep ==
    ASSUME TypeOK, RegistryInv, S_AckSent
    PROVE  RegistryInv'
  <1> DEFINE id == tun[cur].id
  <1>1. /\ cur \in 1..made /\ spc = "ackwait" /\ cur' = NoTunnel /\ spc' = "select"
        /\ pendingConfirms' = [pendingConfirms EXCEPT ![id] = cur]
        /\ UNCHANGED <<connected, tun>>
    BY RegistryTypes DEF S_AckSent, Return, Work, NoTunnel, tunnelVars
  <1>2. id \in IDs /\ ~InUse(id) /\ tun[cur].conn = "none"
    BY <1>1, RegistryTypes DEF RegistryInv, RegistryConsistent, CurrentConsistent, Stage, NoTunnel
  <1> HIDE DEF id
  <1>3. PendingConsistent'
    BY <1>1, <1>2, RegistryTypes DEF RegistryInv, RegistryConsistent, PendingConsistent, InUse, Pending,
       Connected, NoTunnel, id
  <1>4. ConnectedConsistent'
    BY <1>1, RegistryTypes DEF RegistryInv, RegistryConsistent, ConnectedConsistent, Connected, NoTunnel
  <1> QED
    BY <1>1, <1>3, <1>4 DEF RegistryInv, RegistryConsistent, CurrentConsistent, Stage

\* The tunnel that leaves pendingConfirms is in no other map.
LEMMA ConfirmStep ==
    ASSUME TypeOK, RegistryInv, S_HandleConfirm
    PROVE  RegistryInv'
  <1> DEFINE id == Head(controlCh[Server]).id
             t  == pendingConfirms[id]
  <1>1. id \in IDs
    BY TakeType DEF S_HandleConfirm
  <1>2. CASE Pending(id)
    <2>1. /\ spc = "select" /\ spc' = "dial" /\ cur' = t
          /\ pendingConfirms' = [pendingConfirms EXCEPT ![id] = NoTunnel]
          /\ UNCHANGED <<connected, tun>>
      BY <1>2 DEF S_HandleConfirm, S_Take, Forget, Work, tunnelVars
    <2>2. tun[t].id = id /\ tun[t].conn = "none" /\ ~Connected(id) /\ t # NoTunnel
      BY <1>1, <1>2 DEF RegistryInv, RegistryConsistent, PendingConsistent, Pending
    <2> HIDE DEF id, t
    <2>3. PendingConsistent'
      BY <1>1, <2>1, <2>2, RegistryTypes DEF RegistryInv, RegistryConsistent, PendingConsistent, Pending,
         Connected
    <2>4. ConnectedConsistent'
      BY <2>1, <2>2 DEF RegistryInv, RegistryConsistent, ConnectedConsistent, Connected
    <2>5. CurrentConsistent' /\ Stage'
      BY <1>1, <2>1, <2>2, RegistryTypes DEF CurrentConsistent, Stage, InUse, Pending, Connected
    <2> QED
      BY <2>3, <2>4, <2>5 DEF RegistryInv, RegistryConsistent
  <1>3. CASE ~Pending(id)
    BY <1>3, SameStage DEF S_HandleConfirm, mapVars, tunnelVars
  <1> QED
    BY <1>2, <1>3

LEMMA DialStep ==
    ASSUME TypeOK, RegistryInv, S_DialOk \/ S_DialFails
    PROVE  RegistryInv'
  <1>1. /\ cur \in 1..made /\ spc = "dial" /\ UNCHANGED mapVars
        /\ \/ S_DialFails /\ cur' = NoTunnel /\ spc' = "select" /\ UNCHANGED tun
           \/ /\ S_DialOk /\ cur' = cur /\ spc' = "register"
              /\ \A t \in 1..made : t # cur => tun'[t] = tun[t]
              /\ tun'[cur].id = tun[cur].id /\ tun'[cur].conn = "open" /\ tun'[cur].loop = "run"
    BY RegistryTypes DEF S_DialOk, S_DialFails, Return, Work, NoTunnel, tunnelVars, ServerTunnel
  <1>2. \A i \in IDs : /\ Pending(i) => pendingConfirms[i] \in 1..made /\ pendingConfirms[i] # cur
                       /\ Connected(i) => connected[i] \in 1..made /\ connected[i] # cur
    BY RegistryTypes DEF RegistryInv, RegistryConsistent, PendingConsistent, ConnectedConsistent, Pending,
       Connected, NoTunnel
  <1>3. PendingConsistent' /\ ConnectedConsistent'
    BY <1>1, <1>2 DEF RegistryInv, RegistryConsistent, PendingConsistent, ConnectedConsistent, Pending,
       Connected, mapVars, NoTunnel
  <1>4. CurrentConsistent' /\ Stage'
    BY <1>1 DEF RegistryInv, RegistryConsistent, CurrentConsistent, Stage, InUse, Pending, Connected, mapVars,
       NoTunnel
  <1> QED
    BY <1>3, <1>4 DEF RegistryInv, RegistryConsistent

LEMMA RegisterStep ==
    ASSUME TypeOK, RegistryInv, S_Register
    PROVE  RegistryInv'
  <1> DEFINE id == tun[cur].id
  <1>1. /\ cur \in 1..made /\ spc = "register" /\ cur' = NoTunnel /\ spc' = "select"
        /\ connected' = [connected EXCEPT ![id] = cur]
        /\ UNCHANGED <<pendingConfirms, tun>>
    BY RegistryTypes DEF S_Register, Return, Work, NoTunnel, tunnelVars
  <1>2. id \in IDs /\ ~InUse(id) /\ tun[cur].conn # "none" /\ tun[cur].loop # "off"
    BY <1>1, RegistryTypes DEF RegistryInv, RegistryConsistent, CurrentConsistent, Stage, NoTunnel
  <1> HIDE DEF id
  <1>3. ConnectedConsistent'
    BY <1>1, <1>2, RegistryTypes DEF RegistryInv, RegistryConsistent, ConnectedConsistent, Connected, NoTunnel, id
  <1>4. PendingConsistent'
    BY <1>1, <1>2, RegistryTypes DEF RegistryInv, RegistryConsistent, PendingConsistent, InUse, Pending,
       Connected, NoTunnel
  <1> QED
    BY <1>1, <1>3, <1>4 DEF RegistryInv, RegistryConsistent, CurrentConsistent, Stage

LEMMA ClosedStep ==
    ASSUME TypeOK, RegistryInv, S_HandleClosed
    PROVE  RegistryInv'
  <1> DEFINE id == Head(controlCh[Server]).id
             t  == connected[id]
  <1>1. id \in IDs /\ spc = "select" /\ UNCHANGED <<mainVars, pendingConfirms, made>>
    BY TakeType DEF S_HandleClosed, S_Take
  <1>2. CASE Connected(id)
    <2>1. connected' = [connected EXCEPT ![id] = NoTunnel] /\ Teardown(t)
      BY <1>2 DEF S_HandleClosed
    <2>2. t \in 1..made /\ tun[t].id = id /\ tun[t].conn # "none"
      BY <1>1, <1>2, RegistryTypes DEF RegistryInv, RegistryConsistent, ConnectedConsistent, Connected, NoTunnel
    <2> HIDE DEF id, t
    <2>3. \A u \in 1..made : /\ tun'[u].id = tun[u].id /\ tun'[u].loop = tun[u].loop
                             /\ tun'[u].conn = "none" <=> tun[u].conn = "none"
      <3>1. \A u \in 1..made : u # t => tun'[u] = tun[u]
        BY <2>1, RegistryTypes DEF Teardown
      <3>2. tun[t] \in ServerTunnel /\ tun' = [tun EXCEPT ![t] = [tun[t] EXCEPT !.closedByRemote = TRUE, !.conn = "closed"]]
        BY <2>1, <2>2, RegistryTypes DEF Teardown
      <3>3. tun'[t] = [tun[t] EXCEPT !.closedByRemote = TRUE, !.conn = "closed"]
        BY <2>2, <3>2, RegistryTypes
      <3>4. tun'[t].id = tun[t].id /\ tun'[t].loop = tun[t].loop /\ tun'[t].conn = "closed"
        <4>1. tun[t] \in ServerTunnel
          BY <3>2
        <4> QED
          BY <3>3, <4>1 DEF ServerTunnel
      <3> QED
        BY <2>2, <3>1, <3>4
    <2>4. \A i \in IDs : /\ Pending(i) => pendingConfirms[i] \in 1..made
                         /\ Connected(i) => connected[i] \in 1..made
                         /\ Connected(i)' => Connected(i) /\ connected'[i] = connected[i]
      BY <1>1, <2>1, RegistryTypes DEF Pending, Connected, NoTunnel
    <2>5. cur = NoTunnel /\ cur' = NoTunnel /\ spc' = "select"
      BY <1>1, RegistryTypes DEF mainVars
    <2> QED
      BY <1>1, <2>3, <2>4, <2>5 DEF RegistryInv, RegistryConsistent, PendingConsistent, ConnectedConsistent,
         CurrentConsistent, Stage, Pending, NoTunnel
  <1>3. CASE ~Connected(id)
    BY <1>1, <1>3, SameStage DEF S_HandleClosed, mapVars
  <1> QED
    BY <1>2, <1>3

\* Entries only leave the maps; the tunnels and the main loop do not change.
LEMMA RemoveStep ==
    ASSUME TypeOK, RegistryInv, UNCHANGED <<mainVars, tunnelVars>>,
           \A id \in IDs : /\ pendingConfirms'[id] \in {pendingConfirms[id], NoTunnel}
                           /\ connected'[id] \in {connected[id], NoTunnel}
    PROVE  RegistryInv'
  <1>1. cur # NoTunnel => tun[cur].id \in IDs
    BY DEF RegistryInv, RegistryConsistent, CurrentConsistent
  <1> QED
    BY <1>1 DEF RegistryInv, RegistryConsistent, PendingConsistent, ConnectedConsistent, CurrentConsistent, Stage,
       InUse, Pending, Connected, mainVars, tunnelVars

-----------------------------------------------------------------------------
LEMMA RegistryNext == TypeOK /\ RegistryInv /\ [Next]_vars => RegistryInv'
  <1> SUFFICES ASSUME TypeOK, RegistryInv, [Next]_vars PROVE RegistryInv'
    OBVIOUS
  <1>1. CASE UNCHANGED registryVars
    BY <1>1, SameStage DEF registryVars, tunnelVars
  <1>2. CASE ServerMain
    <2>1. CASE S_RejectConnect
      BY <2>1, <1>1 DEF S_RejectConnect, serverVars, registryVars
    <2>2. CASE S_TunnelClosed
      BY <2>2, RemoveStep, RegistryTypes DEF S_TunnelClosed
    <2> QED
      BY <1>2, <2>1, <2>2, NewTunnelStep, AckSentStep, ConfirmStep, DialStep, RegisterStep, ClosedStep
      DEF ServerMain
  <1>3. CASE Callback
    BY <1>1, <1>3, RemoveStep DEF Callback, S_Reconnect, SignalLost, serverVars, registryVars
  <1>4. ASSUME NEW t \in Tunnels, S_ConfirmTimeout(t) PROVE RegistryInv'
    BY <1>4, RemoveStep, RegistryTypes DEF S_ConfirmTimeout, Forget
  <1>5. ASSUME NEW t \in Tunnels, TargetCloses(t) \/ T_ReadEnds(t) \/ T_LoopEnds(t) \/ T_Unsubscribe(t)
        PROVE  RegistryInv'
    <2>1. UNCHANGED <<mainVars, mapVars, made>> /\ tun[t] \in ServerTunnel
      BY <1>5, RegistryTypes DEF TargetCloses, T_ReadEnds, T_LoopEnds, T_Unsubscribe
    <2>2. \A u \in Tunnels : u # t => tun'[u] = tun[u]
      BY <1>5, RegistryTypes DEF TargetCloses, T_ReadEnds, T_LoopEnds, T_Unsubscribe
    <2>3. /\ tun'[t].id = tun[t].id
          /\ tun'[t].conn = "none" <=> tun[t].conn = "none"
          /\ tun'[t].loop = "off" <=> tun[t].loop = "off"
      <3>1. CASE TargetCloses(t)
        BY <2>1, <3>1, RegistryTypes DEF TargetCloses, ServerTunnel
      <3>2. CASE T_ReadEnds(t)
        BY <2>1, <3>2, RegistryTypes DEF T_ReadEnds, ServerTunnel
      <3>3. CASE T_LoopEnds(t)
        BY <2>1, <3>3, RegistryTypes DEF T_LoopEnds, ServerTunnel
      <3>4. CASE T_Unsubscribe(t)
        BY <2>1, <3>4, RegistryTypes DEF T_Unsubscribe, ServerTunnel
      <3> QED
        BY <1>5, <3>1, <3>2, <3>3, <3>4
    <2> QED
      BY <2>1, <2>2, <2>3, RegistryTypes, SameStage
  <1>6. ASSUME NEW c \in Clients,
               C_Open(c) \/ C_ConnectionLost(c) \/ C_StdinEof(c) \/ C_Receive(c) \/ ClientMain(c)
                 \/ C_Timeout(c) \/ C_LoopEnds(c)
        PROVE  UNCHANGED registryVars
    BY <1>6 DEF C_Open, C_ConnectionLost, C_StdinEof, C_Receive, ClientMain, C_Timeout, C_LoopEnds,
       C_Register, C_HandleAck, C_SubscribeFails, C_IgnoreAck, C_Confirmed, C_FatalFailure,
       C_OtherFailure, C_HandleClosed, C_Done, Exit, serverVars, registryVars
  <1>7. ASSUME S_Receive \/ S_DropPacket \/ LinkUp \/ Resume \/ LinkLost
        PROVE  UNCHANGED registryVars
    BY <1>7 DEF S_Receive, S_DropPacket, LinkUp, Resume, LinkLost, serverVars, registryVars
  <1>8. ASSUME NEW n \in Nodes, Redeliver(n) PROVE UNCHANGED registryVars
    BY <1>8 DEF Redeliver, serverVars, registryVars
  <1>9. ASSUME NEW id \in HandIDs, HandRequest(id) PROVE UNCHANGED registryVars
    BY <1>9 DEF HandRequest, serverVars, registryVars
  <1> QED
    BY <1>1, <1>2, <1>3, <1>4, <1>5, <1>6, <1>7, <1>8, <1>9
    DEF Next, Environment, vars, serverVars, registryVars

(***************************************************************************)
(* An ID is in at most one of the two maps and handleControl, under the    *)
(* tunnel that was made for it; what is pending has no TCP connection, what *)
(* is connected has one and a data loop.                                   *)
(***************************************************************************)
THEOREM RegistryCorrect == Spec => []RegistryConsistent
  <1>1. Init => RegistryInv
    BY DEF Init, RegistryInv, RegistryConsistent, PendingConsistent, ConnectedConsistent, CurrentConsistent,
       Stage, Pending, Connected
  <1>2. RegistryInv => RegistryConsistent
    BY DEF RegistryInv
  <1> QED
    BY <1>1, <1>2, RegistryNext, TypeCorrect, PTL DEF Spec

-----------------------------------------------------------------------------
(* Signals of ended data loops. *)

LEMMA ToSetStep ==
    ASSUME NEW S, NEW q \in Seq(S)
    PROVE  /\ \A x \in S : x \in ToSet(Append(q, x)) /\ ToSet(q) \subseteq ToSet(Append(q, x))
           /\ q # <<>> => ToSet(q) \subseteq {Head(q)} \cup ToSet(Tail(q))
  <1>1. ASSUME NEW x \in S PROVE x \in ToSet(Append(q, x)) /\ ToSet(q) \subseteq ToSet(Append(q, x))
    <2>1. Append(q, x)[Len(q) + 1] = x /\ Len(q) + 1 \in DOMAIN Append(q, x)
      OBVIOUS
    <2>2. \A i \in DOMAIN q : i \in DOMAIN Append(q, x) /\ Append(q, x)[i] = q[i]
      OBVIOUS
    <2> QED
      BY <2>1, <2>2 DEF ToSet
  <1>2. ASSUME q # <<>> PROVE ToSet(q) \subseteq {Head(q)} \cup ToSet(Tail(q))
    <2>1. ASSUME NEW i \in DOMAIN q, i # 1 PROVE q[i] \in ToSet(Tail(q))
      <3>1. i - 1 \in DOMAIN Tail(q) /\ Tail(q)[i - 1] = q[i]
        BY <1>2, <2>1
      <3> QED
        BY <3>1 DEF ToSet
    <2>2. q[1] = Head(q)
      BY <1>2
    <2>3. \A i \in DOMAIN q : q[i] \in {Head(q)} \cup ToSet(Tail(q))
      BY <2>1, <2>2
    <2> QED
      BY <2>3 DEF ToSet
  <1> QED
    BY <1>1, <1>2

Ended(t)   == tun[t].loop \in {"unsub", "done"}
Tracked(t) == connected[tun[t].id] = t \/ (spc = "register" /\ cur = t)
Signals    == ToSet(tunnelClosedCh) \cup droppedSignals

(* No loop ends and no ended tunnel becomes tracked, no signal is taken. *)

LEMMA NoNewEnd ==
    ASSUME ClosedSignalPending, Signals \subseteq Signals',
           \A t \in Tunnels : Ended(t)' /\ Tracked(t)' => Ended(t) /\ Tracked(t) /\ tun'[t].id = tun[t].id
    PROVE  ClosedSignalPending'
  BY DEF ClosedSignalPending, Ended, Tracked, Signals

LEMMA LoopEndsStep ==
    ASSUME TypeOK, ClosedSignalPending, NEW t \in Tunnels, T_LoopEnds(t)
    PROVE  ClosedSignalPending'
  <1>1. /\ tun[t].loop = "run" /\ SignalClosed(tun[t].id) /\ UNCHANGED <<mainVars, mapVars>>
        /\ tun' = [tun EXCEPT ![t].loop = "unsub"]
    BY DEF T_LoopEnds
  <1>2. tun[t].id \in IDs /\ tunnelClosedCh \in Seq(IDs) /\ tun[t] \in ServerTunnel
    BY <1>1, RegistryTypes DEF Unmade, TypeOK, ServerTyped
  <1>3. Signals \subseteq Signals' /\ tun[t].id \in Signals'
    BY <1>1, <1>2, ToSetStep DEF SignalClosed, Signals
  <1>4. tun'[t] = [tun[t] EXCEPT !.loop = "unsub"] /\ \A u \in Tunnels : u # t => tun'[u] = tun[u]
    BY <1>1, RegistryTypes
  <1>5. tun'[t].id = tun[t].id
    BY <1>2, <1>4 DEF ServerTunnel
  <1>6. \A u \in Tunnels : u # t => (Ended(u)' <=> Ended(u)) /\ (Tracked(u)' <=> Tracked(u))
    BY <1>1, <1>4 DEF Ended, Tracked, mainVars, mapVars
  <1> QED
    BY <1>3, <1>4, <1>5, <1>6 DEF ClosedSignalPending, Ended, Tracked, Signals

LEMMA TakeSignalStep ==
    ASSUME TypeOK, ClosedSignalPending, S_TunnelClosed
    PROVE  ClosedSignalPending'
  <1> DEFINE h == Head(tunnelClosedCh)
  <1>1. /\ spc = "select" /\ tunnelClosedCh # <<>> /\ UNCHANGED <<mainVars, droppedSignals, tun>>
        /\ connected' = [connected EXCEPT ![h] = NoTunnel] /\ tunnelClosedCh' = Tail(tunnelClosedCh)
    BY DEF S_TunnelClosed, tunnelVars
  <1>2. tunnelClosedCh \in Seq(IDs)
    BY DEF TypeOK, ServerTyped
  <1>3. Signals \subseteq {h} \cup Signals'
    BY <1>1, <1>2, ToSetStep DEF Signals
  <1> HIDE DEF h
  <1>4. ASSUME NEW t \in Tunnels, Ended(t), Tracked(t)' PROVE Tracked(t) /\ tun[t].id # h
    <2>1. t \in 1..made
      BY <1>4, RegistryTypes DEF Ended, Unmade, Tunnels
    <2>2. tun[t].id \in IDs /\ t # NoTunnel
      BY <2>1, RegistryTypes DEF NoTunnel
    <2>3. connected'[tun[t].id] = t
      BY <1>1, <1>4 DEF Tracked, mainVars
    <2> QED
      BY <1>1, <2>2, <2>3, RegistryTypes DEF Tracked
  <1> QED
    BY <1>1, <1>3, <1>4 DEF ClosedSignalPending, Ended, Tracked, Signals

LEMMA ClosedSignalNext == TypeOK /\ ClosedSignalPending /\ [Next]_vars => ClosedSignalPending'
  <1> SUFFICES ASSUME TypeOK, ClosedSignalPending, [Next]_vars PROVE ClosedSignalPending'
    OBVIOUS
  <1>1. CASE UNCHANGED <<mainVars, connected, signalVars, tun>>
    BY <1>1 DEF ClosedSignalPending, mainVars, signalVars
  <1>2. CASE S_AcceptConnect \/ S_SubscribeFails
    <2>1. /\ spc = "select" /\ UNCHANGED <<mapVars, signalVars>> /\ made < MaxTunnels
          /\ tun' = [tun EXCEPT ![made + 1].id = Head(controlCh[Server]).id]
          /\ spc' \in {"select", "ackwait"}
      BY <1>2 DEF S_AcceptConnect, S_SubscribeFails, S_Take, NewTunnel, Work, mainVars
    <2>2. made + 1 \in Tunnels /\ tun[made + 1] = Unmade
      <3>1. MaxTunnels \in Nat /\ made \in 0..MaxTunnels /\ made < MaxTunnels
        BY <2>1, RegistryTypes
      <3>2. made + 1 \in Tunnels /\ made + 1 > made
        BY <3>1 DEF Tunnels
      <3> QED
        BY <3>2, RegistryTypes
    <2>3. \A t \in Tunnels : t # made + 1 => tun'[t] = tun[t]
      BY <2>1, RegistryTypes
    <2>4. tun'[made + 1].loop = "off"
      BY <2>1, <2>2, RegistryTypes DEF Unmade
    <2>5. \A t \in Tunnels : Ended(t)' /\ Tracked(t)' => Ended(t) /\ Tracked(t) /\ tun'[t].id = tun[t].id
      BY <2>1, <2>3, <2>4 DEF Ended, Tracked, mapVars
    <2> QED
      BY <2>1, <2>5, NoNewEnd DEF Signals, signalVars
  <1>3. CASE S_AckSent \/ S_HandleConfirm \/ S_DialFails
    <2>1. UNCHANGED <<connected, signalVars, tun>> /\ (spc' # "register" \/ UNCHANGED mainVars)
      BY <1>3 DEF S_AckSent, S_HandleConfirm, S_DialFails, Return, Work, mapVars, tunnelVars
    <2> QED
      BY <2>1, NoNewEnd DEF Ended, Tracked, Signals, signalVars, mainVars
  <1>4. CASE S_DialOk
    <2>1. /\ UNCHANGED <<connected, signalVars>> /\ cur' = cur
          /\ \A t \in Tunnels : t # cur => tun'[t] = tun[t]
          /\ cur \in Tunnels => tun'[cur].loop = "run"
      BY <1>4, RegistryTypes DEF S_DialOk, Work, mapVars, ServerTunnel
    <2>2. \A t \in Tunnels : Ended(t)' /\ Tracked(t)' => Ended(t) /\ Tracked(t) /\ tun'[t].id = tun[t].id
      BY <2>1 DEF Ended, Tracked
    <2> QED
      BY <2>1, <2>2, NoNewEnd DEF Signals, signalVars
  <1>5. CASE S_Register
    <2>1. /\ spc = "register" /\ spc' = "select" /\ UNCHANGED <<signalVars, tun>>
          /\ connected' = [connected EXCEPT ![tun[cur].id] = cur]
      BY <1>5 DEF S_Register, Return, Work, tunnelVars
    <2>2. \A t \in Tunnels : Ended(t)' /\ Tracked(t)' => Ended(t) /\ Tracked(t) /\ tun'[t].id = tun[t].id
      BY <2>1, RegistryTypes DEF Ended, Tracked
    <2> QED
      BY <2>1, <2>2, NoNewEnd DEF Signals, signalVars
  <1>6. CASE S_HandleClosed
    <2> DEFINE id == Head(controlCh[Server]).id
    <2>1. id \in IDs
      BY <1>6, TakeType DEF S_HandleClosed
    <2>2. CASE Connected(id)
      <3>1. /\ UNCHANGED <<mainVars, signalVars>>
            /\ connected' = [connected EXCEPT ![id] = NoTunnel] /\ Teardown(connected[id])
        BY <1>6, <2>2 DEF S_HandleClosed
      <3> HIDE DEF id
      <3>2. \A t \in Tunnels : tun'[t].loop = tun[t].loop /\ tun'[t].id = tun[t].id
        BY <3>1, RegistryTypes DEF Teardown, ServerTunnel
      <3>3. \A t \in Tunnels : t # NoTunnel
        BY DEF Tunnels, NoTunnel
      <3>4. \A t \in Tunnels : Ended(t)' /\ Tracked(t)' => Ended(t) /\ Tracked(t) /\ tun'[t].id = tun[t].id
        BY <2>1, <3>1, <3>2, <3>3, RegistryTypes DEF Ended, Tracked, mainVars
      <3> QED
        BY <3>1, <3>4, NoNewEnd DEF Signals, signalVars
    <2>3. CASE ~Connected(id)
      BY <1>1, <1>6, <2>3 DEF S_HandleClosed
    <2> QED
      BY <2>2, <2>3
  <1>7. CASE S_Reconnect
    <2>1. UNCHANGED <<mainVars, signalVars, tun>> /\ \A id \in IDs : connected'[id] = NoTunnel
      BY <1>7 DEF S_Reconnect, tunnelVars
    <2>2. ASSUME NEW t \in Tunnels, Ended(t)', Tracked(t)' PROVE Ended(t) /\ Tracked(t)
      <3>1. tun[t].id \in IDs /\ t # NoTunnel
        BY <2>1, <2>2, RegistryTypes DEF Ended, Unmade, Tunnels, NoTunnel
      <3> QED
        BY <2>1, <2>2, <3>1 DEF Ended, Tracked, mainVars
    <2> QED
      BY <2>1, <2>2, NoNewEnd DEF Signals, signalVars
  <1>8. ASSUME NEW t \in Tunnels, TargetCloses(t) \/ T_ReadEnds(t) \/ T_Unsubscribe(t)
        PROVE  ClosedSignalPending'
    <2>1. UNCHANGED <<mainVars, mapVars, signalVars>> /\ tun[t] \in ServerTunnel
      BY <1>8, RegistryTypes DEF TargetCloses, T_ReadEnds, T_Unsubscribe
    <2>2. \A u \in Tunnels : u # t => tun'[u] = tun[u]
      BY <1>8, RegistryTypes DEF TargetCloses, T_ReadEnds, T_Unsubscribe
    <2>3. tun'[t].id = tun[t].id /\ (Ended(t)' => Ended(t))
      <3>1. CASE TargetCloses(t)
        BY <2>1, <3>1, RegistryTypes DEF TargetCloses, ServerTunnel, Ended
      <3>2. CASE T_ReadEnds(t)
        BY <2>1, <3>2, RegistryTypes DEF T_ReadEnds, ServerTunnel, Ended
      <3>3. CASE T_Unsubscribe(t)
        BY <2>1, <3>3, RegistryTypes DEF T_Unsubscribe, ServerTunnel, Ended
      <3> QED
        BY <1>8, <3>1, <3>2, <3>3
    <2>4. \A u \in Tunnels : Ended(u)' /\ Tracked(u)' => Ended(u) /\ Tracked(u) /\ tun'[u].id = tun[u].id
      BY <2>1, <2>2, <2>3 DEF Ended, Tracked, mainVars, mapVars
    <2> QED
      BY <2>1, <2>4, NoNewEnd DEF Signals, signalVars
  <1>9. ASSUME NEW c \in Clients,
               C_Open(c) \/ C_ConnectionLost(c) \/ C_StdinEof(c) \/ C_Receive(c) \/ ClientMain(c)
                 \/ C_Timeout(c) \/ C_LoopEnds(c)
        PROVE  UNCHANGED serverVars
    BY <1>9 DEF C_Open, C_ConnectionLost, C_StdinEof, C_Receive, ClientMain, C_Timeout, C_LoopEnds,
       C_Register, C_HandleAck, C_SubscribeFails, C_IgnoreAck, C_Confirmed, C_FatalFailure,
       C_OtherFailure, C_HandleClosed, C_Done, Exit
  <1>10. ASSUME S_Receive \/ S_DropPacket \/ S_RejectConnect \/ SignalLost \/ LinkUp \/ Resume \/ LinkLost
         PROVE  UNCHANGED serverVars
    BY <1>10 DEF S_Receive, S_DropPacket, S_RejectConnect, SignalLost, LinkUp, Resume, LinkLost
  <1>11. ASSUME NEW n \in Nodes, Redeliver(n) PROVE UNCHANGED serverVars
    BY <1>11 DEF Redeliver
  <1>12. ASSUME NEW id \in HandIDs, HandRequest(id) PROVE UNCHANGED serverVars
    BY <1>12 DEF HandRequest
  <1>13. ASSUME NEW t \in Tunnels, S_ConfirmTimeout(t) PROVE UNCHANGED <<mainVars, connected, signalVars, tun>>
    BY <1>13 DEF S_ConfirmTimeout, tunnelVars
  <1>14. UNCHANGED serverVars => UNCHANGED <<mainVars, connected, signalVars, tun>>
    BY DEF serverVars, mapVars, tunnelVars
  <1> QED
    BY <1>1, <1>2, <1>3, <1>4, <1>5, <1>6, <1>7, <1>8, <1>9, <1>10, <1>11, <1>12, <1>13, <1>14,
       LoopEndsStep, TakeSignalStep
    DEF Next, Environment, ServerMain, Callback, vars

(***************************************************************************)
(* An ended data loop whose tunnel is still in the connected map, or on    *)
(* its way there, has told the main loop - or could not, because           *)
(* tunnelClosedCh was full.                                                *)
(***************************************************************************)
THEOREM ClosedSignalCorrect == Spec => []ClosedSignalPending
  <1>1. Init => ClosedSignalPending
    BY DEF Init, ClosedSignalPending, Unmade
  <1> QED
    BY <1>1, ClosedSignalNext, TypeCorrect, PTL DEF Spec

-----------------------------------------------------------------------------
(***************************************************************************)
(* TopicsAgree is about what a client took from a connect_ack, so the      *)
(* invariant follows the ack back to where it was made: every packet on    *)
(* its way to a client carries its ID, and an ack the topics of a tunnel   *)
(* made for that ID, crossed.  A client subscribes only when it leaves     *)
(* "waiting" and never comes back to it.                                   *)
(***************************************************************************)
Genuine(m) ==
    m.type = "connect_ack" =>
        \E t \in 1..made : /\ tun[t].id = m.id
                           /\ m.serverPub = ClientPubTopic(t)
                           /\ m.clientPub = ServerPubTopic(t)
GenuineTo(c) == {m \in controlPacket : m.id = c /\ Genuine(m)}

PacketsGenuine ==
    /\ \A c \in Clients : /\ inbox[c] \in Seq(GenuineTo(c))
                          /\ controlCh[c] \in Seq(GenuineTo(c))
                          /\ delivered[c] \subseteq GenuineTo(c)
    /\ stored \in Seq({m \in controlPacket : m.type # "connect_ack"})

NotSubscribed ==
    \A c \in Clients : client[c].state \in {"init", "opening", "waiting"} => client[c].sub = NoTopic

TopicsInv == PacketsGenuine /\ NotSubscribed /\ TopicsAgree

-----------------------------------------------------------------------------
(* Tunnels keep their IDs. *)

IDsKept == made' \in Nat /\ made <= made' /\ \A t \in 1..made : tun'[t].id = tun[t].id

LEMMA IDsNext == TypeOK /\ [Next]_vars => IDsKept
  <1> SUFFICES ASSUME TypeOK, [Next]_vars PROVE IDsKept
    OBVIOUS
  <1>a. /\ MaxTunnels \in Nat /\ made \in 0..MaxTunnels /\ made \in Nat
        /\ tun \in [Tunnels -> ServerTunnel] /\ \A t \in 1..made : t \in Tunnels
    <2>1. MaxTunnels \in Nat /\ made \in 0..MaxTunnels /\ tun \in [Tunnels -> ServerTunnel]
      BY BoundAssumption DEF TypeOK, ServerTyped
    <2> QED
      BY <2>1 DEF Tunnels
  <1>1. CASE UNCHANGED tunnelVars
    BY <1>a, <1>1 DEF IDsKept, tunnelVars
  <1>2. CASE S_AcceptConnect \/ S_SubscribeFails
    <2>1. made' = made + 1 /\ tun' = [tun EXCEPT ![made + 1].id = Head(controlCh[Server]).id]
      BY <1>2 DEF S_AcceptConnect, S_SubscribeFails, NewTunnel
    <2>2. \A t \in 1..made : t # made + 1
      BY <1>a
    <2>3. \A t \in 1..made : tun'[t] = tun[t]
      BY <1>a, <2>1, <2>2
    <2>4. made' \in Nat /\ made <= made'
      <3>1. made \in Nat /\ made' = made + 1
        BY <1>a, <2>1
      <3> QED
        BY <3>1
    <2> QED
      BY <2>3, <2>4 DEF IDsKept
  <1>3. ASSUME UNCHANGED made, \A t \in Tunnels : tun'[t].id = tun[t].id PROVE IDsKept
    BY <1>a, <1>3 DEF IDsKept
  <1>4. CASE S_DialOk
    BY <1>a, <1>3, <1>4 DEF S_DialOk, ServerTunnel
  <1>5. CASE S_HandleClosed
    <2>1. CASE UNCHANGED tun
      BY <1>1, <1>5, <2>1 DEF S_HandleClosed, tunnelVars
    <2>2. CASE \E t : Teardown(t)
      <3>1. PICK t : Teardown(t)
        BY <2>2
      <3>2. \A u \in Tunnels : tun'[u].id = tun[u].id
        <4>1. \A u \in Tunnels : u # t => tun'[u] = tun[u]
          BY <1>a, <3>1 DEF Teardown
        <4>2. ASSUME t \in Tunnels PROVE tun'[t].id = tun[t].id
          <5>1. tun'[t] = [tun[t] EXCEPT !.closedByRemote = TRUE, !.conn = "closed"] /\ tun[t] \in ServerTunnel
            BY <1>a, <3>1, <4>2 DEF Teardown
          <5> QED
            BY <5>1 DEF ServerTunnel
        <4> QED
          BY <4>1, <4>2
      <3> QED
        BY <1>3, <1>5, <3>2 DEF S_HandleClosed
    <2> QED
      BY <1>5, <2>1, <2>2 DEF S_HandleClosed
  <1>6. ASSUME NEW t \in Tunnels, TargetCloses(t) \/ T_ReadEnds(t) \/ T_LoopEnds(t) \/ T_Unsubscribe(t)
        PROVE  IDsKept
    <2>1. CASE TargetCloses(t)
      BY <1>a, <1>3, <2>1 DEF TargetCloses, ServerTunnel
    <2>2. CASE T_ReadEnds(t)
      BY <1>a, <1>3, <2>2 DEF T_ReadEnds, ServerTunnel
    <2>3. CASE T_LoopEnds(t)
      BY <1>a, <1>3, <2>3 DEF T_LoopEnds, ServerTunnel
    <2>4. CASE T_Unsubscribe(t)
      BY <1>a, <1>3, <2>4 DEF T_Unsubscribe, ServerTunnel
    <2> QED
      BY <1>6, <2>1, <2>2, <2>3, <2>4
  <1>7. ASSUME NEW c \in Clients,
               C_Open(c) \/ C_ConnectionLost(c) \/ C_StdinEof(c) \/ C_Receive(c) \/ ClientMain(c)
                 \/ C_Timeout(c) \/ C_LoopEnds(c)
        PROVE  UNCHANGED tunnelVars
    BY <1>7 DEF C_Open, C_ConnectionLost, C_StdinEof, C_Receive, ClientMain, C_Timeout, C_LoopEnds,
       C_Register, C_HandleAck, C_SubscribeFails, C_IgnoreAck, C_Confirmed, C_FatalFailure,
       C_OtherFailure, C_HandleClosed, C_Done, Exit, serverVars
  <1>8. ASSUME S_Receive \/ S_DropPacket \/ S_RejectConnect \/ S_AckSent \/ S_HandleConfirm \/ S_DialFails
                 \/ S_Register \/ S_TunnelClosed \/ Callback \/ LinkUp \/ Resume \/ LinkLost
        PROVE  UNCHANGED tunnelVars
    BY <1>8 DEF S_Receive, S_DropPacket, S_RejectConnect, S_AckSent, S_HandleConfirm, S_DialFails, S_Register,
       S_TunnelClosed, Callback, S_Reconnect, SignalLost, LinkUp, Resume, LinkLost, serverVars
  <1>9. ASSUME NEW n \in Nodes, Redeliver(n) PROVE UNCHANGED tunnelVars
    BY <1>9 DEF Redeliver, serverVars
  <1>10. ASSUME NEW id \in HandIDs, HandRequest(id) PROVE UNCHANGED tunnelVars
    BY <1>10 DEF HandRequest, serverVars
  <1>11. ASSUME NEW t \in Tunnels, S_ConfirmTimeout(t) PROVE UNCHANGED tunnelVars
    BY <1>11 DEF S_ConfirmTimeout
  <1> QED
    BY <1>1, <1>2, <1>4, <1>5, <1>6, <1>7, <1>8, <1>9, <1>10, <1>11
    DEF Next, Environment, ServerMain, vars, serverVars

\* A genuine ack stays genuine.
LEMMA GenuineKept ==
    ASSUME IDsKept, made \in Nat, NEW c \in Clients
    PROVE  GenuineTo(c) \subseteq GenuineTo(c)'
  BY DEF IDsKept, GenuineTo, Genuine

-----------------------------------------------------------------------------
(* What a step may do to the packets on their way to a client. *)

InboxStep(c) ==
    \/ inbox'[c] = inbox[c]
    \/ inbox'[c] = <<>>
    \/ inbox[c] # <<>> /\ inbox'[c] = Tail(inbox[c])
    \/ \E m \in GenuineTo(c)' : inbox'[c] = Append(inbox[c], m)
ControlChStep(c) ==
    \/ controlCh'[c] = controlCh[c]
    \/ controlCh'[c] = <<>>
    \/ controlCh[c] # <<>> /\ controlCh'[c] = Tail(controlCh[c])
    \/ inbox[c] # <<>> /\ controlCh'[c] = Append(controlCh[c], Head(inbox[c]))
DeliveredStep(c) ==
    \/ delivered'[c] \subseteq delivered[c]
    \/ inbox[c] # <<>> /\ delivered'[c] = delivered[c] \cup {Head(inbox[c])}
BoxStep(c) == InboxStep(c) /\ ControlChStep(c) /\ DeliveredStep(c)

LEMMA SeqWider == ASSUME NEW S, NEW T, S \subseteq T PROVE Seq(S) \subseteq Seq(T)
  OBVIOUS

LEMMA BoxStepGenuine ==
    ASSUME IDsKept, made \in Nat, PacketsGenuine, NEW c \in Clients, BoxStep(c)
    PROVE  /\ inbox'[c] \in Seq(GenuineTo(c)')
           /\ controlCh'[c] \in Seq(GenuineTo(c)')
           /\ delivered'[c] \subseteq GenuineTo(c)'
  <1> DEFINE G == GenuineTo(c)'
  <1>1. /\ inbox[c] \in Seq(GenuineTo(c)) /\ controlCh[c] \in Seq(GenuineTo(c))
        /\ delivered[c] \subseteq GenuineTo(c)
    BY DEF PacketsGenuine
  <1>2. GenuineTo(c) \subseteq G
    BY GenuineKept
  <1> HIDE DEF G
  <1>3. inbox[c] \in Seq(G) /\ controlCh[c] \in Seq(G) /\ delivered[c] \subseteq G /\ <<>> \in Seq(G)
    <2>1. Seq(GenuineTo(c)) \subseteq Seq(G)
      BY <1>2, SeqWider
    <2> QED
      BY <1>1, <1>2, <2>1
  <1>4. inbox[c] # <<>> => Head(inbox[c]) \in G /\ Tail(inbox[c]) \in Seq(G)
    BY <1>3, SeqStep
  <1>5. inbox'[c] \in Seq(G)
    <2>1. \A m \in G : Append(inbox[c], m) \in Seq(G)
      BY <1>3, SeqStep
    <2> QED
      BY <1>3, <1>4, <2>1 DEF BoxStep, InboxStep, G
  <1>6. controlCh'[c] \in Seq(G)
    <2>1. controlCh[c] # <<>> => Tail(controlCh[c]) \in Seq(G)
      BY <1>3, SeqStep
    <2>2. inbox[c] # <<>> => Append(controlCh[c], Head(inbox[c])) \in Seq(G)
      BY <1>3, <1>4, SeqStep
    <2> QED
      BY <1>3, <2>1, <2>2 DEF BoxStep, ControlChStep
  <1>7. delivered'[c] \subseteq G
    BY <1>3, <1>4 DEF BoxStep, DeliveredStep
  <1> QED
    BY <1>5, <1>6, <1>7 DEF G

\* Publishing a genuine packet.
LEMMA PublishStep ==
    ASSUME PacketsTyped, NEW c \in Clients, NEW m \in controlPacket, Genuine(m)', Publish(m) \/ PublishQoS0(m)
    PROVE  InboxStep(c)
  <1>1. CASE Publish(m)
    <2>1. c \in Nodes /\ (c \in Receivers(m) => c = m.id)
      BY ServerAssumption DEF Nodes, Receivers
    <2>2. inbox'[c] = inbox[c] \/ (c = m.id /\ inbox'[c] = Append(inbox[c], m))
      BY <1>1, <2>1 DEF Publish
    <2> QED
      BY <2>2 DEF InboxStep, GenuineTo
  <1>2. CASE UNCHANGED inbox
    BY <1>2 DEF InboxStep
  <1> QED
    BY <1>1, <1>2 DEF PublishQoS0

\* Only createAck makes an ack.
LEMMA OtherPackets ==
    ASSUME NEW id
    PROVE  /\ createConnectRequest(id).type # "connect_ack"
           /\ createConnectConfirm(id).type # "connect_ack"
           /\ \A o : createConnectionClosed(id, o).type # "connect_ack"
           /\ \A reason : createFailure(id, reason).type # "connect_ack"
  BY DEF createConnectRequest, createConnectConfirm, createConnectionClosed, createFailure, Bare

-----------------------------------------------------------------------------
LEMMA ServerBoxes ==
    ASSUME TypeOK, ServerMain \/ Callback, IDsKept, PacketsGenuine, NEW c \in Clients
    PROVE  BoxStep(c)
  <1>a. PacketsTyped /\ c # Server /\ c \in Nodes /\ Server \in Nodes
    BY ServerAssumption DEF TypeOK, Nodes
  <1>1. DeliveredStep(c)
    BY DEF ServerMain, Callback, S_RejectConnect, S_AcceptConnect, S_SubscribeFails, S_AckSent,
       S_HandleConfirm, S_DialOk, S_DialFails, S_Register, S_HandleClosed, S_TunnelClosed, S_Reconnect,
       SignalLost, DeliveredStep, envVars
  <1>2. ControlChStep(c)
    <2>1. Consume(Server) \/ UNCHANGED controlCh
      BY DEF ServerMain, Callback, S_RejectConnect, S_AcceptConnect, S_SubscribeFails, S_AckSent, S_Take,
         S_HandleConfirm, S_DialOk, S_DialFails, S_Register, S_HandleClosed, S_TunnelClosed, S_Reconnect,
         SignalLost, netVars
    <2>2. controlCh'[c] = controlCh[c]
      BY <1>a, <2>1 DEF Consume, PacketsTyped
    <2> QED
      BY <2>2 DEF ControlChStep
  <1>3. CASE S_RejectConnect
    <2> DEFINE id == Head(controlCh[Server]).id
               reason == Refusal(Head(controlCh[Server]))
    <2>1. id \in IDs /\ reason \in Reasons
      BY <1>3, TakeType DEF S_RejectConnect, Refusal, Reasons
    <2>2. ServerPublish(createFailure(id, reason))
      BY <1>3 DEF S_RejectConnect
    <2> HIDE DEF id, reason
    <2>3. createFailure(id, reason) \in controlPacket /\ createFailure(id, reason).type # "connect_ack"
      BY <2>1, PacketType, OtherPackets
    <2>4. PICK m \in controlPacket : m.type # "connect_ack" /\ ServerPublish(m)
      BY <2>2, <2>3
    <2>5. Publish(m) \/ UNCHANGED inbox
      BY <2>4 DEF ServerPublish
    <2>6. Genuine(m)'
      BY <2>4 DEF Genuine
    <2>7. InboxStep(c)
      BY <1>a, <2>5, <2>6, PublishStep DEF PublishQoS0, InboxStep
    <2> QED
      BY <1>1, <1>2, <2>7 DEF BoxStep
  <1>4. CASE S_AcceptConnect
    <2> DEFINE id == Head(controlCh[Server]).id
    <2>1. /\ id \in IDs /\ made < MaxTunnels /\ made' = made + 1 /\ tun' = [tun EXCEPT ![made + 1].id = id]
          /\ Publish(createAck(id, made + 1))
      BY <1>4, TakeType DEF S_AcceptConnect, NewTunnel
    <2> HIDE DEF id
    <2>2. made + 1 \in Tunnels /\ made + 1 \in 1..made'
      <3>1. MaxTunnels \in Nat /\ made \in 0..MaxTunnels
        BY BoundAssumption DEF TypeOK, ServerTyped
      <3> QED
        BY <2>1, <3>1 DEF Tunnels
    <2>3. tun'[made + 1].id = id
      <3>1. tun \in [Tunnels -> ServerTunnel]
        BY DEF TypeOK, ServerTyped
      <3> QED
        BY <2>1, <2>2, <3>1 DEF ServerTunnel
    <2>4. PICK m \in controlPacket, t \in 1..made' : Publish(m) /\ m = createAck(tun'[t].id, t)
      BY <2>1, <2>2, <2>3, PacketType
    <2>5. m.id = tun'[t].id /\ m.serverPub = ClientPubTopic(t) /\ m.clientPub = ServerPubTopic(t)
      BY <2>4 DEF createAck, Bare
    <2>6. Genuine(m)'
      BY <2>5 DEF Genuine
    <2>7. InboxStep(c)
      BY <1>a, <2>4, <2>6, PublishStep
    <2> QED
      BY <1>1, <1>2, <2>7 DEF BoxStep
  <1>5. ASSUME UNCHANGED inbox PROVE BoxStep(c)
    BY <1>1, <1>2, <1>5 DEF BoxStep, InboxStep
  <1> QED
    BY <1>3, <1>4, <1>5 DEF ServerMain, Callback, S_SubscribeFails, S_AckSent, S_HandleConfirm, S_DialOk,
       S_DialFails, S_Register, S_HandleClosed, S_TunnelClosed, S_Reconnect, SignalLost, netVars

\* What client d does to the boxes of client c.
LEMMA ClientBoxes ==
    ASSUME TypeOK, NEW d \in Clients, NEW c \in Clients, IDsKept, PacketsGenuine,
           C_Open(d) \/ C_ConnectionLost(d) \/ C_StdinEof(d) \/ C_Receive(d) \/ ClientMain(d)
             \/ C_Timeout(d) \/ C_LoopEnds(d)
    PROVE  BoxStep(c)
  <1>a. PacketsTyped /\ c \in Nodes /\ d \in Nodes /\ d \in IDs
    BY DEF TypeOK, Nodes, IDs
  <1>b. inbox \in [Nodes -> Seq(controlPacket)] /\ controlCh \in [Nodes -> Seq(controlPacket)]
        /\ delivered \in [Nodes -> SUBSET controlPacket]
    BY <1>a DEF PacketsTyped
  <1>1. ASSUME NEW m \in controlPacket, m.type # "connect_ack", Publish(m) \/ PublishQoS0(m) PROVE InboxStep(c)
    <2>1. Genuine(m)'
      BY <1>1 DEF Genuine
    <2> QED
      BY <1>a, <1>1, <2>1, PublishStep
  <1>2. CASE C_Open(d)
    <2>1. PICK m \in controlPacket : m.type # "connect_ack" /\ Publish(m)
      BY <1>2, <1>a, PacketType, OtherPackets DEF C_Open
    <2>2. InboxStep(c)
      BY <1>1, <2>1
    <2> QED
      BY <1>2, <2>2 DEF C_Open, BoxStep, ControlChStep, DeliveredStep, envVars
  <1>3. CASE C_HandleAck(d)
    <2>1. PICK m \in controlPacket : m.type # "connect_ack" /\ Publish(m)
      BY <1>3, <1>a, PacketType, OtherPackets DEF C_HandleAck
    <2>2. InboxStep(c)
      BY <1>1, <2>1
    <2>3. ControlChStep(c)
      BY <1>3, <1>a, <1>b DEF C_HandleAck, C_Take, Consume, ControlChStep
    <2> QED
      BY <1>3, <2>2, <2>3 DEF C_HandleAck, BoxStep, DeliveredStep, envVars
  <1>4. CASE C_LoopEnds(d)
    <2>1. InboxStep(c)
      <3>1. CASE UNCHANGED inbox
        BY <3>1 DEF InboxStep
      <3>2. CASE PublishQoS0(createConnectionClosed(d, "client"))
        <4>1. PICK m \in controlPacket : m.type # "connect_ack" /\ PublishQoS0(m)
          BY <3>2, <1>a, PacketType, OtherPackets
        <4> QED
          BY <1>1, <4>1
      <3> QED
        BY <1>4, <3>1, <3>2 DEF C_LoopEnds
    <2> QED
      BY <1>4, <2>1 DEF C_LoopEnds, BoxStep, ControlChStep, DeliveredStep, envVars
  <1>5. CASE C_Receive(d)
    <2>1. CASE c = d
      BY <1>5, <2>1, <1>a, <1>b DEF C_Receive, HandOver, BoxStep, InboxStep, ControlChStep, DeliveredStep
    <2>2. CASE c # d
      BY <1>5, <2>2, <1>a, <1>b DEF C_Receive, HandOver, BoxStep, InboxStep, ControlChStep, DeliveredStep
    <2> QED
      BY <2>1, <2>2
  <1>6. ASSUME Exit(d) PROVE BoxStep(c)
    BY <1>6, <1>a, <1>b DEF Exit, BoxStep, InboxStep, ControlChStep, DeliveredStep
  <1>7. CASE C_SubscribeFails(d) \/ C_IgnoreAck(d) \/ C_OtherFailure(d) \/ C_HandleClosed(d)
    <2>1. controlCh[d] # <<>> /\ Consume(d) /\ UNCHANGED <<inbox, delivered>>
      BY <1>7 DEF C_SubscribeFails, C_IgnoreAck, C_OtherFailure, C_HandleClosed, C_Take, envVars
    <2> QED
      BY <2>1, <1>a, <1>b DEF Consume, BoxStep, InboxStep, ControlChStep, DeliveredStep
  <1>8. CASE C_Register(d) \/ C_Confirmed(d) \/ C_StdinEof(d)
    BY <1>8 DEF C_Register, C_Confirmed, C_StdinEof, BoxStep, InboxStep, ControlChStep, DeliveredStep,
       netVars, envVars
  <1> QED
    BY <1>2, <1>3, <1>4, <1>5, <1>6, <1>7, <1>8 DEF ClientMain, C_FatalFailure, C_Done, C_Timeout, C_ConnectionLost

-----------------------------------------------------------------------------
(* What a step may do to the client's own record. *)

ClientKept(c) ==
    /\ client'[c].sub = client[c].sub /\ client'[c].pub = client[c].pub
    /\ \/ client'[c].state = client[c].state
       \/ client'[c].state \notin {"init", "opening", "waiting"}
       \/ client[c].state \in {"init", "opening", "waiting"}
ClientTakes(c, m) ==
    /\ m.type = "connect_ack"
    /\ client'[c].sub = m.serverPub /\ client'[c].pub = m.clientPub
    /\ client'[c].state = "confirming"
ClientUnsubscribed(c) ==
    /\ client[c].state = "waiting" /\ client'[c].state = "waiting"
    /\ client'[c].sub = client[c].sub

LEMMA ClientSteps ==
    ASSUME TypeOK, PacketsGenuine, NEW c \in Clients, NEW d \in Clients,
           C_Open(d) \/ C_ConnectionLost(d) \/ C_StdinEof(d) \/ C_Receive(d) \/ ClientMain(d)
             \/ C_Timeout(d) \/ C_LoopEnds(d)
    PROVE  ClientKept(c) \/ ClientUnsubscribed(c) \/ \E m \in GenuineTo(c) : ClientTakes(c, m)
  <1>a. client \in [Clients -> ClientProcess] /\ client[d] \in ClientProcess
    BY DEF TypeOK
  <1>1. CASE C_HandleAck(d) /\ c = d
    <2> DEFINE m == Head(controlCh[d])
    <2>1. controlCh[d] # <<>> /\ m.type = "connect_ack" /\ client' = TakeTopics(d, m)
      BY <1>1 DEF C_HandleAck, C_Take
    <2>2. m \in GenuineTo(c)
      BY <1>1, <2>1, SeqStep DEF PacketsGenuine
    <2> HIDE DEF m
    <2>3. client'[d] = [client[d] EXCEPT !.pub = m.clientPub, !.sub = m.serverPub, !.state = "confirming"]
      BY <1>a, <2>1 DEF TakeTopics
    <2>4. client'[d].sub = m.serverPub /\ client'[d].pub = m.clientPub /\ client'[d].state = "confirming"
      BY <1>a, <2>3 DEF ClientProcess
    <2> QED
      BY <1>1, <2>1, <2>2, <2>4 DEF ClientTakes
  <1>2. CASE C_SubscribeFails(d) /\ c = d
    <2>1. client'[d] = [client[d] EXCEPT !.pub = Head(controlCh[d]).clientPub] /\ client[d].state = "waiting"
      BY <1>a, <1>2 DEF C_SubscribeFails, C_Take, ClientSelect, AckWaiting
    <2>2. client'[d].sub = client[d].sub /\ client'[d].state = client[d].state
      BY <1>a, <2>1 DEF ClientProcess
    <2> QED
      BY <1>2, <2>1, <2>2 DEF ClientUnsubscribed
  <1>3. CASE c # d
    <2>1. client'[c] = client[c]
      <3>1. CASE C_HandleAck(d)
        BY <1>a, <1>3, <3>1 DEF C_HandleAck, TakeTopics
      <3>2. CASE C_OtherFailure(d) \/ C_HandleClosed(d)
        BY <1>a, <1>3, <3>2 DEF C_OtherFailure, C_HandleClosed
      <3>3. CASE C_SubscribeFails(d) \/ C_Open(d) \/ C_Register(d) \/ C_Confirmed(d)
        BY <1>a, <1>3, <3>3 DEF C_SubscribeFails, C_Open, C_Register, C_Confirmed
      <3>4. CASE C_StdinEof(d) \/ C_LoopEnds(d) \/ C_Receive(d) \/ C_IgnoreAck(d)
        BY <1>a, <1>3, <3>4 DEF C_StdinEof, C_LoopEnds, C_Receive, C_IgnoreAck
      <3>5. CASE Exit(d)
        BY <1>a, <1>3, <3>5 DEF Exit
      <3> QED
        BY <3>1, <3>2, <3>3, <3>4, <3>5
        DEF ClientMain, C_FatalFailure, C_Done, C_Timeout, C_ConnectionLost
    <2> QED
      BY <2>1 DEF ClientKept
  <1>4. CASE c = d /\ (C_Open(d) \/ C_Register(d) \/ C_StdinEof(d))
    BY <1>a, <1>4 DEF C_Open, C_Register, C_StdinEof, ClientProcess, ClientKept
  <1>5. CASE c = d /\ C_Confirmed(d)
    <2>1. client'[d] = [client[d] EXCEPT !.state = "connected", !.loop = "run"]
      BY <1>a, <1>5 DEF C_Confirmed
    <2> QED
      BY <1>a, <1>5, <2>1 DEF ClientProcess, ClientKept
  <1>6. CASE c = d /\ C_LoopEnds(d)
    <2>1. client'[d] = [client[d] EXCEPT !.done = TRUE, !.loop = "done"]
      BY <1>a, <1>6 DEF C_LoopEnds
    <2> QED
      BY <1>a, <1>6, <2>1 DEF ClientProcess, ClientKept
  <1>7. CASE c = d /\ C_OtherFailure(d)
    <2>1. client'[d] = [client[d] EXCEPT !.state = IF AckWaiting(d) THEN "failed" ELSE @]
      BY <1>a, <1>7 DEF C_OtherFailure
    <2> QED
      BY <1>a, <1>7, <2>1 DEF ClientProcess, ClientKept
  <1>8. CASE c = d /\ C_HandleClosed(d)
    <2> DEFINE known == client[d].state = "connected"
    <2>1. client'[d] = [client[d] EXCEPT !.state = IF known THEN "closed" ELSE @,
                                         !.closedByRemote = IF known THEN TRUE ELSE @, !.done = TRUE]
      BY <1>a, <1>8 DEF C_HandleClosed
    <2>2. client'[d].sub = client[d].sub /\ client'[d].pub = client[d].pub
      BY <1>a, <2>1 DEF ClientProcess
    <2>3. client'[d].state = IF known THEN "closed" ELSE client[d].state
      BY <1>a, <2>1 DEF ClientProcess
    <2> QED
      BY <1>8, <2>2, <2>3 DEF ClientKept
  <1>9. CASE c = d /\ (C_Receive(d) \/ C_IgnoreAck(d))
    BY <1>9 DEF C_Receive, C_IgnoreAck, ClientKept
  <1>10. CASE c = d /\ Exit(d)
    BY <1>a, <1>10 DEF Exit, ClientProcess, ClientKept
  <1> QED
    BY <1>1, <1>2, <1>3, <1>4, <1>5, <1>6, <1>7, <1>8, <1>9, <1>10
    DEF ClientMain, C_FatalFailure, C_Done, C_Timeout, C_ConnectionLost

-----------------------------------------------------------------------------
OtherSteps ==
    \/ \E n \in Nodes : Redeliver(n)
    \/ \E id \in HandIDs : HandRequest(id)
    \/ S_Receive \/ S_DropPacket \/ LinkLost \/ LinkUp \/ Resume
    \/ \E t \in Tunnels : \/ TargetCloses(t) \/ S_ConfirmTimeout(t)
                          \/ T_ReadEnds(t) \/ T_LoopEnds(t) \/ T_Unsubscribe(t)

\* The broker, the link and the goroutines of the server's tunnels.
LEMMA OtherBoxes ==
    ASSUME TypeOK, OtherSteps, IDsKept, PacketsGenuine, NEW c \in Clients
    PROVE  BoxStep(c)
  <1>a. PacketsTyped /\ c \in Nodes /\ c # Server /\ Server \in Nodes
    BY ServerAssumption DEF TypeOK, Nodes
  <1>b. inbox \in [Nodes -> Seq(controlPacket)] /\ controlCh \in [Nodes -> Seq(controlPacket)]
        /\ delivered \in [Nodes -> SUBSET controlPacket]
    BY <1>a DEF PacketsTyped
  <1>1. ASSUME NEW m \in controlPacket, m.type # "connect_ack", Publish(m) \/ PublishQoS0(m) PROVE InboxStep(c)
    <2>1. Genuine(m)'
      BY <1>1 DEF Genuine
    <2> QED
      BY <1>a, <1>1, <2>1, PublishStep
  <1>2. ASSUME UNCHANGED <<controlCh, delivered>>, InboxStep(c) PROVE BoxStep(c)
    BY <1>2 DEF BoxStep, ControlChStep, DeliveredStep
  <1>3. ASSUME NEW n \in Nodes, Redeliver(n) PROVE BoxStep(c)
    <2>1. PICK m \in delivered[n] : inbox' = [inbox EXCEPT ![n] = Append(@, m)]
      BY <1>3 DEF Redeliver
    <2>2. CASE n = c
      <3>1. m \in GenuineTo(c)'
        <4>1. delivered[c] \subseteq GenuineTo(c) /\ made \in Nat
          BY BoundAssumption DEF PacketsGenuine, TypeOK, ServerTyped
        <4> QED
          BY <2>1, <2>2, <4>1, GenuineKept
      <3>2. inbox'[c] = Append(inbox[c], m)
        BY <1>b, <1>a, <2>1, <2>2
      <3> QED
        BY <1>2, <1>3, <3>1, <3>2 DEF Redeliver, InboxStep
    <2>3. CASE n # c
      <3>1. inbox'[c] = inbox[c]
        BY <1>b, <1>a, <2>1, <2>3
      <3> QED
        BY <1>2, <1>3, <3>1 DEF Redeliver, InboxStep
    <2> QED
      BY <2>2, <2>3
  <1>4. ASSUME NEW id \in HandIDs, HandRequest(id) PROVE BoxStep(c)
    <2>1. PICK m \in controlPacket : m.type # "connect_ack" /\ Publish(m)
      BY <1>4, PacketType, OtherPackets DEF HandRequest, IDs
    <2>2. InboxStep(c)
      BY <1>1, <2>1
    <2> QED
      BY <1>2, <1>4, <2>2 DEF HandRequest
  <1>5. CASE S_Receive \/ S_DropPacket
    <2>1. HandOver(Server)
      BY <1>5 DEF S_Receive, S_DropPacket
    <2>2. inbox'[c] = inbox[c] /\ delivered'[c] = delivered[c]
      BY <1>a, <1>b, <2>1 DEF HandOver
    <2>3. controlCh'[c] = controlCh[c]
      BY <1>a, <1>b, <1>5 DEF S_Receive, S_DropPacket
    <2> QED
      BY <2>2, <2>3 DEF BoxStep, InboxStep, ControlChStep, DeliveredStep
  <1>6. CASE LinkLost
    BY <1>6, <1>a, <1>b DEF LinkLost, BoxStep, InboxStep, ControlChStep, DeliveredStep
  <1>7. CASE Resume
    <2>1. stored \in Seq({m \in controlPacket : m.type # "connect_ack"}) /\ stored # <<>>
      BY <1>7 DEF PacketsGenuine, Resume
    <2>2. Head(stored) \in {m \in controlPacket : m.type # "connect_ack"}
      BY <2>1, SeqStep
    <2>3. PICK m \in controlPacket : m.type # "connect_ack" /\ Publish(m)
      BY <1>7, <2>2 DEF Resume
    <2>4. InboxStep(c)
      BY <1>1, <2>3
    <2> QED
      BY <1>2, <1>7, <2>4 DEF Resume, envVars
  <1>8. ASSUME NEW t \in Tunnels, T_LoopEnds(t) PROVE BoxStep(c)
    <2>1. CASE UNCHANGED inbox
      BY <1>2, <1>8, <2>1 DEF T_LoopEnds, InboxStep, envVars
    <2>2. CASE PublishQoS0(createConnectionClosed(tun[t].id, "server"))
      <3>1. tun[t].id \in IDs
        <4>1. made \in 0..MaxTunnels /\ (IF t <= made THEN tun[t].id \in IDs ELSE tun[t] = Unmade)
          BY DEF TypeOK, ServerTyped
        <4>2. tun[t].loop = "run"
          BY <1>8 DEF T_LoopEnds
        <4> QED
          BY <4>1, <4>2 DEF Unmade
      <3>2. PICK m \in controlPacket : m.type # "connect_ack" /\ PublishQoS0(m)
        BY <2>2, <3>1, PacketType, OtherPackets
      <3>3. InboxStep(c)
        BY <1>1, <3>2
      <3> QED
        BY <1>2, <1>8, <3>3 DEF T_LoopEnds, envVars
    <2> QED
      BY <1>8, <2>1, <2>2 DEF T_LoopEnds
  <1>9. ASSUME UNCHANGED <<netVars, envVars>> PROVE BoxStep(c)
    BY <1>9 DEF netVars, envVars, BoxStep, InboxStep, ControlChStep, DeliveredStep
  <1> QED
    BY <1>3, <1>4, <1>5, <1>6, <1>7, <1>8, <1>9
    DEF OtherSteps, LinkUp, TargetCloses, S_ConfirmTimeout, T_ReadEnds, T_Unsubscribe

\* Only the failure packet of a refused request is ever stored.
LEMMA StoredNext ==
    ASSUME TypeOK, PacketsGenuine, [Next]_vars
    PROVE  stored' \in Seq({m \in controlPacket : m.type # "connect_ack"})
  <1> DEFINE Storable == {m \in controlPacket : m.type # "connect_ack"}
  <1>1. stored \in Seq(Storable)
    BY DEF PacketsGenuine
  <1>2. CASE S_RejectConnect
    <2> DEFINE id == Head(controlCh[Server]).id
               reason == Refusal(Head(controlCh[Server]))
    <2>1. id \in IDs /\ reason \in Reasons
      BY <1>2, TakeType DEF S_RejectConnect, Refusal, Reasons
    <2>2. ServerPublish(createFailure(id, reason))
      BY <1>2 DEF S_RejectConnect
    <2> HIDE DEF id, reason
    <2>3. createFailure(id, reason) \in Storable
      BY <2>1, PacketType, OtherPackets
    <2>4. PICK m \in Storable : ServerPublish(m)
      BY <2>2, <2>3
    <2>5. Append(stored, m) \in Seq(Storable)
      BY <1>1, <2>4, SeqStep
    <2>6. stored' = stored \/ stored' = Append(stored, m)
      BY <2>4 DEF ServerPublish
    <2> QED
      BY <1>1, <2>5, <2>6
  <1>3. CASE Resume
    <2>1. stored # <<>> /\ stored' = Tail(stored)
      BY <1>3 DEF Resume
    <2>2. Tail(stored) \in Seq(Storable)
      BY <1>1, <2>1, SeqStep
    <2> QED
      BY <2>1, <2>2
  <1>4. ASSUME UNCHANGED stored PROVE stored' \in Seq(Storable)
    BY <1>1, <1>4
  <1>5. ASSUME NEW d \in Clients,
               C_Open(d) \/ C_ConnectionLost(d) \/ C_StdinEof(d) \/ C_Receive(d) \/ ClientMain(d)
                 \/ C_Timeout(d) \/ C_LoopEnds(d)
        PROVE  UNCHANGED stored
    BY <1>5 DEF C_Open, C_ConnectionLost, C_StdinEof, C_Receive, ClientMain, C_Timeout, C_LoopEnds,
       C_Register, C_HandleAck, C_SubscribeFails, C_IgnoreAck, C_Confirmed, C_FatalFailure,
       C_OtherFailure, C_HandleClosed, C_Done, Exit, linkVars
  <1>6. ASSUME S_AcceptConnect \/ S_SubscribeFails \/ S_AckSent \/ S_HandleConfirm \/ S_DialOk \/ S_DialFails
                 \/ S_Register \/ S_HandleClosed \/ S_TunnelClosed \/ Callback
        PROVE  UNCHANGED stored
    BY <1>6 DEF S_AcceptConnect, S_SubscribeFails, S_AckSent, S_HandleConfirm, S_DialOk, S_DialFails, S_Register,
       S_HandleClosed, S_TunnelClosed, Callback, S_Reconnect, SignalLost, linkVars
  <1>7. CASE OtherSteps
    BY <1>3, <1>4, <1>7 DEF OtherSteps, Redeliver, HandRequest, S_Receive, S_DropPacket, LinkLost, LinkUp,
       TargetCloses, S_ConfirmTimeout, T_ReadEnds, T_LoopEnds, T_Unsubscribe, linkVars
  <1>8. CASE UNCHANGED vars
    BY <1>4, <1>8 DEF vars, linkVars
  <1> QED
    BY <1>2, <1>4, <1>5, <1>6, <1>7, <1>8 DEF Next, Environment, ServerMain, OtherSteps

-----------------------------------------------------------------------------
LEMMA PacketsGenuineNext == TypeOK /\ PacketsGenuine /\ [Next]_vars => PacketsGenuine'
  <1> SUFFICES ASSUME TypeOK, PacketsGenuine, [Next]_vars PROVE PacketsGenuine'
    OBVIOUS
  <1>1. IDsKept /\ made \in Nat
    BY IDsNext, BoundAssumption DEF TypeOK, ServerTyped
  <1>2. ASSUME NEW c \in Clients PROVE BoxStep(c)
    <2>1. CASE \E d \in Clients : \/ C_Open(d) \/ C_ConnectionLost(d) \/ C_StdinEof(d) \/ C_Receive(d)
                                  \/ ClientMain(d) \/ C_Timeout(d) \/ C_LoopEnds(d)
      BY <1>1, <1>2, <2>1, ClientBoxes
    <2>2. CASE ServerMain \/ Callback
      BY <1>1, <1>2, <2>2, ServerBoxes
    <2>3. CASE OtherSteps
      BY <1>1, <1>2, <2>3, OtherBoxes
    <2>4. CASE UNCHANGED vars
      BY <2>4 DEF vars, netVars, envVars, BoxStep, InboxStep, ControlChStep, DeliveredStep
    <2> QED
      BY <2>1, <2>2, <2>3, <2>4 DEF Next, Environment, OtherSteps
  <1>3. ASSUME NEW c \in Clients
        PROVE  /\ inbox'[c] \in Seq(GenuineTo(c)')
               /\ controlCh'[c] \in Seq(GenuineTo(c)')
               /\ delivered'[c] \subseteq GenuineTo(c)'
    BY <1>1, <1>2, <1>3, BoxStepGenuine
  <1> QED
    BY <1>3, StoredNext DEF PacketsGenuine

LEMMA ClientsNext ==
    ASSUME TypeOK, PacketsGenuine, [Next]_vars, NEW c \in Clients
    PROVE  ClientKept(c) \/ ClientUnsubscribed(c) \/ \E m \in GenuineTo(c) : ClientTakes(c, m)
  <1>1. CASE \E d \in Clients : \/ C_Open(d) \/ C_ConnectionLost(d) \/ C_StdinEof(d) \/ C_Receive(d)
                                \/ ClientMain(d) \/ C_Timeout(d) \/ C_LoopEnds(d)
    BY <1>1, ClientSteps
  <1>2. ASSUME UNCHANGED client PROVE ClientKept(c)
    BY <1>2 DEF ClientKept
  <1>3. CASE ServerMain \/ Callback
    BY <1>2, <1>3 DEF ServerMain, Callback, S_RejectConnect, S_AcceptConnect, S_SubscribeFails, S_AckSent,
       S_HandleConfirm, S_DialOk, S_DialFails, S_Register, S_HandleClosed, S_TunnelClosed, S_Reconnect, SignalLost
  <1>4. CASE OtherSteps
    BY <1>2, <1>4 DEF OtherSteps, Redeliver, HandRequest, S_Receive, S_DropPacket, LinkLost, LinkUp, Resume,
       TargetCloses, S_ConfirmTimeout, T_ReadEnds, T_LoopEnds, T_Unsubscribe
  <1>5. CASE UNCHANGED vars
    BY <1>2, <1>5 DEF vars
  <1> QED
    BY <1>1, <1>3, <1>4, <1>5 DEF Next, Environment, OtherSteps

LEMMA TopicsNext == TypeOK /\ TopicsInv /\ [Next]_vars => TopicsInv'
  <1> SUFFICES ASSUME TypeOK, TopicsInv, [Next]_vars PROVE TopicsInv'
    OBVIOUS
  <1>1. PacketsGenuine /\ NotSubscribed /\ TopicsAgree
    BY DEF TopicsInv
  <1>2. IDsKept /\ made \in Nat /\ made' \in Nat
    BY IDsNext, BoundAssumption DEF TypeOK, ServerTyped, IDsKept
  <1>3. NotSubscribed'
    <2> SUFFICES ASSUME NEW c \in Clients, client'[c].state \in {"init", "opening", "waiting"}
                 PROVE  client'[c].sub = NoTopic
      BY DEF NotSubscribed
    <2>1. client[c].state \in {"init", "opening", "waiting"} => client[c].sub = NoTopic
      BY <1>1 DEF NotSubscribed
    <2>2. ClientKept(c) \/ ClientUnsubscribed(c) \/ \E m \in GenuineTo(c) : ClientTakes(c, m)
      BY <1>1, ClientsNext
    <2> QED
      BY <2>1, <2>2 DEF ClientKept, ClientUnsubscribed, ClientTakes
  <1>4. ASSUME NEW c \in Clients, client'[c].sub # NoTopic
        PROVE  \E t \in 1..made : /\ tun[t].id = c
                                  /\ client'[c].sub = ClientPubTopic(t)
                                  /\ client'[c].pub = ServerPubTopic(t)
    <2>1. CASE ClientKept(c)
      BY <1>1, <1>4, <2>1 DEF ClientKept, TopicsAgree
    <2>2. CASE ClientUnsubscribed(c)
      BY <1>1, <1>4, <2>2 DEF ClientUnsubscribed, NotSubscribed
    <2>3. CASE \E m \in GenuineTo(c) : ClientTakes(c, m)
      BY <2>3 DEF GenuineTo, Genuine, ClientTakes
    <2> QED
      BY <1>1, <2>1, <2>2, <2>3, ClientsNext
  <1>5. TopicsAgree'
    <2>1. \A t \in 1..made : t \in 1..made' /\ tun'[t].id = tun[t].id
      BY <1>2 DEF IDsKept
    <2> SUFFICES ASSUME NEW c \in Clients, client'[c].sub # NoTopic
                 PROVE  \E t \in 1..made' : /\ tun'[t].id = c
                                            /\ client'[c].sub = ClientPubTopic(t)
                                            /\ client'[c].pub = ServerPubTopic(t)
      BY DEF TopicsAgree, ClientPubTopic, ServerPubTopic, Topic
    <2> QED
      BY <1>4, <2>1
  <1> QED
    BY <1>1, <1>3, <1>5, PacketsGenuineNext DEF TopicsInv

LEMMA TopicsInit == Init => TopicsInv
  <1> SUFFICES ASSUME Init PROVE TopicsInv
    OBVIOUS
  <1>1. PacketsGenuine
    <2>1. \A S : <<>> \in Seq(S)
      OBVIOUS
    <2> QED
      BY <2>1 DEF Init, PacketsGenuine, Nodes
  <1>2. \A c \in Clients : client[c].sub = NoTopic
    BY DEF Init
  <1> QED
    BY <1>1, <1>2 DEF TopicsInv, NotSubscribed, TopicsAgree

\* A client that has subscribed uses the crossed topics of a tunnel the server
\* made for its ID (createAck; handleControl, mqtunnel.go), for any number of
\* clients, tunnels, redeliveries and connection losses.
THEOREM TopicsCorrect == Spec => []TopicsAgree
  <1>1. TopicsInv => TopicsAgree
    BY DEF TopicsInv
  <1> QED
    BY <1>1, TopicsInit, TopicsNext, TypeCorrect, PTL DEF Spec
=============================================================================
