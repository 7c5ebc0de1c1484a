---------------------------- MODULE FlowControl ----------------------------
(***************************************************************************)
(* Who waits for whom inside the server.  paho reads one connection in     *)
(* order and calls onMessage (the router) for one message after another;   *)
(* the router waits for room in controlCh or in the writeCh of a tunnel;   *)
(* the main loop waits for SUBACK, PUBACK and the lock mu; the goroutine   *)
(* of a confirm timer waits for its UNSUBACK with mu held.  Every answer   *)
(* comes over the connection the router may be holding up.                 *)
(*                                                                         *)
(* What packets carry is left out but for the waits they cause.  paho is   *)
(* external: PahoSlack messages fit between its reader and the router.     *)
(* The end of the connection is left out (ServerLink has it).              *)
(*                                                                         *)
(* As in TunnelProtocol, an operator used nowhere is a faulty variant of   *)
(* the one that follows it.                                                *)
(***************************************************************************)
EXTENDS Naturals, Sequences

CONSTANTS
    ControlCap,     \* capacity of controlCh (100 in the code)
    WriteCap,       \* capacity of a writeCh (40960 in the code)
    PahoSlack,      \* messages paho holds in front of the router
    MaxSent         \* bound: control packets and data messages the clients publish

ASSUME FlowAssumption ==
    /\ ControlCap \in Nat \ {0} /\ WriteCap \in Nat \ {0} /\ PahoSlack \in Nat \ {0}
    /\ MaxSent \in Nat

\* What a client publishes: "connect", and "confirm" for connect_confirm and
\* connection_closed, which the server handles without waiting for the broker.
Control  == {"connect", "confirm"}
\* "own": a control packet of this server, which it is subscribed to as well.
Messages == Control \cup {"data", "own"}
\* "late": an answer nobody waits for.
Answers  == {"suback", "puback", "unsuback", "late"}
Requests == {"subscribe", "unsubscribe", "ack", "echo", "abandoned"}

VARIABLES
    sent,           \* how many messages the clients have published
    up,             \* what the server sent and the broker has not handled
    wire,           \* what the broker sent and paho has not read
    dispatch,       \* messages paho has read and the router has not
    router,         \* the message onMessage works on, or "idle"
    controlCh,
    writeCh,        \* number of messages in the writeCh of the tunnels
    answered,       \* answers that completed their token
    loop,           \* main loop: "select", "check", "suback", "puback", "insert"
    timers,         \* confirm timers that run
    mu,             \* who holds MQTunnel.mu for long: "free", "timer"
    target          \* whether the target reads: "reads", "stalls"

envVars    == <<sent, target>>
pahoVars   == <<up, wire, dispatch, answered>>
routerVars == <<router, controlCh, writeCh>>
serverVars == <<loop, timers, mu>>
vars == <<envVars, pahoVars, routerVars, serverVars>>

\* The variables keep their types, no channel holds more than its capacity, and
\* the router hands on no packet of this server.
TypeOK ==
    /\ sent \in 0..MaxSent
    /\ up \in Seq(Requests)
    /\ wire \in Seq(Messages \cup Answers)
    /\ dispatch \in Seq(Messages) /\ Len(dispatch) <= PahoSlack
    /\ router \in (Messages \ {"own"}) \cup {"idle"}
    /\ controlCh \in Seq(Control) /\ Len(controlCh) <= ControlCap
    /\ writeCh \in 0..WriteCap
    /\ answered \subseteq Answers \ {"late"}
    /\ loop \in {"select", "check", "suback", "puback", "insert"}
    /\ timers \in Nat
    /\ mu \in {"free", "timer"}
    /\ target \in {"reads", "stalls"}

Init ==
    /\ sent = 0 /\ up = <<>> /\ wire = <<>> /\ dispatch = <<>> /\ router = "idle"
    /\ controlCh = <<>> /\ writeCh = 0 /\ answered = {}
    /\ loop = "select" /\ timers = 0 /\ mu = "free" /\ target = "reads"

-----------------------------------------------------------------------------
(***************************************************************************)
(* Clients, broker, target.                                                *)
(***************************************************************************)
ClientSends(k) ==
    /\ sent < MaxSent
    /\ sent' = sent + 1
    /\ wire' = Append(wire, k)
    /\ UNCHANGED <<target, up, dispatch, answered, routerVars, serverVars>>

\* What the broker sends back.  "echo" stands for the delivery of a control
\* packet to its own sender.
Reply(r) ==
    CASE r = "subscribe"   -> "suback"
      [] r = "unsubscribe" -> "unsuback"
      [] r = "ack"         -> "puback"
      [] r = "echo"        -> "own"
      [] OTHER             -> "late"

BrokerHandles ==
    /\ up # <<>>
    /\ up' = Tail(up)
    /\ wire' = Append(wire, Reply(Head(up)))
    /\ UNCHANGED <<envVars, dispatch, answered, routerVars, serverVars>>

TargetStalls ==
    /\ target = "reads"
    /\ target' = "stalls"
    /\ UNCHANGED <<sent, pahoVars, routerVars, serverVars>>

TargetResumes ==
    /\ target = "stalls"
    /\ target' = "reads"
    /\ UNCHANGED <<sent, pahoVars, routerVars, serverVars>>

-----------------------------------------------------------------------------
(***************************************************************************)
(* paho and the router.                                                    *)
(***************************************************************************)
\* paho's reader: a message goes to the router's queue, and the reader waits
\* for room in it; an answer completes its token.
PahoReads ==
    /\ wire # <<>>
    /\ wire' = Tail(wire)
    /\ \/ /\ Head(wire) \in Messages
          /\ Len(dispatch) < PahoSlack
          /\ dispatch' = Append(dispatch, Head(wire))
          /\ UNCHANGED answered
       \/ /\ Head(wire) \in Answers
          /\ answered' = answered \cup ({Head(wire)} \ {"late"})
          /\ UNCHANGED dispatch
    /\ UNCHANGED <<envVars, up, routerVars, serverVars>>

\* controlPacketReceived drops a packet whose origin is a server.
PassesUnchecked(m) == TRUE
Passes(m) == m # "own"

RouterTakes ==
    /\ router = "idle"
    /\ dispatch # <<>> /\ Passes(Head(dispatch))
    /\ router' = Head(dispatch)
    /\ dispatch' = Tail(dispatch)
    /\ UNCHANGED <<envVars, up, wire, answered, controlCh, writeCh, serverVars>>

\* The filter also drops confirms of tunnels that are in no map, and onMessage
\* drops data of a topic that is in no map.
RouterDrops ==
    /\ router = "idle"
    /\ dispatch # <<>>
    /\ Head(dispatch) \in {"confirm", "data"} \/ ~Passes(Head(dispatch))
    /\ dispatch' = Tail(dispatch)
    /\ UNCHANGED <<envVars, up, wire, answered, routerVars, serverVars>>

\* mqb.controlCh <- control
RouterHandsOnUnbounded ==
    /\ router \notin {"idle", "data"}
    /\ controlCh' = Append(controlCh, router)
    /\ router' = "idle"
    /\ UNCHANGED <<envVars, pahoVars, writeCh, serverVars>>
RouterHandsOn ==
    /\ router \notin {"idle", "data"}
    /\ Len(controlCh) < ControlCap
    /\ controlCh' = Append(controlCh, router)
    /\ router' = "idle"
    /\ UNCHANGED <<envVars, pahoVars, writeCh, serverVars>>

\* tun.writeCh <- msg.Payload()
RouterWrites ==
    /\ router = "data"
    /\ writeCh < WriteCap
    /\ writeCh' = writeCh + 1
    /\ router' = "idle"
    /\ UNCHANGED <<envVars, pahoVars, controlCh, serverVars>>

\* Tunnel.mainLoop writes to its connection, which blocks while the target
\* does not read.
DataLoopWrites ==
    /\ writeCh > 0
    /\ target = "reads"
    /\ writeCh' = writeCh - 1
    /\ UNCHANGED <<envVars, pahoVars, router, controlCh, serverVars>>

-----------------------------------------------------------------------------
(***************************************************************************)
(* The main loop: StartRemote and handleControl.                           *)
(***************************************************************************)
\* A confirm needs mu for a moment only and publishes nothing; its dial ends.
LoopTakesConfirm ==
    /\ loop = "select"
    /\ controlCh # <<>> /\ Head(controlCh) # "connect"
    /\ mu = "free"
    /\ controlCh' = Tail(controlCh)
    /\ UNCHANGED <<envVars, pahoVars, router, writeCh, serverVars>>

LoopTakesConnect ==
    /\ loop = "select"
    /\ controlCh # <<>> /\ Head(controlCh) = "connect"
    /\ controlCh' = Tail(controlCh)
    /\ loop' = "check"
    /\ UNCHANGED <<envVars, pahoVars, router, writeCh, timers, mu>>

\* A refused connect: publish without Wait.  Its PUBACK holds up nobody and is
\* left out.
LoopRefuses ==
    /\ loop = "check"
    /\ mu = "free"
    /\ up' = Append(up, "echo")
    /\ loop' = "select"
    /\ UNCHANGED <<envVars, wire, dispatch, answered, routerVars, timers, mu>>

\* subscribeTunnelTopic
LoopSubscribes ==
    /\ loop = "check"
    /\ mu = "free"
    /\ up' = Append(up, "subscribe")
    /\ loop' = "suback"
    /\ UNCHANGED <<envVars, wire, dispatch, answered, routerVars, timers, mu>>

\* A control packet at QoS 1, answered and delivered back in either order.
Publish(p) == \E s \in {<<p, "echo">>, <<"echo", p>>} : up' = up \o s

\* setupRemoteTunnel publishes connect_ack at QoS 1.
LoopPublishesAck ==
    /\ loop = "suback"
    /\ "suback" \in answered
    /\ answered' = answered \ {"suback"}
    /\ Publish("ack")
    /\ loop' = "puback"
    /\ UNCHANGED <<envVars, wire, dispatch, routerVars, timers, mu>>

\* A WaitTimeout that is over (30 s): the answer still comes, and its token is
\* nobody's any more.
Abandon(request, answer) ==
    /\ answer \notin answered
    /\ up' = [i \in DOMAIN up |-> IF up[i] = request THEN "abandoned" ELSE up[i]]
    /\ wire' = [i \in DOMAIN wire |-> IF wire[i] = answer THEN "late" ELSE wire[i]]

LoopNeverGivesUp == FALSE
LoopGivesUp ==
    /\ loop = "suback"
    /\ Abandon("subscribe", "suback")
    /\ loop' = "select"
    /\ UNCHANGED <<envVars, dispatch, answered, routerVars, timers, mu>>

\* token.Wait() has no limit.
LoopAckSent ==
    /\ loop = "puback"
    /\ "puback" \in answered
    /\ answered' = answered \ {"puback"}
    /\ loop' = "insert"
    /\ UNCHANGED <<envVars, up, wire, dispatch, routerVars, timers, mu>>

\* pendingConfirms[tun.ID] = tun, go func: the confirm timer.
LoopInserts ==
    /\ loop = "insert"
    /\ mu = "free"
    /\ loop' = "select"
    /\ timers' = timers + 1
    /\ UNCHANGED <<envVars, pahoVars, routerVars, mu>>

-----------------------------------------------------------------------------
(***************************************************************************)
(* The confirm timer.                                                      *)
(***************************************************************************)
\* The tunnel has been confirmed or closed.
TimerFindsNothing ==
    /\ timers > 0
    /\ mu = "free"
    /\ timers' = timers - 1
    /\ UNCHANGED <<envVars, pahoVars, routerVars, loop, mu>>

\* unsubscribe() while it holds mu.
TimerUnsubscribes ==
    /\ timers > 0
    /\ mu = "free"
    /\ timers' = timers - 1
    /\ mu' = "timer"
    /\ up' = Append(up, "unsubscribe")
    /\ UNCHANGED <<envVars, wire, dispatch, answered, routerVars, loop>>

\* mqt.mu.Unlock()
UnlockForgotten == UNCHANGED mu
Unlock == mu' = "free"

TimerDone ==
    /\ mu = "timer"
    /\ "unsuback" \in answered
    /\ answered' = answered \ {"unsuback"}
    /\ Unlock
    /\ UNCHANGED <<envVars, up, wire, dispatch, routerVars, loop, timers>>

TimerGivesUp ==
    /\ mu = "timer"
    /\ Abandon("unsubscribe", "unsuback")
    /\ Unlock
    /\ UNCHANGED <<envVars, dispatch, answered, routerVars, loop, timers>>

-----------------------------------------------------------------------------
Clients  == \E k \in Control \cup {"data"} : ClientSends(k)
Target   == TargetStalls \/ TargetResumes
Router   == RouterTakes \/ RouterDrops \/ RouterHandsOn \/ RouterWrites
MainLoop == LoopTakesConfirm \/ LoopTakesConnect \/ LoopRefuses \/ LoopSubscribes
            \/ LoopPublishesAck \/ LoopGivesUp \/ LoopAckSent \/ LoopInserts
Timer    == TimerFindsNothing \/ TimerUnsubscribes \/ TimerDone \/ TimerGivesUp

\* What goes on by itself: the server, timeouts included, and the broker.
Running == BrokerHandles \/ PahoReads \/ Router \/ DataLoopWrites \/ MainLoop \/ Timer

Next == Clients \/ Target \/ Running

Spec == Init /\ [][Next]_vars

\* Every goroutine runs, the broker answers, and a write to a target that reads
\* again and again returns.  Nothing is assumed of clients and target.
FairSpec ==
    /\ Spec
    /\ WF_vars(BrokerHandles) /\ WF_vars(PahoReads)
    /\ WF_vars(Router) /\ WF_vars(MainLoop) /\ WF_vars(Timer)
    /\ SF_vars(DataLoopWrites)

-----------------------------------------------------------------------------
(***************************************************************************)
(* How the server can stop.                                                *)
(***************************************************************************)
\* Nobody goes on by himself, the longest timeout included: no answer is on its
\* way, and paho, the router, the tunnels, the main loop and the timers have
\* nothing to do or wait for somebody else.
StandsStill ==
    /\ up = <<>> /\ mu = "free" /\ timers = 0
    /\ wire # <<>> => Head(wire) \in Messages /\ Len(dispatch) = PahoSlack
    /\ \/ router = "idle" /\ dispatch = <<>>
       \/ router \in Control /\ Len(controlCh) = ControlCap
       \/ router = "data" /\ writeCh = WriteCap
    /\ writeCh > 0 => target = "stalls"
    /\ \/ loop = "select" /\ controlCh = <<>>
       \/ loop = "puback" /\ "puback" \notin answered

\* Nothing is left to do; a target that does not read may leave data behind.
Idle == /\ wire = <<>> /\ dispatch = <<>> /\ router = "idle"
        /\ controlCh = <<>> /\ loop = "select" /\ mu = "free"

\* One target that does not read holds up the router and all behind it.
HeldByTarget == target = "stalls" /\ router = "data" /\ writeCh = WriteCap

\* The main loop waits for a PUBACK, paho's reader has a message in front of it
\* and waits for room in the router's queue, the router waits for room in
\* controlCh, and controlCh waits for the main loop.
CircularWait ==
    /\ loop = "puback" /\ "puback" \notin answered
    /\ Len(controlCh) = ControlCap /\ router \in Control
    /\ Len(dispatch) = PahoSlack
    /\ wire # <<>> /\ Head(wire) \in Messages

KnownWaits == StandsStill => Idle \/ HeldByTarget \/ CircularWait

(***************************************************************************)
(* Safety.                                                                 *)
(***************************************************************************)

\* "Buffered to prevent deadlock during high message volume" (mqtunnel.go:43):
\* the main loop never waits for a PUBACK that paho cannot get at because of
\* the main loop.  The code does not keep it.
NoCircularWait == ~CircularWait

\* The server hangs in no other way: it stands still only with nothing left to
\* do, behind a target that does not read, or in the circle.  In particular
\* neither the lock mu, held over an UNSUBACK, nor a SUBACK behind full channels
\* stops it for good.  The first conjunct says that StandsStill leaves out no
\* step.
OnlyKnownWaits == (StandsStill <=> ~ENABLED Running) /\ KnownWaits

\* Nothing undoes the circle once it has closed: no timeout of the code, no
\* answer, no packet and no target.
CircleIsFinal == [][CircularWait => CircularWait']_vars

(***************************************************************************)
(* Liveness.                                                               *)
(***************************************************************************)

\* The server catches up: what clients publish is handled in the end, every
\* handshake gets its PUBACK and the lock is free, unless a target has stopped
\* reading for good or the circle has closed.
CatchesUp == <>[](Idle /\ writeCh = 0) \/ <>[](target = "stalls") \/ <>[]CircularWait
=============================================================================
