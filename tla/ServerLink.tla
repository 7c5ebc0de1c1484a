----------------------------- MODULE ServerLink -----------------------------
(***************************************************************************)
(* One process's connection to the MQTT broker: the paho client with its   *)
(* callbacks onConnect and onMqttConnectionLost, the manual keepalive of   *)
(* tunnel/mqtt.go with its two timers, and the main loop that reconnects.  *)
(*                                                                         *)
(* paho itself is outside the repository; it is modelled as the code uses  *)
(* it: AutoReconnect after a lost connection, no reconnect and no callback *)
(* after Disconnect, Connect an immediate success unless disconnected, the *)
(* callbacks in goroutines of their own.                                   *)
(*                                                                         *)
(* Time is counted in ticks.  A timer that is due fires, and what follows  *)
(* without waiting for the network happens, before the next tick.          *)
(*                                                                         *)
(* As in TunnelProtocol, an operator used nowhere is a faulty variant of   *)
(* the one that follows it.                                                *)
(***************************************************************************)
EXTENDS Integers

CONSTANTS
    IsServer,       \* server or client mode
    Interval,       \* manual-keepalive in ticks, 0: disabled
    Timeout,        \* ticks a ping may stay unanswered (5 s in the code)
    MaxEcho,        \* environment: most ticks the broker takes for an echo
    MaxRetries,     \* attempts of connectWithRetry (10 in the code)
    MaxLosses,      \* bound: connections that break or die, subscriptions that fail
    LateCallbacks   \* environment: onMqttConnectionLost may still be to run
                    \* when the next connection is up

ASSUME LinkAssumption ==
    /\ IsServer \in BOOLEAN /\ LateCallbacks \in BOOLEAN
    /\ Interval \in Nat /\ Timeout \in Nat \ {0} /\ MaxEcho \in Nat
    /\ MaxRetries \in Nat \ {0} /\ MaxLosses \in Nat

Off == -1           \* a timer that is not armed, no echo under way

VARIABLES
    paho,           \* "connected", "reconnecting", "disconnected"
    path,           \* whether the connection still carries packets: "ok", "dead"
    losses,         \* failures so far
    subscribed,     \* the broker knows this connection's subscriptions
    lostCalls,      \* onMqttConnectionLost callbacks that have not run
    subscribing,    \* onConnect callbacks in subscribe()
    arming,         \* goroutines about to start the ping timer
    pingTimer,      \* ticks until sendPing, or Off
    writing,        \* sendPing goroutines in token.Wait()
    sent,           \* sendPing goroutines about to arm the timeout
    pingTimeoutTimer, \* ticks until the timeout that can still be stopped
    orphans,        \* the same for timers no variable points to any more
    pingPending,
    echo,           \* ticks within which the echo comes
    disconnecting,  \* a goroutine is about to call client.Disconnect
    main,           \* "select", "busy", "connect", "ended"
    attempts        \* failed attempts of connectWithRetry

callVars  == <<lostCalls, subscribing, arming>>
pingVars  == <<pingTimer, writing, sent, pingTimeoutTimer, orphans, pingPending>>
mainVars  == <<main, attempts>>
vars == <<paho, path, losses, subscribed, callVars, pingVars, echo, disconnecting, mainVars>>

LinkTyped ==
    /\ paho \in {"connected", "reconnecting", "disconnected"}
    /\ path \in {"ok", "dead"}
    /\ losses \in 0..MaxLosses
    /\ subscribed \in BOOLEAN /\ disconnecting \in BOOLEAN
CallTyped ==
    lostCalls \in Nat /\ subscribing \in Nat /\ arming \in Nat
TimersTyped ==
    /\ pingTimer \in {Off} \cup 0..Interval
    /\ pingTimeoutTimer \in {Off} \cup 0..Timeout
    /\ orphans \subseteq 0..Timeout
    /\ echo \in {Off} \cup 0..MaxEcho
PingTyped ==
    writing \in Nat /\ sent \in Nat /\ pingPending \in BOOLEAN
MainTyped ==
    /\ main \in {"select", "busy", "connect", "ended"}
    /\ attempts \in 0..MaxRetries
    /\ attempts = MaxRetries => main = "ended"
TypeOK == LinkTyped /\ CallTyped /\ TimersTyped /\ PingTyped /\ MainTyped

\* NewMQTTBroker has connected, onConnect is about to run.
Init ==
    /\ paho = "connected" /\ path = "ok" /\ losses = 0 /\ subscribed = FALSE
    /\ lostCalls = 0 /\ subscribing = 1 /\ arming = 0
    /\ pingTimer = Off /\ writing = 0 /\ sent = 0
    /\ pingTimeoutTimer = Off /\ orphans = {} /\ pingPending = FALSE
    /\ echo = Off /\ disconnecting = FALSE
    /\ main = "select" /\ attempts = 0

Manual    == Interval > 0
Running   == main # "ended"
Connected == paho = "connected" /\ path = "ok"

-----------------------------------------------------------------------------
(***************************************************************************)
(* The network and paho.                                                   *)
(***************************************************************************)
Spend == losses < MaxLosses /\ losses' = losses + 1

\* Packets vanish and nobody is told (a NAT entry expires, Wi-Fi changes).
PathDies ==
    /\ Running
    /\ Connected
    /\ Spend
    /\ path' = "dead" /\ echo' = Off
    /\ UNCHANGED <<paho, subscribed, callVars, pingVars, disconnecting, mainVars>>

\* opts.SetAutoReconnect(true).
AutoReconnect == TRUE

\* paho notices that the connection is gone.  Each connection is lost once.
ConnectionBreaks ==
    /\ Running
    /\ paho = "connected"
    /\ \/ path = "ok" /\ Spend
       \/ path = "dead" /\ UNCHANGED losses
    /\ paho' = IF AutoReconnect THEN "reconnecting" ELSE "disconnected"
    /\ subscribed' = FALSE /\ echo' = Off
    /\ lostCalls' = lostCalls + 1
    /\ UNCHANGED <<path, subscribing, arming, pingVars, disconnecting, mainVars>>

\* A new connection: a clean session, and onConnect in a goroutine.
NewConnection ==
    /\ LateCallbacks \/ lostCalls = 0
    /\ paho' = "connected" /\ path' = "ok"
    /\ subscribing' = subscribing + 1

\* paho's own reconnect.
PahoReconnects ==
    /\ Running
    /\ paho = "reconnecting"
    /\ NewConnection
    /\ UNCHANGED <<losses, subscribed, lostCalls, arming, pingVars, echo, disconnecting, mainVars>>

\* client.Disconnect: paho stays away, and calls no one back.
Disconnect ==
    /\ Running
    /\ disconnecting
    /\ disconnecting' = FALSE
    /\ paho' = "disconnected" /\ subscribed' = FALSE /\ echo' = Off
    /\ UNCHANGED <<path, losses, callVars, pingVars, mainVars>>

-----------------------------------------------------------------------------
(***************************************************************************)
(* The callbacks.                                                          *)
(***************************************************************************)

\* onConnect: subscribe() waits for its SUBACK; it fails if the connection
\* does by then, or the broker does not answer in time.  The failure is logged
\* and the callback goes on.
OnConnectSubscribes ==
    /\ Running
    /\ subscribing > 0
    /\ subscribing' = subscribing - 1
    /\ \/ subscribed' = (subscribed \/ Connected) /\ UNCHANGED losses
       \/ Spend /\ UNCHANGED subscribed
    /\ arming' = arming + 1
    /\ UNCHANGED <<paho, path, lostCalls, pingVars, echo, disconnecting, mainVars>>

\* startPingTimer stops the timer and makes a new one.
StartNothing == UNCHANGED pingTimer
StartPingTimer == pingTimer' = IF Manual THEN Interval ELSE pingTimer

\* The end of onConnect, and the goroutine of handlePingMessage.
StartsPingTimer ==
    /\ Running
    /\ arming > 0
    /\ arming' = arming - 1
    /\ StartPingTimer
    /\ UNCHANGED <<paho, path, losses, subscribed, lostCalls, subscribing, writing, sent, pingTimeoutTimer,
                   orphans, pingPending, echo, disconnecting, mainVars>>

\* The non-blocking send on the unbuffered reconnectCh: only a server's main
\* loop that sleeps in its select receives it.
SignalReconnect == main' = IF IsServer /\ main = "select" THEN "connect" ELSE main

\* onMqttConnectionLost: a client exits, a server signals its main loop.
OnConnectionLost ==
    /\ Running
    /\ lostCalls > 0
    /\ lostCalls' = lostCalls - 1
    /\ pingTimer' = Off /\ pingTimeoutTimer' = Off /\ pingPending' = FALSE
    /\ IF IsServer THEN SignalReconnect ELSE main' = "ended"
    /\ UNCHANGED <<paho, path, losses, subscribed, subscribing, arming, writing, sent, orphans, echo,
                   disconnecting, attempts>>

-----------------------------------------------------------------------------
(***************************************************************************)
(* The manual keepalive.                                                   *)
(***************************************************************************)

\* A control or data message restarts the ping timer.
Activity ==
    /\ Running /\ Manual
    /\ Connected /\ subscribed
    /\ StartPingTimer
    /\ UNCHANGED <<paho, path, losses, subscribed, callVars, writing, sent, pingTimeoutTimer, orphans,
                   pingPending, echo, disconnecting, mainVars>>

\* sendPing up to the publish.
SendPing ==
    /\ Running
    /\ pingTimer = 0
    /\ pingTimer' = Off
    /\ IF pingPending
       THEN disconnecting' = TRUE /\ UNCHANGED <<pingPending, writing>>
       ELSE pingPending' = TRUE /\ writing' = writing + 1 /\ UNCHANGED disconnecting
    /\ UNCHANGED <<paho, path, losses, subscribed, callVars, sent, pingTimeoutTimer, orphans, echo, mainVars>>

\* The ping is written, or its publish fails: token.Wait() returns.
PingWritten ==
    /\ Running
    /\ writing > 0
    /\ writing' = writing - 1 /\ sent' = sent + 1
    /\ echo' = IF Connected /\ subscribed THEN MaxEcho ELSE echo
    /\ UNCHANGED <<paho, path, losses, subscribed, callVars, pingTimer, pingTimeoutTimer, orphans,
                   pingPending, disconnecting, mainVars>>

\* sendPing arms the timeout, whatever has happened since.
AwaitNothing == Off
AwaitEcho == Timeout

ArmTimeout ==
    /\ Running
    /\ sent > 0
    /\ sent' = sent - 1
    /\ orphans' = orphans \cup ({pingTimeoutTimer} \ {Off})
    /\ pingTimeoutTimer' = AwaitEcho
    /\ UNCHANGED <<paho, path, losses, subscribed, callVars, pingTimer, writing, pingPending, echo,
                   disconnecting, mainVars>>

\* handlePingMessage: an answer that nobody awaits any more is only logged.
StopsTimeoutOnly == pingTimeoutTimer' = Off /\ UNCHANGED pingPending
TakesAnswer == pingTimeoutTimer' = Off /\ pingPending' = FALSE

EchoArrives ==
    /\ Running
    /\ echo # Off /\ Connected
    /\ echo' = Off
    /\ IF pingPending THEN TakesAnswer /\ arming' = arming + 1
                      ELSE UNCHANGED <<pingPending, pingTimeoutTimer, arming>>
    /\ UNCHANGED <<paho, path, losses, subscribed, lostCalls, subscribing, pingTimer, writing, sent, orphans,
                   disconnecting, mainVars>>

\* The timeout callback: first the signal, then Disconnect.
PingTimesOut ==
    /\ Running
    /\ \/ pingTimeoutTimer = 0 /\ pingTimeoutTimer' = Off /\ UNCHANGED orphans
       \/ 0 \in orphans /\ orphans' = orphans \ {0} /\ UNCHANGED pingTimeoutTimer
    /\ pingPending' = FALSE
    /\ IF pingPending THEN disconnecting' = TRUE /\ SignalReconnect
                      ELSE UNCHANGED <<disconnecting, main>>
    /\ UNCHANGED <<paho, path, losses, subscribed, callVars, pingTimer, writing, sent, echo, attempts>>

\* A tick passes.  A write may take long, once the connection is in trouble.
Down(t) == IF t = Off THEN Off ELSE t - 1
Tick ==
    /\ Running /\ Manual
    /\ 0 \notin {pingTimer, pingTimeoutTimer, echo} \cup orphans
    /\ sent = 0 /\ arming = 0 /\ ~disconnecting
    /\ writing > 0 => ~Connected
    /\ LateCallbacks \/ lostCalls = 0
    /\ pingTimer' = Down(pingTimer)
    /\ pingTimeoutTimer' = Down(pingTimeoutTimer)
    /\ orphans' = {t - 1 : t \in orphans}
    /\ echo' = Down(echo)
    /\ UNCHANGED <<paho, path, losses, subscribed, callVars, writing, sent, pingPending, disconnecting, mainVars>>

-----------------------------------------------------------------------------
(***************************************************************************)
(* The main loop of the server.                                            *)
(***************************************************************************)
MainBusy == main = "select" /\ main' = "busy" /\ UNCHANGED <<paho, path, losses, subscribed, callVars,
                                                             pingVars, echo, disconnecting, attempts>>
MainFree == main = "busy" /\ main' = "select" /\ UNCHANGED <<paho, path, losses, subscribed, callVars,
                                                             pingVars, echo, disconnecting, attempts>>

\* Reconnect: paho reports success at once unless it is disconnected.
ReconnectOk ==
    /\ main = "connect"
    /\ IF paho = "disconnected" THEN NewConnection ELSE UNCHANGED <<paho, path, subscribing>>
    /\ main' = "select" /\ attempts' = 0
    /\ UNCHANGED <<losses, subscribed, lostCalls, arming, pingVars, echo, disconnecting>>

OneMoreAttempt(n) == n > MaxRetries
LastAttempt(n) == n = MaxRetries

\* An attempt fails; after the last one StartRemote returns and the process
\* ends.
ReconnectFails ==
    /\ main = "connect"
    /\ paho = "disconnected"
    /\ attempts' = attempts + 1
    /\ main' = IF LastAttempt(attempts') THEN "ended" ELSE "connect"
    /\ UNCHANGED <<paho, path, losses, subscribed, callVars, pingVars, echo, disconnecting>>

-----------------------------------------------------------------------------
Callbacks == OnConnectSubscribes \/ StartsPingTimer \/ OnConnectionLost
Keepalive == SendPing \/ PingWritten \/ ArmTimeout \/ EchoArrives \/ PingTimesOut
Reconnect == ReconnectOk \/ ReconnectFails

Next ==
    \/ PathDies \/ ConnectionBreaks \/ PahoReconnects \/ Disconnect
    \/ Callbacks \/ Keepalive \/ Activity \/ Tick
    \/ MainBusy \/ MainFree \/ Reconnect

Spec == Init /\ [][Next]_vars

(***************************************************************************)
(* Callbacks, timers and the main loop run; paho's own reconnect succeeds  *)
(* in the end.  Nothing is assumed of Activity and of failures.            *)
(***************************************************************************)
FairSpec ==
    /\ Spec
    /\ WF_vars(PahoReconnects) /\ WF_vars(Disconnect)
    /\ WF_vars(OnConnectSubscribes) /\ WF_vars(StartsPingTimer) /\ WF_vars(OnConnectionLost)
    /\ WF_vars(SendPing) /\ WF_vars(PingWritten) /\ WF_vars(ArmTimeout) /\ WF_vars(EchoArrives)
    /\ WF_vars(PingTimesOut) /\ WF_vars(Tick)
    /\ WF_vars(MainFree) /\ WF_vars(Reconnect)

-----------------------------------------------------------------------------
(***************************************************************************)
(* Safety.                                                                 *)
(***************************************************************************)

\* The keepalive of a connection never falls asleep: while paho is connected
\* the ping timer runs, or a ping is on its way to being answered or timed
\* out, or a callback is about to start the timer.
KeepaliveAwake ==
    Manual /\ paho = "connected" /\ Running =>
        \/ pingTimer # Off
        \/ pingPending /\ (writing + sent > 0 \/ pingTimeoutTimer # Off)
        \/ subscribing + arming > 0
        \/ disconnecting

\* As long as the connection has not failed and the broker answers in time,
\* the keepalive leaves it alone: "expects the broker to echo the packet back
\* within 5 seconds. If no echo received, the client disconnects"
\* (README.md:225-226).
HealthyLinkKept == losses = 0 => paho = "connected"

(***************************************************************************)
(* Liveness.                                                               *)
(***************************************************************************)

\* A connection that has died silently does not stay in use, however long
\* paho's own keepalive (one hour) would take.
DeadPathDetected == (path = "dead" /\ paho = "connected") ~> (paho # "connected" \/ main = "ended")

\* Without a connection the process gets one or ends: "If no echo received,
\* the client disconnects and reconnection is triggered" (README.md:226).
ComesBack == (paho # "connected") ~> (paho = "connected" \/ main = "ended")

\* A connection does not stay deaf: it is subscribed in the end, or it is
\* given up, because a ping without a subscription has no echo.
HearsRequests == (paho = "connected") ~> (subscribed \/ ~Connected \/ main = "ended")

\* A client whose connection is given up ends: "we exit on disconnect in
\* local mode" (mqtt.go:575).
ClientExits == (paho # "connected") ~> (main = "ended")
=============================================================================
