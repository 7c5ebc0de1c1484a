------------------------- MODULE ServerLink_proofs -------------------------
(***************************************************************************)
(* The manual keepalive for every value of the constants: its timers keep  *)
(* their types, it never falls asleep while the connection is up, and it   *)
(* leaves a healthy connection alone.                                      *)
(***************************************************************************)
EXTENDS ServerLink, TLAPS

-----------------------------------------------------------------------------
(* Types, part by part. *)

LEMMA TypeInit == Init => TypeOK
  <1> SUFFICES ASSUME Init PROVE TypeOK
    OBVIOUS
  <1>1. LinkTyped
    <2>1. 0 \in 0..MaxLosses
      BY LinkAssumption
    <2> QED
      BY <2>1 DEF Init, LinkTyped
  <1>2. CallTyped /\ PingTyped
    BY DEF Init, CallTyped, PingTyped
  <1>3. TimersTyped
    BY DEF Init, TimersTyped
  <1>4. MainTyped
    BY LinkAssumption DEF Init, MainTyped
  <1> QED
    BY <1>1, <1>2, <1>3, <1>4 DEF TypeOK

LEMMA LinkTypes == TypeOK /\ [Next]_vars => LinkTyped'
  <1> SUFFICES ASSUME TypeOK, [Next]_vars PROVE LinkTyped'
    OBVIOUS
  <1>1. CASE UNCHANGED <<paho, path, losses, subscribed, disconnecting>>
    BY <1>1 DEF TypeOK, LinkTyped
  <1>2. CASE PathDies
    BY <1>2, LinkAssumption DEF PathDies, Spend, TypeOK, LinkTyped
  <1>3. CASE ConnectionBreaks
    <2>1. losses' \in 0..MaxLosses
      BY <1>3, LinkAssumption DEF ConnectionBreaks, Spend, TypeOK, LinkTyped
    <2> QED
      BY <1>3, <2>1 DEF ConnectionBreaks, AutoReconnect, TypeOK, LinkTyped
  <1>4. CASE PahoReconnects
    BY <1>4 DEF PahoReconnects, NewConnection, TypeOK, LinkTyped
  <1>5. CASE Disconnect
    BY <1>5 DEF Disconnect, TypeOK, LinkTyped
  <1>6. CASE OnConnectSubscribes
    <2>1. UNCHANGED <<paho, path, disconnecting>> /\ losses' \in 0..MaxLosses
      BY <1>6, LinkAssumption DEF OnConnectSubscribes, Spend, TypeOK, LinkTyped
    <2>2. subscribed' \in BOOLEAN
      BY <1>6 DEF OnConnectSubscribes, Connected, TypeOK, LinkTyped
    <2> QED
      BY <2>1, <2>2 DEF TypeOK, LinkTyped
  <1>7. CASE SendPing
    BY <1>7 DEF SendPing, TypeOK, LinkTyped
  <1>8. CASE PingTimesOut
    BY <1>8 DEF PingTimesOut, TypeOK, LinkTyped
  <1>9. CASE ReconnectOk
    BY <1>9 DEF ReconnectOk, NewConnection, TypeOK, LinkTyped
  <1>10. ASSUME StartsPingTimer \/ OnConnectionLost \/ PingWritten \/ ArmTimeout \/ EchoArrives
                \/ Activity \/ Tick \/ MainBusy \/ MainFree \/ ReconnectFails \/ UNCHANGED vars
         PROVE  UNCHANGED <<paho, path, losses, subscribed, disconnecting>>
    BY <1>10 DEF StartsPingTimer, OnConnectionLost, PingWritten, ArmTimeout, EchoArrives, Activity, Tick, MainBusy,
       MainFree, ReconnectFails, vars
  <1> QED
    BY <1>1, <1>2, <1>3, <1>4, <1>5, <1>6, <1>7, <1>8, <1>9, <1>10 DEF Next, Callbacks, Keepalive, Reconnect

LEMMA CallTypes == TypeOK /\ [Next]_vars => CallTyped'
  <1> SUFFICES ASSUME TypeOK, [Next]_vars PROVE CallTyped'
    OBVIOUS
  <1>1. CASE UNCHANGED callVars
    BY <1>1 DEF TypeOK, CallTyped, callVars
  <1>2. CASE ConnectionBreaks \/ PahoReconnects \/ ReconnectOk
    BY <1>2 DEF ConnectionBreaks, PahoReconnects, ReconnectOk, NewConnection, TypeOK, CallTyped
  <1>3. CASE Callbacks
    BY <1>3 DEF Callbacks, OnConnectSubscribes, StartsPingTimer, OnConnectionLost, TypeOK, CallTyped
  <1>4. CASE EchoArrives
    BY <1>4 DEF EchoArrives, TypeOK, CallTyped
  <1>5. ASSUME PathDies \/ Disconnect \/ SendPing \/ PingWritten \/ ArmTimeout \/ PingTimesOut
               \/ Activity \/ Tick \/ MainBusy \/ MainFree \/ ReconnectFails \/ UNCHANGED vars
        PROVE  UNCHANGED callVars
    BY <1>5 DEF PathDies, Disconnect, SendPing, PingWritten, ArmTimeout, PingTimesOut, Activity, Tick, MainBusy,
       MainFree, ReconnectFails, vars
  <1> QED
    BY <1>1, <1>2, <1>3, <1>4, <1>5 DEF Next, Keepalive, Reconnect

\* A timer that is not due counts down.
LEMMA DownType ==
    ASSUME NEW m \in Nat, NEW t \in {Off} \cup 0..m, t # 0
    PROVE  /\ Down(t) \in {Off} \cup 0..m
           /\ Down(t) # Off <=> t # Off
           /\ t # Off => Down(t) = t - 1 /\ t > 0
  BY DEF Down, Off

LEMMA TimerTypes == TypeOK /\ [Next]_vars => TimersTyped'
  <1> SUFFICES ASSUME TypeOK, [Next]_vars PROVE TimersTyped'
    OBVIOUS
  <1> USE DEF TypeOK, TimersTyped
  <1>1. CASE UNCHANGED <<pingTimer, pingTimeoutTimer, orphans, echo>>
    BY <1>1
  <1>2. CASE StartsPingTimer \/ Activity
    <2>1. Interval \in 0..Interval
      BY LinkAssumption
    <2>2. UNCHANGED <<pingTimeoutTimer, orphans, echo>>
      BY <1>2 DEF StartsPingTimer, Activity
    <2>3. pingTimer' = Interval \/ pingTimer' = pingTimer
      BY <1>2 DEF StartsPingTimer, Activity, StartPingTimer
    <2> QED
      BY <2>1, <2>2, <2>3
  <1>3. CASE PathDies \/ ConnectionBreaks \/ Disconnect
    BY <1>3 DEF PathDies, ConnectionBreaks, Disconnect, pingVars
  <1>4. CASE OnConnectionLost
    BY <1>4 DEF OnConnectionLost
  <1>5. CASE SendPing
    BY <1>5 DEF SendPing
  <1>6. CASE PingWritten
    BY <1>6, LinkAssumption DEF PingWritten
  <1>7. CASE ArmTimeout
    <2>1. Timeout \in 0..Timeout /\ ({pingTimeoutTimer} \ {Off}) \subseteq 0..Timeout
      BY LinkAssumption
    <2> QED
      BY <1>7, <2>1 DEF ArmTimeout, AwaitEcho
  <1>8. CASE EchoArrives
    BY <1>8 DEF EchoArrives, TakesAnswer
  <1>9. CASE PingTimesOut
    BY <1>9 DEF PingTimesOut
  <1>10. CASE Tick
    <2>1. /\ Down(pingTimer) \in {Off} \cup 0..Interval
          /\ Down(pingTimeoutTimer) \in {Off} \cup 0..Timeout
          /\ Down(echo) \in {Off} \cup 0..MaxEcho
      BY <1>10, LinkAssumption, DownType DEF Tick
    <2>2. {t - 1 : t \in orphans} \subseteq 0..Timeout
      BY <1>10, LinkAssumption DEF Tick
    <2> QED
      BY <1>10, <2>1, <2>2 DEF Tick
  <1>11. ASSUME PahoReconnects \/ OnConnectSubscribes \/ MainBusy \/ MainFree \/ Reconnect \/ UNCHANGED vars
         PROVE  UNCHANGED <<pingTimer, pingTimeoutTimer, orphans, echo>>
    BY <1>11 DEF PahoReconnects, OnConnectSubscribes, MainBusy, MainFree, Reconnect, ReconnectOk, ReconnectFails,
       vars, pingVars
  <1> QED
    BY <1>1, <1>2, <1>3, <1>4, <1>5, <1>6, <1>7, <1>8, <1>9, <1>10, <1>11 DEF Next, Callbacks, Keepalive

LEMMA PingTypes == TypeOK /\ [Next]_vars => PingTyped'
  <1> SUFFICES ASSUME TypeOK, [Next]_vars PROVE PingTyped'
    OBVIOUS
  <1> USE DEF TypeOK, PingTyped
  <1>1. CASE UNCHANGED <<writing, sent, pingPending>>
    BY <1>1
  <1>2. CASE Keepalive
    <2>1. CASE SendPing
      <3>1. writing' \in Nat /\ sent' \in Nat
        BY <2>1 DEF SendPing
      <3>2. UNCHANGED pingPending \/ pingPending' = TRUE
        BY <2>1 DEF SendPing
      <3>3. pingPending' \in BOOLEAN
        BY <3>2, Zenon
      <3> QED
        BY <3>1, <3>3
    <2>2. CASE PingWritten \/ ArmTimeout
      BY <2>2 DEF PingWritten, ArmTimeout
    <2>3. CASE EchoArrives \/ PingTimesOut
      BY <2>3 DEF EchoArrives, TakesAnswer, PingTimesOut
    <2> QED
      BY <1>2, <2>1, <2>2, <2>3 DEF Keepalive
  <1>3. CASE OnConnectionLost
    BY <1>3 DEF OnConnectionLost
  <1>4. ASSUME PathDies \/ ConnectionBreaks \/ PahoReconnects \/ Disconnect \/ OnConnectSubscribes \/ StartsPingTimer
               \/ Activity \/ Tick \/ MainBusy \/ MainFree \/ Reconnect \/ UNCHANGED vars
        PROVE  UNCHANGED <<writing, sent, pingPending>>
    BY <1>4 DEF PathDies, ConnectionBreaks, PahoReconnects, Disconnect, OnConnectSubscribes, StartsPingTimer, Activity,
       Tick, MainBusy, MainFree, Reconnect, ReconnectOk, ReconnectFails, vars, pingVars
  <1> QED
    BY <1>1, <1>2, <1>3, <1>4 DEF Next, Callbacks

LEMMA MainTypes == TypeOK /\ [Next]_vars => MainTyped'
  <1> SUFFICES ASSUME TypeOK, [Next]_vars PROVE MainTyped'
    OBVIOUS
  <1> USE DEF TypeOK, MainTyped
  <1>1. CASE UNCHANGED mainVars
    BY <1>1 DEF mainVars
  <1>2. CASE OnConnectionLost
    BY <1>2 DEF OnConnectionLost, SignalReconnect
  <1>3. CASE PingTimesOut
    BY <1>3 DEF PingTimesOut, SignalReconnect
  <1>4. CASE MainBusy \/ MainFree
    BY <1>4 DEF MainBusy, MainFree
  <1>5. CASE ReconnectOk
    BY <1>5, LinkAssumption DEF ReconnectOk
  <1>6. CASE ReconnectFails
    BY <1>6, LinkAssumption DEF ReconnectFails, LastAttempt
  <1>7. ASSUME PathDies \/ ConnectionBreaks \/ PahoReconnects \/ Disconnect \/ OnConnectSubscribes \/ StartsPingTimer
               \/ Activity \/ Tick \/ SendPing \/ PingWritten \/ ArmTimeout \/ EchoArrives \/ UNCHANGED vars
        PROVE  UNCHANGED mainVars
    BY <1>7 DEF PathDies, ConnectionBreaks, PahoReconnects, Disconnect, OnConnectSubscribes, StartsPingTimer, Activity,
       Tick, SendPing, PingWritten, ArmTimeout, EchoArrives, vars
  <1> QED
    BY <1>1, <1>2, <1>3, <1>4, <1>5, <1>6, <1>7 DEF Next, Callbacks, Keepalive, Reconnect

LEMMA TypeNext == TypeOK /\ [Next]_vars => TypeOK'
  BY LinkTypes, CallTypes, TimerTypes, PingTypes, MainTypes DEF TypeOK

\* No timer runs below zero or starts above its duration, and a process that
\* has used up its attempts to reconnect has ended.
THEOREM TypeCorrect == Spec => []TypeOK
  BY TypeInit, TypeNext, PTL DEF Spec

-----------------------------------------------------------------------------
(***************************************************************************)
(* The keepalive does not fall asleep.  What could put it to sleep is the  *)
(* callback of a connection that was lost before: it stops the timers of   *)
(* the one that is up.  So none may be left when a connection comes up.    *)
(***************************************************************************)
AwakeInv == (paho = "connected" => lostCalls = 0) /\ KeepaliveAwake

\* What KeepaliveAwake is about, and who changes none of it.
AwakeQuiet == UNCHANGED <<paho, lostCalls, subscribing, arming, pingTimer, writing, sent, pingTimeoutTimer,
                          pingPending, disconnecting>>

LEMMA AwakeNext ==
    ASSUME LateCallbacks = FALSE, TypeOK, AwakeInv, [Next]_vars
    PROVE  AwakeInv'
  <1> USE DEF AwakeInv
  <1>1. CASE AwakeQuiet /\ (Running' => Running)
    BY <1>1 DEF AwakeQuiet, KeepaliveAwake
  <1>2. CASE ConnectionBreaks
    BY <1>2 DEF ConnectionBreaks, AutoReconnect, KeepaliveAwake
  <1>3. CASE Disconnect
    BY <1>3 DEF Disconnect, KeepaliveAwake
  <1>4. CASE PahoReconnects
    <2>1. lostCalls' = 0 /\ subscribing' + arming' > 0
      BY <1>4 DEF PahoReconnects, NewConnection, TypeOK, CallTyped
    <2> QED
      BY <2>1 DEF KeepaliveAwake
  <1>5. CASE ReconnectOk
    <2>1. CASE paho = "disconnected"
      <3>1. lostCalls' = 0 /\ subscribing' + arming' > 0
        BY <1>5, <2>1 DEF ReconnectOk, NewConnection, TypeOK, CallTyped
      <3> QED
        BY <3>1 DEF KeepaliveAwake
    <2>2. CASE paho # "disconnected"
      BY <1>1, <1>5, <2>2 DEF ReconnectOk, AwakeQuiet, Running, pingVars
    <2> QED
      BY <2>1, <2>2
  <1>6. CASE OnConnectSubscribes
    <2>1. UNCHANGED <<paho, lostCalls>> /\ subscribing' + arming' > 0
      BY <1>6 DEF OnConnectSubscribes, TypeOK, CallTyped
    <2> QED
      BY <2>1 DEF KeepaliveAwake
  <1>7. CASE StartsPingTimer
    <2>1. UNCHANGED <<paho, lostCalls>> /\ (Manual => pingTimer' = Interval /\ Interval # Off)
      BY <1>7, LinkAssumption DEF StartsPingTimer, StartPingTimer, Off
    <2> QED
      BY <2>1 DEF KeepaliveAwake, Manual
  <1>8. CASE OnConnectionLost
    BY <1>8 DEF OnConnectionLost, TypeOK, CallTyped, KeepaliveAwake
  <1>9. CASE SendPing
    <2>1. UNCHANGED <<paho, lostCalls>>
      BY <1>9 DEF SendPing, callVars
    <2>2. disconnecting' \/ (pingPending' /\ writing' + sent' > 0)
      BY <1>9 DEF SendPing, TypeOK, PingTyped
    <2> QED
      BY <2>1, <2>2 DEF KeepaliveAwake
  <1>10. CASE PingWritten
    <2>1. UNCHANGED <<paho, lostCalls, subscribing, arming, pingTimer, pingTimeoutTimer, pingPending, disconnecting, main>>
          /\ writing' + sent' = writing + sent
      BY <1>10 DEF PingWritten, callVars, mainVars, TypeOK, PingTyped
    <2> QED
      BY <2>1 DEF KeepaliveAwake, Running
  <1>11. CASE ArmTimeout
    <2>1. UNCHANGED <<paho, lostCalls, subscribing, arming, pingTimer, pingPending, disconnecting, main>>
          /\ pingTimeoutTimer' # Off
      BY <1>11, LinkAssumption DEF ArmTimeout, AwaitEcho, Off, callVars, mainVars
    <2> QED
      BY <2>1 DEF KeepaliveAwake, Running
  <1>12. CASE EchoArrives
    <2>1. CASE pingPending
      <3>1. UNCHANGED <<paho, lostCalls>> /\ subscribing' + arming' > 0
        BY <1>12, <2>1 DEF EchoArrives, TypeOK, CallTyped
      <3> QED
        BY <3>1 DEF KeepaliveAwake
    <2>2. CASE ~pingPending
      BY <1>1, <1>12, <2>2 DEF EchoArrives, AwakeQuiet, Running, mainVars
    <2> QED
      BY <2>1, <2>2
  <1>13. CASE PingTimesOut
    <2>1. UNCHANGED <<paho, lostCalls, subscribing, arming, pingTimer>> /\ Running
      BY <1>13 DEF PingTimesOut, callVars
    <2>2. CASE pingPending
      BY <1>13, <2>1, <2>2 DEF PingTimesOut, KeepaliveAwake
    <2>3. CASE ~pingPending
      BY <1>13, <2>1, <2>3 DEF PingTimesOut, KeepaliveAwake
    <2> QED
      BY <2>2, <2>3
  <1>14. CASE Activity
    <2>1. UNCHANGED <<paho, lostCalls>> /\ (Manual => pingTimer' = Interval /\ Interval # Off)
      BY <1>14, LinkAssumption DEF Activity, StartPingTimer, Off, callVars
    <2> QED
      BY <2>1 DEF KeepaliveAwake, Manual
  <1>15. CASE Tick
    <2>1. UNCHANGED <<paho, lostCalls, subscribing, arming, writing, sent, pingPending, disconnecting, main>>
      BY <1>15 DEF Tick, callVars, mainVars
    <2>2. (pingTimer # Off => pingTimer' # Off) /\ (pingTimeoutTimer # Off => pingTimeoutTimer' # Off)
      BY <1>15, LinkAssumption, DownType DEF Tick, TypeOK, TimersTyped
    <2> QED
      BY <2>1, <2>2 DEF KeepaliveAwake, Running
  <1>16. ASSUME PathDies \/ MainBusy \/ MainFree \/ ReconnectFails \/ UNCHANGED vars
         PROVE  AwakeQuiet /\ (Running' => Running)
    BY <1>16 DEF PathDies, MainBusy, MainFree, ReconnectFails, vars, callVars, pingVars, mainVars, AwakeQuiet, Running
  <1> QED
    BY <1>1, <1>2, <1>3, <1>4, <1>5, <1>6, <1>7, <1>8, <1>9, <1>10, <1>11, <1>12, <1>13, <1>14, <1>15, <1>16
    DEF Next, Callbacks, Keepalive, Reconnect

\* As long as the callback of a lost connection is through before the next
\* connection is up, the keepalive of a connection is never without a timer, a
\* ping or a callback that will start one.
THEOREM AwakeCorrect == LateCallbacks = FALSE => (Spec => []KeepaliveAwake)
  <1> SUFFICES ASSUME LateCallbacks = FALSE PROVE Spec => []KeepaliveAwake
    OBVIOUS
  <1>1. Init => TypeOK /\ AwakeInv
    BY TypeInit DEF Init, AwakeInv, KeepaliveAwake
  <1>2. TypeOK /\ AwakeInv /\ [Next]_vars => (TypeOK /\ AwakeInv)'
    BY TypeNext, AwakeNext
  <1>3. AwakeInv => KeepaliveAwake
    BY DEF AwakeInv
  <1> QED
    BY <1>1, <1>2, <1>3, PTL DEF Spec

-----------------------------------------------------------------------------
(***************************************************************************)
(* The keepalive leaves a healthy connection alone.  While nothing has     *)
(* failed, a ping is answered before it times out, its timeout has run out *)
(* before the next ping is due even if the answer came before the timeout  *)
(* was armed (nobody stops it then), and so no two pings are under way.    *)
(***************************************************************************)
InTime == MaxEcho < Timeout /\ (Manual => Timeout < Interval)

Untouched ==
    paho = "connected" /\ path = "ok" /\ ~disconnecting /\ lostCalls = 0

\* onConnect has subscribed before the first ping.
Subscribed ==
    \/ subscribing = 0 /\ subscribed
    \/ /\ subscribing = 1 /\ ~subscribed /\ arming = 0
       /\ pingTimer = Off /\ pingTimeoutTimer = Off
       /\ ~pingPending /\ writing = 0 /\ sent = 0

\* One ping at a time, and its timeout well before the next.
OnePing ==
    /\ orphans = {}
    /\ writing + sent <= 1
    /\ writing + sent = 1 => pingTimeoutTimer = Off /\ pingTimer \in {Off, Interval}
    /\ pingTimeoutTimer # Off /\ pingTimer # Off => pingTimer - pingTimeoutTimer >= Interval - Timeout
    /\ pingTimer # Off => Manual

\* The echo of a ping comes before its timeout.
EchoInTime ==
    /\ ~pingPending => writing = 0 /\ echo = Off
    /\ pingPending => \/ writing = 1 /\ echo = Off
                      \/ sent = 1 /\ echo = MaxEcho
                      \/ /\ writing = 0 /\ sent = 0 /\ echo # Off /\ pingTimeoutTimer # Off
                         /\ pingTimeoutTimer - echo >= Timeout - MaxEcho

HealthyInv == losses = 0 => Untouched /\ Subscribed /\ OnePing /\ EchoInTime

LEMMA HealthyNext ==
    ASSUME InTime, TypeOK, HealthyInv, [Next]_vars, losses' = 0
    PROVE  Untouched' /\ Subscribed' /\ OnePing' /\ EchoInTime'
  <1>1. losses = 0
    BY DEF Next, PathDies, ConnectionBreaks, PahoReconnects, Disconnect, Callbacks, OnConnectSubscribes,
       StartsPingTimer, OnConnectionLost, Keepalive, SendPing, PingWritten, ArmTimeout, EchoArrives, PingTimesOut,
       Activity, Tick, MainBusy, MainFree, Reconnect, ReconnectOk, ReconnectFails, vars, Spend, TypeOK, LinkTyped
  <1>2. Untouched /\ Subscribed /\ OnePing /\ EchoInTime
    BY <1>1 DEF HealthyInv
  <1> DEFINE Goal == Untouched' /\ Subscribed' /\ OnePing' /\ EchoInTime'
  <1>3. ASSUME UNCHANGED <<paho, path, disconnecting, lostCalls, subscribing, subscribed, arming, pingVars, echo>>
        PROVE  Goal
    BY <1>2, <1>3 DEF Untouched, Subscribed, OnePing, EchoInTime, pingVars
  <1>4. ~PathDies /\ ~ConnectionBreaks /\ ~PahoReconnects /\ ~Disconnect /\ ~OnConnectionLost /\ ~ReconnectFails
    BY <1>1, <1>2 DEF PathDies, ConnectionBreaks, PahoReconnects, Disconnect, OnConnectionLost, ReconnectFails, Spend,
       Untouched
  <1>5. CASE OnConnectSubscribes
    <2>1. /\ UNCHANGED <<paho, path, lostCalls, pingVars, echo, disconnecting>>
          /\ subscribing' = 0 /\ subscribed'
      <3>1. Connected
        BY <1>2 DEF Untouched, Connected
      <3>2. subscribed' = (subscribed \/ Connected)
        BY <1>1, <1>5 DEF OnConnectSubscribes, Spend
      <3>3. subscribing = 1 /\ subscribing' = subscribing - 1
        BY <1>2, <1>5 DEF OnConnectSubscribes, Subscribed
      <3>4. UNCHANGED <<paho, path, lostCalls, pingVars, echo, disconnecting>>
        BY <1>5 DEF OnConnectSubscribes
      <3>5. subscribed'
        BY <3>1, <3>2, Zenon
      <3>6. subscribing' = 0
        BY <3>3
      <3> QED
        BY <3>4, <3>5, <3>6
    <2> QED
      BY <1>2, <2>1 DEF Untouched, Subscribed, OnePing, EchoInTime, pingVars
  <1>6. CASE StartsPingTimer \/ Activity
    <2>1. /\ UNCHANGED <<paho, path, losses, subscribed, lostCalls, subscribing, writing, sent, pingTimeoutTimer,
                         orphans, pingPending, echo, disconnecting>>
          /\ IF Manual THEN pingTimer' = Interval ELSE UNCHANGED pingTimer
      BY <1>6 DEF StartsPingTimer, Activity, StartPingTimer, callVars
    <2>2. subscribing = 0 /\ subscribed
      BY <1>2, <1>6 DEF StartsPingTimer, Activity, Subscribed, TypeOK, CallTyped
    <2>3. Untouched' /\ Subscribed' /\ EchoInTime'
      BY <1>2, <2>1, <2>2 DEF Untouched, Subscribed, EchoInTime
    <2>4. OnePing'
      <3>1. pingTimeoutTimer # Off => pingTimeoutTimer <= Timeout /\ pingTimeoutTimer \in Nat
        BY LinkAssumption DEF TypeOK, TimersTyped
      <3>2. Interval \in Nat /\ Timeout \in Nat
        BY LinkAssumption
      <3> QED
        BY <1>2, <2>1, <3>1, <3>2 DEF OnePing
    <2> QED
      BY <2>3, <2>4
  <1>7. CASE SendPing
    <2>1. pingTimer = 0 /\ pingTimer # Off /\ Manual
      BY <1>2, <1>7 DEF SendPing, Off, OnePing
    <2>2. writing = 0 /\ sent = 0 /\ pingTimeoutTimer = Off
      <3>1. writing + sent # 1
        BY <1>2, <2>1, LinkAssumption DEF OnePing, InTime
      <3>2. pingTimeoutTimer # Off => pingTimeoutTimer >= 0 /\ pingTimeoutTimer \in Int
        BY LinkAssumption DEF TypeOK, TimersTyped
      <3> QED
        BY <1>2, <2>1, <3>1, <3>2, LinkAssumption DEF OnePing, InTime, TypeOK, PingTyped
    <2>3. ~pingPending /\ echo = Off
      BY <1>2, <2>2 DEF EchoInTime
    <2>4. /\ UNCHANGED <<paho, path, subscribed, lostCalls, subscribing, sent, pingTimeoutTimer, orphans, echo, disconnecting>>
          /\ pingTimer' = Off /\ pingPending' /\ writing' = 1
      BY <1>7, <2>2, <2>3 DEF SendPing, callVars
    <2>5. subscribing = 0 /\ subscribed
      BY <1>2, <2>1 DEF Subscribed
    <2> QED
      BY <1>2, <2>2, <2>3, <2>4, <2>5 DEF Untouched, Subscribed, OnePing, EchoInTime
  <1>8. CASE PingWritten
    <2>1. writing = 1 /\ sent = 0 /\ pingTimeoutTimer = Off /\ pingTimer \in {Off, Interval} /\ pingPending
      BY <1>2, <1>8 DEF PingWritten, OnePing, EchoInTime, TypeOK, PingTyped
    <2>2. subscribing = 0 /\ subscribed /\ Connected
      BY <1>2, <2>1 DEF Subscribed, Untouched, Connected
    <2>3. /\ UNCHANGED <<paho, path, subscribed, callVars, pingTimer, pingTimeoutTimer, orphans, pingPending, disconnecting>>
          /\ writing' = 0 /\ sent' = 1 /\ echo' = MaxEcho
      BY <1>8, <2>1, <2>2 DEF PingWritten
    <2> QED
      BY <1>2, <2>1, <2>2, <2>3 DEF Untouched, Subscribed, OnePing, EchoInTime, callVars
  <1>9. CASE ArmTimeout
    <2>1. writing = 0 /\ sent = 1 /\ pingTimeoutTimer = Off /\ pingTimer \in {Off, Interval}
      BY <1>2, <1>9 DEF ArmTimeout, OnePing, TypeOK, PingTyped
    <2>2. /\ UNCHANGED <<paho, path, subscribed, callVars, pingTimer, writing, orphans, pingPending, echo, disconnecting>>
          /\ sent' = 0 /\ pingTimeoutTimer' = Timeout
      BY <1>2, <1>9, <2>1 DEF ArmTimeout, AwaitEcho, OnePing
    <2>3. pingPending => echo = MaxEcho
      BY <1>2, <2>1 DEF EchoInTime
    <2>4. subscribing = 0 /\ subscribed
      BY <1>2, <2>1 DEF Subscribed
    <2>5. Timeout \in Nat /\ MaxEcho \in Nat /\ Interval \in Nat /\ Timeout # Off /\ MaxEcho # Off
      BY LinkAssumption DEF Off
    <2> QED
      BY <1>2, <2>1, <2>2, <2>3, <2>4, <2>5 DEF Untouched, Subscribed, OnePing, EchoInTime, callVars
  <1>10. CASE EchoArrives
    <2>1. pingPending
      BY <1>2, <1>10 DEF EchoArrives, EchoInTime
    <2>2. /\ UNCHANGED <<paho, path, subscribed, lostCalls, subscribing, pingTimer, writing, sent, orphans, disconnecting>>
          /\ echo' = Off /\ pingTimeoutTimer' = Off /\ ~pingPending'
      BY <1>10, <2>1 DEF EchoArrives, TakesAnswer
    <2>3. writing = 0 /\ subscribing = 0 /\ subscribed
      BY <1>2, <1>10, <2>1 DEF EchoArrives, EchoInTime, Subscribed, OnePing, TypeOK, PingTyped
    <2> QED
      BY <1>2, <2>2, <2>3 DEF Untouched, Subscribed, OnePing, EchoInTime
  <1>11. CASE PingTimesOut
    <2>1. pingTimeoutTimer = 0 /\ pingTimeoutTimer' = Off /\ UNCHANGED orphans
      BY <1>2, <1>11 DEF PingTimesOut, OnePing
    <2>2. writing = 0 /\ sent = 0
      BY <1>2, <2>1 DEF OnePing, Off, TypeOK, PingTyped
    <2>3. ~pingPending
      <3>1. echo # Off => echo \in Nat
        BY DEF TypeOK, TimersTyped
      <3> QED
        BY <1>2, <2>1, <2>2, <3>1, LinkAssumption DEF EchoInTime, InTime
    <2>4. UNCHANGED <<paho, path, subscribed, callVars, pingTimer, writing, sent, pingPending, echo, disconnecting>>
      BY <1>11, <2>3 DEF PingTimesOut, TypeOK, PingTyped
    <2> QED
      BY <1>2, <2>1, <2>2, <2>3, <2>4 DEF Untouched, Subscribed, OnePing, EchoInTime, callVars
  <1>12. CASE Tick
    <2>1. UNCHANGED <<paho, path, subscribed, callVars, writing, sent, pingPending, disconnecting>>
          /\ writing = 0 /\ sent = 0
      BY <1>2, <1>12 DEF Tick, Untouched, Connected, TypeOK, PingTyped
    <2>2. orphans' = {}
      BY <1>2, <1>12 DEF Tick, OnePing
    <2>3. /\ pingTimer' # Off <=> pingTimer # Off
          /\ pingTimeoutTimer' # Off <=> pingTimeoutTimer # Off
          /\ echo' # Off <=> echo # Off
          /\ pingTimer # Off => pingTimer' = pingTimer - 1 /\ pingTimer \in Int
          /\ pingTimeoutTimer # Off => pingTimeoutTimer' = pingTimeoutTimer - 1 /\ pingTimeoutTimer \in Int
          /\ echo # Off => echo' = echo - 1 /\ echo \in Int
      BY <1>12, LinkAssumption, DownType DEF Tick, TypeOK, TimersTyped
    <2>4. Untouched' /\ Subscribed'
      BY <1>2, <2>1, <2>3 DEF Untouched, Subscribed, callVars
    <2>5. OnePing'
      BY <1>2, <2>1, <2>2, <2>3, LinkAssumption DEF OnePing
    <2>6. EchoInTime'
      BY <1>2, <2>1, <2>3, LinkAssumption DEF EchoInTime
    <2> QED
      BY <2>4, <2>5, <2>6
  <1>13. CASE MainBusy \/ MainFree \/ ReconnectOk \/ UNCHANGED vars
    <2>1. UNCHANGED <<paho, path, disconnecting, lostCalls, subscribing, subscribed, arming, pingVars, echo>>
      BY <1>2, <1>13 DEF MainBusy, MainFree, ReconnectOk, vars, callVars, Untouched
    <2> QED
      BY <1>3, <2>1
  <1> QED
    BY <1>4, <1>5, <1>6, <1>7, <1>8, <1>9, <1>10, <1>11, <1>12, <1>13 DEF Next, Callbacks, Keepalive, Reconnect

\* With a broker that answers within the timeout, and an interval above the
\* timeout, the manual keepalive never gives up a connection by itself.
THEOREM HealthyCorrect == InTime => (Spec => []HealthyLinkKept)
  <1> SUFFICES ASSUME InTime PROVE Spec => []HealthyLinkKept
    OBVIOUS
  <1>1. Init => TypeOK /\ HealthyInv
    BY TypeInit DEF Init, HealthyInv, Untouched, Subscribed, OnePing, EchoInTime
  <1>2. TypeOK /\ HealthyInv /\ [Next]_vars => (TypeOK /\ HealthyInv)'
    BY TypeNext, HealthyNext DEF HealthyInv
  <1>3. HealthyInv => HealthyLinkKept
    BY DEF HealthyInv, HealthyLinkKept, Untouched
  <1> QED
    BY <1>1, <1>2, <1>3, PTL DEF Spec

=============================================================================
