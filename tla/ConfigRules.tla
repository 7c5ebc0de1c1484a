---------------------------- MODULE ConfigRules ----------------------------
(***************************************************************************)
(* What the program accepts as a config, and the defaults it applies: the  *)
(* checks of main() at the start of a server, those of the reload callback *)
(* and the functions of tunnel/config.go both rest on.                     *)
(*                                                                         *)
(* A config file is a record of what the checks tell apart.  `json` says   *)
(* whether ReadConfig returns without an error: the file can be read,      *)
(* parses (ConfigText has the repair of its text) and has known keys only. *)
(*                                                                         *)
(* As in TunnelProtocol, an operator used nowhere is a faulty variant of   *)
(* the one that follows it.                                                *)
(***************************************************************************)
EXTENDS Integers, Sequences

CONSTANT PlatformManual     \* getDefaultManualKeepalive: 0, on Termux 60

ASSUME PlatformAssumption == PlatformManual \in Nat

\* A topic is a sequence of letters; "gFAftaCLyD" stands for the example
\* topics of the documentation, "+" for what is neither letter nor digit.
Letters == {"a", "b", "gFAftaCLyD"}

\* A broker URL that is taken apart; the empty URL has no scheme, NoPort means
\* that none is given.
NoPort == -1
EmptyURL == [scheme |-> "", host |-> "", port |-> NoPort]

Config ==
    [json : BOOLEAN,
     broker : [scheme : STRING, host : STRING, port : Int],
     topic : Seq(Letters \cup {"/", "+"}),
     server : BOOLEAN,
     mqttKeepalive : Int, manualKeepalive : Int]

\* The supported schemes with their default ports.
DefaultPort == [mqtt |-> 1883, mqtts |-> 8883, ws |-> 80, wss |-> 443]

\* ParseBrokerURL returns no error.
ParseBrokerURL(u) ==
    /\ u.scheme \in DOMAIN DefaultPort
    /\ u.host # ""
    /\ (IF u.port = NoPort THEN DefaultPort[u.scheme] ELSE u.port) \in 1..65535

\* ValidateTopic returns no error.
ValidateTopic(t) ==
    /\ t # <<>>
    /\ \A i \in 1..Len(t) - 1 : ~(t[i] = "/" /\ t[i + 1] = "/")
    /\ t[Len(t)] # "/"
    /\ \A i \in DOMAIN t : t[i] \in Letters \cup {"/"}

\* main(): a config a server is started with.
StartAccepts(c) ==
    /\ c.json /\ c.server
    /\ ParseBrokerURL(c.broker)
    /\ ValidateTopic(c.topic)
    /\ c.topic # <<"gFAftaCLyD">>

\* The reload callback: a config that is handed to ReloadConfig.
ReloadAcceptsTopic(c) == c.json /\ c.broker # EmptyURL /\ c.topic # <<>>
ReloadAccepts(c) ==
    /\ c.json
    /\ c.broker # EmptyURL
    /\ c.topic # <<>> /\ ValidateTopic(c.topic)

-----------------------------------------------------------------------------
(***************************************************************************)
(* Keepalive.  Off is the interval of one hour that stands for "disabled". *)
(***************************************************************************)
Off == 3600
Keepalive(manual, mqtt) == [manual |-> manual, mqtt |-> mqtt]
PlatformKeepalive == Keepalive(PlatformManual, IF PlatformManual > 0 THEN Off ELSE 60)

\* main(), server mode.
StartKeepalive(c) ==
    IF c.manualKeepalive > 0 THEN Keepalive(c.manualKeepalive, Off)
    ELSE IF c.mqttKeepalive > 0 /\ c.mqttKeepalive < Off THEN Keepalive(0, c.mqttKeepalive)
    ELSE PlatformKeepalive

\* The reload callback.
ReloadKeepsZero(c) ==
    IF c.manualKeepalive > 0 THEN Keepalive(c.manualKeepalive, Off)
    ELSE Keepalive(c.manualKeepalive, c.mqttKeepalive)
ReloadKeepalive(c) ==
    IF c.manualKeepalive > 0 THEN Keepalive(c.manualKeepalive, Off)
    ELSE IF c.mqttKeepalive <= 0 \/ c.mqttKeepalive >= Off THEN PlatformKeepalive
    ELSE Keepalive(c.manualKeepalive, c.mqttKeepalive)

\* What a broker object makes of it: NewMQTTBroker and getMQTTOptions.
InForce(k) == IF k.manual > 0 THEN Keepalive(k.manual, Off) ELSE Keepalive(0, k.mqtt)
=============================================================================
