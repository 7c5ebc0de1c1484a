---------------------------- MODULE ConfigReload ----------------------------
(***************************************************************************)
(* How a server gets and replaces its config: main() with its checks, the  *)
(* file watcher and debounce timer of tunnel/reloader.go, the reload       *)
(* callback, reloadCh, and the reload branch of StartRemote, which builds  *)
(* a new broker object and connects it.                                    *)
(*                                                                         *)
(* Tunnels and the loss of an established connection are left out          *)
(* (TunnelProtocol, ServerLink).  Checks and defaults are in ConfigRules.  *)
(*                                                                         *)
(* As in TunnelProtocol, an operator used nowhere is a faulty variant of   *)
(* the one that follows it.                                                *)
(***************************************************************************)
EXTENDS ConfigRules, SequencesExt

CONSTANTS
    Contents,       \* the configs that somebody may write to the file
    Away,           \* environment: hosts where no broker answers
    MaxRetries,     \* attempts of connectWithRetry (10 in the code)
    MaxEdits,       \* bound: changes of the file
    SlowReads,      \* environment: a callback may take longer from its read to
                    \* its send than the debounce time (10 s)
    SlowConnect     \* environment: a connection may come up after the attempt
                    \* that asked for it has timed out (connection-timeout)

ASSUME ReloadAssumption ==
    /\ Contents \subseteq Config
    /\ MaxRetries \in Nat \ {0} /\ MaxEdits \in Nat
    /\ SlowReads \in BOOLEAN /\ SlowConnect \in BOOLEAN

\* A config with the number of the edit that wrote it.
Versions == [content : Config, edit : 0..MaxEdits]

\* What a reload callback may hold: nothing yet, or the version it has read.
Reads(S) == {r \in Seq(S) : Len(r) <= 1}

VARIABLES
    file,           \* the config file
    watched,        \* the watcher's directory is the one the file is in
    unseen,         \* the file was last changed while nobody watched it
    events,         \* fsnotify events that watch() has not taken
    timer,          \* debounce timer: "off", "set"
    callbacks,      \* reload callbacks that run: <<>> before ReadConfig, then
                    \* <<what it read>>
    reloadCh,       \* the buffered config and those of the senders that wait
    conf,           \* the config MQTunnel.conf was made from
    keepalive,      \* the keepalive of MQTunnel.conf
    main,           \* "connect": in NewMQTTBroker; "maps": about to call
                    \* SetTunnelMaps; "watch": about to watch; "select"; "ended"
    started,        \* StartRemote has been called
    attempts,       \* failed attempts of connectWithRetry
    link,           \* the broker object's connection: "down", "dialing", "up"
    subscribed,     \* onConnect has subscribed: control packets arrive
    maps            \* the broker object has its maps

fileVars   == <<file, watched, unseen, events>>
reloadVars == <<timer, callbacks, reloadCh>>
mainVars   == <<conf, keepalive, main, started, attempts>>
linkVars   == <<link, subscribed, maps>>
vars == <<fileVars, reloadVars, mainVars, linkVars>>

FileTyped ==
    /\ file \in Versions /\ watched \in BOOLEAN /\ unseen \in BOOLEAN
    /\ events \in 0..file.edit
ReloadTyped ==
    /\ timer \in {"off", "set"}
    /\ callbacks \in Seq(Reads(Versions))
    /\ reloadCh \in Seq(Versions)
MainTyped ==
    /\ conf \in Versions
    /\ keepalive \in [manual : Int, mqtt : Int]
    /\ main \in {"connect", "maps", "watch", "select", "ended"}
    /\ started \in BOOLEAN
    /\ attempts \in 0..MaxRetries
    /\ attempts = MaxRetries => main = "ended"
LinkTyped ==
    /\ link \in {"down", "dialing", "up"}
    /\ subscribed \in BOOLEAN /\ maps \in BOOLEAN
TypeOK == FileTyped /\ ReloadTyped /\ MainTyped /\ LinkTyped

\* main() has read the file and passed its checks.
Init ==
    /\ \E c \in Contents : StartAccepts(c) /\ file = [content |-> c, edit |-> 0]
    /\ watched = FALSE /\ unseen = FALSE /\ events = 0
    /\ timer = "off" /\ callbacks = <<>> /\ reloadCh = <<>>
    /\ conf = file /\ keepalive = StartKeepalive(file.content)
    /\ main = "connect" /\ started = FALSE /\ attempts = 0
    /\ link = "down" /\ subscribed = FALSE /\ maps = FALSE

-----------------------------------------------------------------------------
(***************************************************************************)
(* The file.                                                               *)
(***************************************************************************)
\* A save, or the replacement sed -i makes: an event for the watched directory.
Write(c) ==
    /\ file.edit < MaxEdits
    /\ file' = [content |-> c, edit |-> file.edit + 1]
    /\ unseen' = ~watched
    /\ events' = IF watched THEN events + 1 ELSE events
    /\ UNCHANGED watched

Edit ==
    /\ \E c \in Contents : Write(c)
    /\ UNCHANGED <<reloadVars, mainVars, linkVars>>

\* The config path is a symbolic link that now points to another directory;
\* NewConfigReloader has resolved it once.
Retarget ==
    /\ file.edit < MaxEdits
    /\ \E c \in Contents : file' = [content |-> c, edit |-> file.edit + 1]
    /\ watched' = FALSE /\ unseen' = TRUE
    /\ UNCHANGED <<events, reloadVars, mainVars, linkVars>>

-----------------------------------------------------------------------------
(***************************************************************************)
(* ConfigReloader and the reload callback.                                 *)
(***************************************************************************)
Alive == main # "ended"

\* timer.Stop() and a new timer.  A callback that has started goes on.
ResetIgnoresSet == timer' = IF callbacks # <<>> THEN timer ELSE "set"
ResetTimer == timer' = "set"

WatchEvent ==
    /\ Alive
    /\ events > 0
    /\ events' = events - 1
    /\ ResetTimer
    /\ UNCHANGED <<file, watched, unseen, callbacks, reloadCh, mainVars, linkVars>>

TimerFires ==
    /\ Alive
    /\ timer = "set"
    /\ SlowReads \/ callbacks = <<>>
    /\ timer' = "off"
    /\ callbacks' = Append(callbacks, <<>>)
    /\ UNCHANGED <<fileVars, reloadCh, mainVars, linkVars>>

\* ReadConfig; an error is logged and ends the callback.
CallbackReads ==
    /\ Alive
    /\ \E i \in DOMAIN callbacks :
        /\ callbacks[i] = <<>>
        /\ callbacks' = IF file.content.json THEN [callbacks EXCEPT ![i] = <<file>>]
                        ELSE RemoveAt(callbacks, i)
    /\ UNCHANGED <<fileVars, timer, reloadCh, mainVars, linkVars>>

\* The checks, then ReloadConfig: the send waits while the buffer is full, and
\* waiting senders are served in their order.
CallbackSends ==
    /\ Alive
    /\ \E i \in DOMAIN callbacks :
        /\ callbacks[i] # <<>>
        /\ callbacks' = RemoveAt(callbacks, i)
        /\ reloadCh' = IF ReloadAccepts(callbacks[i][1].content)
                       THEN reloadCh \o callbacks[i] ELSE reloadCh
    /\ UNCHANGED <<fileVars, timer, mainVars, linkVars>>

-----------------------------------------------------------------------------
(***************************************************************************)
(* The main goroutine and its broker object.                               *)
(***************************************************************************)
\* A broker object for config c: getMQTTOptions fails for an unusable URL, and
\* StartRemote returns its error.
NewBroker(c) ==
    /\ main' = IF ParseBrokerURL(c.broker) THEN "connect" ELSE "ended"
    /\ attempts' = 0
    /\ link' = "down" /\ subscribed' = FALSE /\ maps' = FALSE

\* connectWithRetry: client.Connect().
Connect ==
    /\ main = "connect"
    /\ link = "down"
    /\ link' = "dialing"
    /\ UNCHANGED <<fileVars, reloadVars, mainVars, subscribed, maps>>

LinkComesUp ==
    /\ Alive
    /\ link = "dialing"
    /\ conf.content.broker.host \notin Away
    /\ link' = "up"
    /\ UNCHANGED <<fileVars, reloadVars, mainVars, subscribed, maps>>

\* for attempt := 1; attempt <= maxRetries; attempt++
OneMoreAttempt(n) == n > MaxRetries
LastAttempt(n)    == n = MaxRetries

\* The attempt fails, or times out and leaves paho at it; the last one ends
\* the process.
AttemptFails ==
    /\ main = "connect"
    /\ link = "dialing"
    /\ attempts' = attempts + 1
    /\ main' = IF LastAttempt(attempts') THEN "ended" ELSE "connect"
    /\ link' \in IF SlowConnect THEN {"down", "dialing"} ELSE {"down"}
    /\ UNCHANGED <<fileVars, reloadVars, conf, keepalive, started, subscribed, maps>>

AttemptSucceeds ==
    /\ main = "connect"
    /\ link = "up"
    /\ main' = "maps"
    /\ UNCHANGED <<fileVars, reloadVars, conf, keepalive, started, attempts, linkVars>>

\* onConnect in a goroutine of paho: subscribe() takes a round trip, the main
\* goroutine's return from Connect does not.
OnConnect ==
    /\ Alive
    /\ link = "up" /\ ~subscribed
    /\ SlowConnect \/ maps
    /\ subscribed' = TRUE
    /\ UNCHANGED <<fileVars, reloadVars, mainVars, link, maps>>

SetTunnelMaps ==
    /\ main = "maps"
    /\ maps' = TRUE
    /\ main' = IF started THEN "select" ELSE "watch"
    /\ UNCHANGED <<fileVars, reloadVars, conf, keepalive, started, attempts, link, subscribed>>

\* NewConfigReloader, Start, StartRemote.
Watch ==
    /\ main = "watch"
    /\ watched' = TRUE
    /\ started' = TRUE
    /\ main' = "select"
    /\ UNCHANGED <<file, unseen, events, reloadVars, conf, keepalive, attempts, linkVars>>

\* The reload branch of StartRemote: closeAllTunnels, Disconnect, a new broker
\* object.
TakeNewest == conf' = reloadCh[Len(reloadCh)] /\ reloadCh' = Front(reloadCh)
TakeReload == conf' = Head(reloadCh) /\ reloadCh' = Tail(reloadCh)

Reload ==
    /\ main = "select"
    /\ reloadCh # <<>>
    /\ TakeReload
    /\ keepalive' = ReloadKeepalive(conf'.content)
    /\ NewBroker(conf'.content)
    /\ UNCHANGED <<fileVars, timer, callbacks, started>>

-----------------------------------------------------------------------------
Reloader == WatchEvent \/ TimerFires \/ CallbackReads \/ CallbackSends
Main     == Connect \/ AttemptFails \/ AttemptSucceeds \/ SetTunnelMaps \/ Watch \/ Reload

Next == Edit \/ Retarget \/ Reloader \/ Main \/ LinkComesUp \/ OnConnect

Spec == Init /\ [][Next]_vars

\* The goroutines run.  Nothing is assumed of the user; whether an attempt
\* succeeds is not assumed either, only that it ends.
Fairness ==
    /\ WF_vars(WatchEvent) /\ WF_vars(TimerFires)
    /\ WF_vars(CallbackReads) /\ WF_vars(CallbackSends)
    /\ WF_vars(Main)

-----------------------------------------------------------------------------
(***************************************************************************)
(* Safety.                                                                 *)
(***************************************************************************)

\* No server runs with a broker URL or a topic it cannot use: what the reload
\* callback lets through unchecked ends the process in getMQTTOptions, before a
\* connection is tried with it.
InUseUsable ==
    Alive => /\ conf.content.json
             /\ ParseBrokerURL(conf.content.broker)
             /\ ValidateTopic(conf.content.topic)

\* "Continuing with current config" (main.go:443, 471, 476, 481): the server
\* never works with a config that main() would have refused at the start.
InUseAcceptable == StartAccepts(conf.content)

\* A reloaded config leads to the keepalive it would have after a restart: the
\* two sets of defaults (main.go:350-370 and 459-467) agree.
SameAsRestart == InForce(keepalive) = InForce(StartKeepalive(conf.content))

\* A config that disables the MQTT keepalive gets none: "set 0 or negative to
\* disable" (README.md:217).
DisableDisables ==
    conf.content.mqttKeepalive <= 0 => InForce(keepalive).mqtt >= Off

\* A reload never brings an older config back, however edits, debounce timer,
\* callbacks and waiting senders interleave.
NeverGoesBack == [][conf'.edit >= conf.edit]_vars

\* No control packet reaches the filter of a broker object before the object
\* has the maps the filter reads (mqtt.go:387, 395): the pointers are nil.
MapsSetInTime == subscribed => maps

\* A process that gives up has no newer config waiting that might have saved it.
GivesUpLast == main = "ended" => reloadCh = <<>>

(***************************************************************************)
(* Liveness.                                                               *)
(***************************************************************************)
Settled == conf = file \/ ~ReloadAccepts(file.content) \/ main = "ended"

\* The last change of the file that somebody watched is in use in the end,
\* if it is acceptable and the process does not end.
LatestConfigWins == <>[](Settled \/ unseen)

\* "The config is reloaded automatically" (README.md:139): every change of the
\* file is in the end, changes before watcher.Add and through a symbolic link
\* included.
EditNoticed == <>[]Settled
=============================================================================
