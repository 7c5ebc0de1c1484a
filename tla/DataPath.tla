------------------------------ MODULE DataPath ------------------------------
(***************************************************************************)
(* The data of one tunnel: from the program at one end (ssh on the stdin   *)
(* and stdout of the client, sshd behind the server's TCP connection)      *)
(* through handleRead, publishCh, mainLoop, the broker, the router, the    *)
(* other mainLoop and handleWrite to the program at the other end, in both *)
(* directions, together with the closed packet that travels with it.       *)
(*                                                                         *)
(* The model starts when the server has dialled (StartConfirmedTunnel) and *)
(* the client waits for the PUBACK of its connect_confirm: both ends are   *)
(* subscribed.  Chunk n of a stream is the number n.                       *)
(*                                                                         *)
(* As in TunnelProtocol, an operator used nowhere is a faulty variant of   *)
(* the one that follows it.                                                *)
(***************************************************************************)
EXTENDS Naturals, Sequences

CONSTANTS
    ClientChunks,   \* bound: chunks the program at the client sends
    ServerChunks,   \* bound: chunks the target sends
    PubCap,         \* capacity of publishCh (40960 in the code)
    WriteCap,       \* capacity of writeCh (40960 in the code)
    MaxLinkLoss     \* bound: losses of the server's MQTT connection

ASSUME BoundAssumption ==
    /\ ClientChunks \in Nat /\ ServerChunks \in Nat
    /\ PubCap \in Nat \ {0}
    /\ WriteCap \in Nat \ {0}
    /\ MaxLinkLoss \in Nat

Ends == {"client", "server"}
MaxChunks == [client |-> ClientChunks, server |-> ServerChunks]
Other(e) == IF e = "client" THEN "server" ELSE "client"

\* What travels to an end: chunks of data, and the closed packet.
Closed == 0
NoChunk == 0
Chunks == Nat \ {NoChunk}

VARIABLES
    produced,       \* chunks the program at this end has sent
    ended,          \* that program has ended its stream
    reader,         \* handleRead: "run", "closing" (it has closed publishCh), "done"
    read,           \* chunks handleRead has read
    publishCh,      \* chunks read and not yet taken by mainLoop
    loop,           \* mainLoop: "off", "select", "publish", "write", "done", "left"
    hand,           \* the chunk mainLoop publishes or writes
    inbox,          \* what the broker has yet to hand over to this end
    routing,        \* the chunk onMessage is sending to writeCh
    writeCh,        \* chunks routed and not yet taken by mainLoop
    written,        \* chunks handleWrite has written to the program
    conn,           \* this end's connection to its program: "open", "closed"
    main,           \* main loop of the process: "busy", "select", "gone"
    registered,     \* the tunnel is in the connected map
    controlCh,      \* a closed packet waits for the main loop
    closedByRemote,
    signal,         \* tunnelDoneCh of the client, tunnelClosedCh of the server
    subscribed,     \* the tunnel's topic is in tunnelTopics
    link,           \* the server's MQTT connection: "up" or "down"
    losses,         \* how often it was lost
    lostSignal      \* onMqttConnectionLost has yet to reach the main loop

readVars   == <<produced, ended, reader, read>>
loopVars   == <<loop, hand>>
routeVars  == <<routing, controlCh>>
connVars   == <<conn, closedByRemote>>
mainVars   == <<main, registered, signal>>
linkVars   == <<link, losses, lostSignal>>
vars == <<readVars, publishCh, loopVars, inbox, routeVars, writeCh, written, connVars, mainVars,
          subscribed, linkVars>>

ReadTyped ==
    /\ produced \in [Ends -> Nat] /\ read \in [Ends -> Nat]
    /\ \A e \in Ends : read[e] <= produced[e] /\ produced[e] <= MaxChunks[e]
    /\ ended \in [Ends -> BOOLEAN]
    /\ reader \in [Ends -> {"run", "closing", "done"}]
    /\ publishCh \in [Ends -> Seq(Chunks)]
    /\ \A e \in Ends : Len(publishCh[e]) <= PubCap
LoopTyped ==
    /\ loop \in [Ends -> {"off", "select", "publish", "write", "done", "left"}]
    /\ hand \in [Ends -> Nat]
    /\ \A e \in Ends : hand[e] # NoChunk <=> loop[e] \in {"publish", "write"}
    /\ main \in [Ends -> {"busy", "select", "gone"}]
    /\ main["client"] = "busy" => loop["client"] = "off"
RouteTyped ==
    /\ inbox \in [Ends -> Seq(Nat)]
    /\ routing \in [Ends -> Nat] /\ controlCh \in [Ends -> BOOLEAN]
    /\ writeCh \in [Ends -> Seq(Chunks)]
    /\ \A e \in Ends : Len(writeCh[e]) <= WriteCap
    /\ written \in [Ends -> Seq(Chunks)]
EndTyped ==
    /\ conn \in [Ends -> {"open", "closed"}]
    /\ registered \in [Ends -> BOOLEAN] /\ closedByRemote \in [Ends -> BOOLEAN]
    /\ signal \in [Ends -> BOOLEAN] /\ subscribed \in [Ends -> BOOLEAN]
LinkTyped ==
    link \in {"up", "down"} /\ losses \in 0..MaxLinkLoss /\ lostSignal \in BOOLEAN
TypeOK == ReadTyped /\ LoopTyped /\ RouteTyped /\ EndTyped /\ LinkTyped

\* The server's data loop runs and its main loop is about to put the tunnel
\* in connected; the client's loop starts when the PUBACK comes.
Init ==
    /\ produced = [e \in Ends |-> 0] /\ read = [e \in Ends |-> 0]
    /\ ended = [e \in Ends |-> FALSE]
    /\ reader = [e \in Ends |-> "run"]
    /\ publishCh = [e \in Ends |-> <<>>]
    /\ loop = [e \in Ends |-> IF e = "server" THEN "select" ELSE "off"]
    /\ hand = [e \in Ends |-> NoChunk]
    /\ inbox = [e \in Ends |-> <<>>]
    /\ routing = [e \in Ends |-> NoChunk]
    /\ writeCh = [e \in Ends |-> <<>>]
    /\ written = [e \in Ends |-> <<>>]
    /\ conn = [e \in Ends |-> "open"]
    /\ main = [e \in Ends |-> "busy"]
    /\ registered = [e \in Ends |-> FALSE]
    /\ controlCh = [e \in Ends |-> FALSE]
    /\ closedByRemote = [e \in Ends |-> FALSE]
    /\ signal = [e \in Ends |-> FALSE]
    /\ subscribed = [e \in Ends |-> TRUE]
    /\ link = "up" /\ losses = 0 /\ lostSignal = FALSE

Alive(e) == main[e] # "gone"

-----------------------------------------------------------------------------
(***************************************************************************)
(* The programs at the ends.                                               *)
(***************************************************************************)
Produce(e) ==
    /\ ~ended[e]
    /\ produced[e] < MaxChunks[e]
    /\ produced' = [produced EXCEPT ![e] = @ + 1]
    /\ UNCHANGED <<ended, reader, read, publishCh, loopVars, inbox, routeVars, writeCh, written,
                   connVars, mainVars, subscribed, linkVars>>

\* End of stdin, or the target closes the connection.
SourceEnds(e) ==
    /\ ~ended[e]
    /\ ended' = [ended EXCEPT ![e] = TRUE]
    /\ UNCHANGED <<produced, reader, read, publishCh, loopVars, inbox, routeVars, writeCh, written,
                   connVars, mainVars, subscribed, linkVars>>

-----------------------------------------------------------------------------
(***************************************************************************)
(* handleRead.  A blocked read of the TCP connection returns when it is    *)
(* closed; a blocked read of stdin does not, and readClosed is looked at   *)
(* only by the read after it.                                              *)
(***************************************************************************)
ReadClosed(e) == conn[e] = "closed" /\ e = "server"

Room(e) == Len(publishCh[e]) < PubCap

\* Read returns a chunk without an error.
ReadChunk(e) ==
    /\ Alive(e)
    /\ reader[e] = "run" /\ ~ReadClosed(e)
    /\ read[e] < produced[e]
    /\ Room(e)
    /\ read' = [read EXCEPT ![e] = @ + 1]
    /\ publishCh' = [publishCh EXCEPT ![e] = Append(@, read[e] + 1)]
    /\ reader' = [reader EXCEPT ![e] = IF conn[e] = "closed" THEN "closing" ELSE @]
    /\ UNCHANGED <<produced, ended, loopVars, inbox, routeVars, writeCh, written, connVars, mainVars,
                   subscribed, linkVars>>

\* Read returns an error, perhaps with the last chunk: "if n > 0".
LastChunkUnchecked(e) == ended[e] /\ Room(e)
LastChunk(e) == ended[e] /\ read[e] + 1 = produced[e] /\ Room(e)
PassLastLost(e) == read' = [read EXCEPT ![e] = @ + 1] /\ UNCHANGED publishCh
PassLastStale(e) ==
    /\ UNCHANGED read
    /\ publishCh' = [publishCh EXCEPT ![e] = Append(@, read[e])]
PassLast(e) ==
    /\ read' = [read EXCEPT ![e] = @ + 1]
    /\ publishCh' = [publishCh EXCEPT ![e] = Append(@, read[e] + 1)]

\* handleRead closes publishCh ...
ReadEnds(e) ==
    /\ Alive(e)
    /\ reader[e] = "run"
    /\ \/ /\ ReadClosed(e) \/ (ended[e] /\ read[e] = produced[e])
          /\ UNCHANGED <<read, publishCh>>
       \/ ~ReadClosed(e) /\ LastChunk(e) /\ PassLast(e)
    /\ reader' = [reader EXCEPT ![e] = "closing"]
    /\ UNCHANGED <<produced, ended, loopVars, inbox, routeVars, writeCh, written, connVars, mainVars,
                   subscribed, linkVars>>

\* ... and, deferred, the connection, for both directions.
ReaderCloses(e) ==
    /\ Alive(e)
    /\ reader[e] = "closing"
    /\ reader' = [reader EXCEPT ![e] = "done"]
    /\ conn' = [conn EXCEPT ![e] = "closed"]
    /\ UNCHANGED <<produced, ended, read, publishCh, loopVars, inbox, routeVars, writeCh, written,
                   closedByRemote, mainVars, subscribed, linkVars>>

-----------------------------------------------------------------------------
(***************************************************************************)
(* mainLoop: one goroutine, so it neither publishes while a write blocks   *)
(* nor writes while a publish does.                                        *)
(***************************************************************************)
InLoop(e, pc) == Alive(e) /\ loop[e] = pc

LoopTakes(e) ==
    /\ InLoop(e, "select")
    /\ publishCh[e] # <<>>
    /\ hand' = [hand EXCEPT ![e] = Head(publishCh[e])]
    /\ publishCh' = [publishCh EXCEPT ![e] = Tail(@)]
    /\ loop' = [loop EXCEPT ![e] = "publish"]
    /\ UNCHANGED <<readVars, inbox, routeVars, writeCh, written, connVars, mainVars, subscribed, linkVars>>

\* QoS 0: what is published while the server is away from the broker, or to
\* a process that has exited, is gone.
Publish(e, m) ==
    inbox' = IF link = "up" /\ Alive(Other(e)) THEN [inbox EXCEPT ![Other(e)] = Append(@, m)] ELSE inbox

LoopPublishes(e) ==
    /\ InLoop(e, "publish")
    /\ Publish(e, hand[e])
    /\ hand' = [hand EXCEPT ![e] = NoChunk]
    /\ loop' = [loop EXCEPT ![e] = "select"]
    /\ UNCHANGED <<readVars, publishCh, routeVars, writeCh, written, connVars, mainVars, subscribed, linkVars>>

LoopReceives(e) ==
    /\ InLoop(e, "select")
    /\ writeCh[e] # <<>>
    /\ hand' = [hand EXCEPT ![e] = Head(writeCh[e])]
    /\ writeCh' = [writeCh EXCEPT ![e] = Tail(@)]
    /\ loop' = [loop EXCEPT ![e] = "write"]
    /\ UNCHANGED <<readVars, publishCh, inbox, routeVars, written, connVars, mainVars, subscribed, linkVars>>

\* handleWrite.  An error (the connection is closed) is logged and the loop
\* goes on.
AcceptsAnyway(e) == TRUE
Accepts(e) == conn[e] = "open"

LoopWrites(e) ==
    /\ InLoop(e, "write")
    /\ written' = IF Accepts(e) THEN [written EXCEPT ![e] = Append(@, hand[e])] ELSE written
    /\ hand' = [hand EXCEPT ![e] = NoChunk]
    /\ loop' = [loop EXCEPT ![e] = "select"]
    /\ UNCHANGED <<readVars, publishCh, inbox, routeVars, writeCh, connVars, mainVars, subscribed, linkVars>>

\* tunnelDoneCh of the client "(bypasses MQTT)", tunnelClosedCh of the server.
EndSignalServerOnly(e) == signal' = [signal EXCEPT ![e] = @ \/ e = "server"]
EndSignal(e) == signal' = [signal EXCEPT ![e] = TRUE]

\* publishCh is closed and empty: tell the other end unless it told us,
\* signal the main loop, leave.  What is left in writeCh stays there.
LoopEnds(e) ==
    /\ InLoop(e, "select")
    /\ reader[e] # "run" /\ publishCh[e] = <<>>
    /\ IF closedByRemote[e] THEN UNCHANGED inbox ELSE Publish(e, Closed)
    /\ EndSignal(e)
    /\ loop' = [loop EXCEPT ![e] = "done"]
    /\ UNCHANGED <<readVars, publishCh, hand, routeVars, writeCh, written, connVars, main, registered,
                   subscribed, linkVars>>

\* The deferred unsubscribe, tried once: without an answer, or away from the
\* broker, the topic stays in tunnelTopics.
Unsubscribe(e) ==
    /\ InLoop(e, "done")
    /\ loop' = [loop EXCEPT ![e] = "left"]
    /\ \/ (e = "server" => link = "up") /\ subscribed' = [subscribed EXCEPT ![e] = FALSE]
       \/ UNCHANGED subscribed
    /\ UNCHANGED <<readVars, publishCh, hand, inbox, routeVars, writeCh, written, connVars, mainVars,
                   linkVars>>

-----------------------------------------------------------------------------
(***************************************************************************)
(* onMessage: one goroutine for all messages of a process.  It finds the   *)
(* tunnel of a data message in tunnelTopics, then waits for room in its    *)
(* writeCh.                                                                *)
(***************************************************************************)
Arrives(e) == Alive(e) /\ routing[e] = NoChunk /\ inbox[e] # <<>>

RouteData(e) ==
    /\ Arrives(e)
    /\ Head(inbox[e]) # Closed
    /\ inbox' = [inbox EXCEPT ![e] = Tail(@)]
    /\ routing' = [routing EXCEPT ![e] = IF subscribed[e] THEN Head(inbox[e]) ELSE NoChunk]
    /\ UNCHANGED <<readVars, publishCh, loopVars, controlCh, writeCh, written, connVars, mainVars,
                   subscribed, linkVars>>

\* tun.writeCh <- msg.Payload() blocks; safeSend would not.
HandOnOrDrop(e) ==
    /\ routing[e] # NoChunk
    /\ writeCh' = IF Len(writeCh[e]) < WriteCap THEN [writeCh EXCEPT ![e] = Append(@, routing[e])] ELSE writeCh
HandOn(e) ==
    /\ routing[e] # NoChunk
    /\ Len(writeCh[e]) < WriteCap
    /\ writeCh' = [writeCh EXCEPT ![e] = Append(@, routing[e])]

RouterWrites(e) ==
    /\ Alive(e)
    /\ HandOn(e)
    /\ routing' = [routing EXCEPT ![e] = NoChunk]
    /\ UNCHANGED <<readVars, publishCh, loopVars, inbox, controlCh, written, connVars, mainVars,
                   subscribed, linkVars>>

\* The filter of controlPacketReceived: a client knows its tunnel already
\* from ackWaiting.
Known(e) == registered[e] \/ (e = "client" /\ main[e] = "busy")

RouteClosed(e) ==
    /\ Arrives(e)
    /\ Head(inbox[e]) = Closed
    /\ inbox' = [inbox EXCEPT ![e] = Tail(@)]
    /\ controlCh' = [controlCh EXCEPT ![e] = @ \/ Known(e)]
    /\ UNCHANGED <<readVars, publishCh, loopVars, routing, writeCh, written, connVars, mainVars,
                   subscribed, linkVars>>

-----------------------------------------------------------------------------
(***************************************************************************)
(* The main loops of the two processes.                                    *)
(***************************************************************************)

StartLoop(e) == IF e = "client" THEN "select" ELSE loop[e]

Start(e) ==
    /\ main[e] = "busy"
    /\ main' = [main EXCEPT ![e] = "select"]
    /\ registered' = [registered EXCEPT ![e] = TRUE]
    /\ loop' = [loop EXCEPT ![e] = StartLoop(e)]
    /\ UNCHANGED <<readVars, publishCh, hand, inbox, routeVars, writeCh, written, connVars, signal,
                   subscribed, linkVars>>

\* closed: "Explicitly close TCP connection"; a client signals tunnelDoneCh
\* whether or not it knows the tunnel.
ClosedSignalOmitted(e) == signal' = signal
ClosedSignal(e) == signal' = [signal EXCEPT ![e] = @ \/ e = "client"]

HandleClosed(e) ==
    /\ main[e] = "select"
    /\ controlCh[e]
    /\ controlCh' = [controlCh EXCEPT ![e] = FALSE]
    /\ registered' = [registered EXCEPT ![e] = FALSE]
    /\ IF registered[e] THEN /\ conn' = [conn EXCEPT ![e] = "closed"]
                             /\ closedByRemote' = [closedByRemote EXCEPT ![e] = TRUE]
                        ELSE UNCHANGED connVars
    /\ ClosedSignal(e)
    /\ UNCHANGED <<readVars, publishCh, loopVars, inbox, routing, writeCh, written, main, subscribed, linkVars>>

\* tunnelDoneCh: the client process ends.
ClientReturns ==
    /\ main' = [main EXCEPT !["client"] = "gone"]
    /\ inbox' = [inbox EXCEPT !["client"] = <<>>]
    /\ UNCHANGED registered

\* tunnelClosedCh: the tunnel leaves connected.
ServerForgets ==
    /\ registered' = [registered EXCEPT !["server"] = FALSE]
    /\ UNCHANGED <<main, inbox>>

TakeSignal(e) ==
    /\ main[e] = "select"
    /\ signal[e]
    /\ signal' = [signal EXCEPT ![e] = FALSE]
    /\ IF e = "client" THEN ClientReturns ELSE ServerForgets
    /\ UNCHANGED <<readVars, publishCh, loopVars, routeVars, writeCh, written, connVars, subscribed, linkVars>>

-----------------------------------------------------------------------------
(***************************************************************************)
(* The server's MQTT connection is lost and comes back.                    *)
(***************************************************************************)
LinkLost ==
    /\ link = "up"
    /\ losses < MaxLinkLoss
    /\ link' = "down" /\ losses' = losses + 1 /\ lostSignal' = TRUE
    /\ inbox' = [inbox EXCEPT !["server"] = <<>>]
    /\ UNCHANGED <<readVars, publishCh, loopVars, routeVars, writeCh, written, connVars, mainVars, subscribed>>

\* onConnect subscribes to everything in tunnelTopics.
LinkUp ==
    /\ link = "down"
    /\ link' = "up"
    /\ UNCHANGED <<readVars, publishCh, loopVars, inbox, routeVars, writeCh, written, connVars, mainVars,
                   subscribed, losses, lostSignal>>

\* closeAllTunnels empties connected and cancels a context no one watches,
\* unless the signal finds the main loop busy.
CloseAllTunnels ==
    /\ lostSignal
    /\ lostSignal' = FALSE
    /\ \/ registered' = [registered EXCEPT !["server"] = FALSE] /\ main["server"] = "select"
       \/ UNCHANGED registered
    /\ UNCHANGED <<readVars, publishCh, loopVars, inbox, routeVars, writeCh, written, connVars, main, signal,
                   subscribed, link, losses>>

-----------------------------------------------------------------------------
Reader(e) == ReadChunk(e) \/ ReadEnds(e) \/ ReaderCloses(e)
Loop(e)   == LoopTakes(e) \/ LoopPublishes(e) \/ LoopReceives(e) \/ LoopWrites(e) \/ LoopEnds(e) \/ Unsubscribe(e)
Router(e) == RouteData(e) \/ RouterWrites(e) \/ RouteClosed(e)
Main(e)   == Start(e) \/ HandleClosed(e) \/ TakeSignal(e)

Next ==
    \/ \E e \in Ends : Produce(e) \/ SourceEnds(e) \/ Reader(e) \/ Loop(e) \/ Router(e) \/ Main(e)
    \/ LinkLost \/ LinkUp \/ CloseAllTunnels

Spec == Init /\ [][Next]_vars

(***************************************************************************)
(* Goroutines that can run do run; which ready case of its select a loop   *)
(* takes is left open.  The programs read what is written to them.         *)
(***************************************************************************)
FairSpec ==
    /\ Spec
    /\ \A e \in Ends : WF_vars(Reader(e)) /\ WF_vars(Loop(e)) /\ WF_vars(Router(e)) /\ WF_vars(Main(e))
    /\ WF_vars(LinkUp)

-----------------------------------------------------------------------------
(***************************************************************************)
(* Safety.                                                                 *)
(***************************************************************************)

\* The program at one end has got a prefix of what the other one sent: what
\* the channels lose when a tunnel ends is its tail, never a part in between.
StreamIntact ==
    \A e \in Ends :
        /\ Len(written[e]) <= produced[Other(e)]
        /\ \A n \in 1..Len(written[e]) : written[e][n] = n

\* The same promise as a refinement: each direction is a Pipe that is cut when
\* the receiving end closes its connection.
P == INSTANCE Pipe WITH
        sent <- [e \in Ends |-> produced[Other(e)]],
        got  <- written,
        cut  <- [e \in Ends |-> conn[e] = "closed" \/ ~Alive(e)]
ImplementsPipe == P!PipeSpec

\* The same when the server's connection to the broker is lost on the way:
\* chunks may be missing then, but none arrives twice or after a later one.
StreamOrdered ==
    \A e \in Ends : \A m, n \in 1..Len(written[e]) : m < n => written[e][m] < written[e][n]

\* The closed packet of an end is behind all data that end has read: its
\* handleRead passes on the last chunk before it closes publishCh, and mainLoop
\* empties publishCh before it says closed.
ClosedAfterData ==
    \A e \in Ends :
        loop[e] \in {"done", "left"} =>
            /\ publishCh[e] = <<>>
            /\ \A i \in 1..Len(inbox[Other(e)]) : inbox[Other(e)][i] = Closed =>
                  /\ i = Len(inbox[Other(e)])
                  /\ i > 1 => inbox[Other(e)][i - 1] = read[e]

\* "writeCh writes a payload from MQTT Broker to local connection" (tunnel.go:44):
\* when the client ends because the target has, it has written all that the
\* server read from the target.
TailDelivered ==
    ~Alive("client") /\ ~ended["client"] => Len(written["client"]) = read["server"]

(***************************************************************************)
(* Liveness.                                                               *)
(***************************************************************************)


\* When the target closes the connection the client process ends, whatever
\* data the closed packet has to follow through the router, unless the closed
\* packet is lost with the server's connection to the broker.
TargetEndReachesClient == ended["server"] ~> (~Alive("client") \/ losses > 0)

\* When its stdin ends the client process ends, with or without a server that
\* can be told, and whatever its router waits for.
StdinEndEndsClient == ended["client"] ~> ~Alive("client")

\* The router, which hands over the control packets of every tunnel too, does
\* not wait for ever on the writeCh of one: "Buffered to prevent deadlock
\* during high message volume" (mqtunnel.go:43).
RouterGoesOn == \A e \in Ends : routing[e] # NoChunk ~> (routing[e] = NoChunk \/ ~Alive(e))
=============================================================================
