-------------------------- MODULE DataPath_proofs --------------------------
(***************************************************************************)
(* What becomes of a byte stream on its way through a tunnel, for every    *)
(* value of the constants: types, order, completeness, and the Pipe that   *)
(* each direction implements.                                              *)
(***************************************************************************)
EXTENDS DataPath, Integers, TLAPS

-----------------------------------------------------------------------------
(* The two ends, and queues. *)

LEMMA EndsFacts ==
    /\ "client" \in Ends /\ "server" \in Ends
    /\ \A e \in Ends : /\ e = "client" \/ e = "server"
                       /\ Other(e) \in Ends /\ Other(e) # e /\ Other(Other(e)) = e
                       /\ \A f \in Ends : f = e \/ f = Other(e)
                       /\ MaxChunks[e] \in Nat
  BY BoundAssumption DEF Ends, Other, MaxChunks

LEMMA UpdateType ==
    ASSUME NEW R, NEW f \in [Ends -> R], NEW e \in Ends, NEW v \in R
    PROVE  [f EXCEPT ![e] = v] \in [Ends -> R]
  OBVIOUS

-----------------------------------------------------------------------------
(* Types. *)

LEMMA PartsKept ==
    /\ ReadTyped /\ UNCHANGED <<readVars, publishCh>> => ReadTyped'
    /\ LoopTyped /\ UNCHANGED <<loopVars, main>> => LoopTyped'
    /\ RouteTyped /\ UNCHANGED <<inbox, routeVars, writeCh, written>> => RouteTyped'
    /\ EndTyped /\ UNCHANGED <<connVars, registered, signal, subscribed>> => EndTyped'
    /\ LinkTyped /\ UNCHANGED linkVars => LinkTyped'
  BY DEF ReadTyped, LoopTyped, RouteTyped, EndTyped, LinkTyped, readVars, loopVars, routeVars, connVars, linkVars

LEMMA PublishTyped ==
    ASSUME TypeOK, NEW e \in Ends, NEW m \in Nat, Publish(e, m)
    PROVE  inbox' \in [Ends -> Seq(Nat)]
  <1>1. inbox \in [Ends -> Seq(Nat)] /\ Other(e) \in Ends
    BY EndsFacts DEF TypeOK, RouteTyped
  <1>2. Append(inbox[Other(e)], m) \in Seq(Nat)
    BY <1>1
  <1> QED
    BY <1>1, <1>2 DEF Publish

LEMMA ProgramTypes ==
    ASSUME TypeOK, NEW e \in Ends, Produce(e) \/ SourceEnds(e)
    PROVE  TypeOK'
  <1>1. CASE Produce(e)
    <2>1. ReadTyped'
      <3>1. produced[e] + 1 \in Nat /\ produced[e] + 1 <= MaxChunks[e] /\ read[e] <= produced[e] + 1
        BY <1>1, EndsFacts DEF Produce, TypeOK, ReadTyped
      <3> QED
        BY <1>1, <3>1 DEF Produce, TypeOK, ReadTyped, readVars
    <2>2. UNCHANGED <<loopVars, main, inbox, routeVars, writeCh, written, connVars, registered, signal, subscribed, linkVars>>
      BY <1>1 DEF Produce, readVars, loopVars, routeVars, connVars, mainVars, linkVars
    <2> QED
      BY <2>1, <2>2, PartsKept DEF TypeOK
  <1>2. CASE SourceEnds(e)
    <2>1. ReadTyped'
      BY <1>2 DEF SourceEnds, TypeOK, ReadTyped, readVars
    <2>2. UNCHANGED <<loopVars, main, inbox, routeVars, writeCh, written, connVars, registered, signal, subscribed, linkVars>>
      BY <1>2 DEF SourceEnds, readVars, loopVars, routeVars, connVars, mainVars, linkVars
    <2> QED
      BY <2>1, <2>2, PartsKept DEF TypeOK
  <1> QED
    BY <1>1, <1>2

LEMMA ReaderTypes ==
    ASSUME TypeOK, NEW e \in Ends, Reader(e)
    PROVE  TypeOK'
  <1>1. CASE ReadChunk(e)
    <2>1. ReadTyped'
      <3>1. /\ Append(publishCh[e], read[e] + 1) \in Seq(Chunks)
          /\ Len(Append(publishCh[e], read[e] + 1)) <= PubCap
          /\ read[e] + 1 \in Nat /\ read[e] + 1 <= produced[e]
        BY <1>1, EndsFacts, BoundAssumption DEF ReadChunk, Room, TypeOK, ReadTyped, Chunks, NoChunk, Room
      <3> QED
        BY <1>1, <3>1 DEF ReadChunk, Room, TypeOK, ReadTyped, readVars
    <2>2. UNCHANGED <<loopVars, main, inbox, routeVars, writeCh, written, connVars, registered, signal, subscribed, linkVars>>
      BY <1>1 DEF ReadChunk, Room, readVars, loopVars, routeVars, connVars, mainVars, linkVars
    <2> QED
      BY <2>1, <2>2, PartsKept DEF TypeOK
  <1>2. CASE ReadEnds(e)
    <2>1. ReadTyped'
      <3>1. /\ LastChunk(e) => /\ Append(publishCh[e], read[e] + 1) \in Seq(Chunks)
                           /\ Len(Append(publishCh[e], read[e] + 1)) <= PubCap
                           /\ read[e] + 1 \in Nat /\ read[e] + 1 <= produced[e]
        BY <1>2, EndsFacts, BoundAssumption DEF ReadEnds, TypeOK, ReadTyped, Chunks, NoChunk, Room, LastChunk
      <3> QED
        BY <1>2, <3>1 DEF ReadEnds, PassLast, TypeOK, ReadTyped, readVars
    <2>2. UNCHANGED <<loopVars, main, inbox, routeVars, writeCh, written, connVars, registered, signal, subscribed, linkVars>>
      BY <1>2 DEF ReadEnds, PassLast, readVars, loopVars, routeVars, connVars, mainVars, linkVars
    <2> QED
      BY <2>1, <2>2, PartsKept DEF TypeOK
  <1>3. CASE ReaderCloses(e)
    <2>1. ReadTyped'
      BY <1>3 DEF ReaderCloses, TypeOK, ReadTyped, readVars
    <2>2. EndTyped'
      BY <1>3 DEF ReaderCloses, TypeOK, EndTyped, connVars, mainVars
    <2>3. UNCHANGED <<loopVars, main, inbox, routeVars, writeCh, written, linkVars>>
      BY <1>3 DEF ReaderCloses, readVars, loopVars, routeVars, connVars, mainVars, linkVars
    <2> QED
      BY <2>1, <2>2, <2>3, PartsKept DEF TypeOK
  <1> QED
    BY <1>1, <1>2, <1>3 DEF Reader

LEMMA LoopTypes ==
    ASSUME TypeOK, NEW e \in Ends, Loop(e)
    PROVE  TypeOK'
  <1>1. CASE LoopTakes(e)
    <2>1. ReadTyped'
      <3>1. Tail(publishCh[e]) \in Seq(Chunks) /\ Len(Tail(publishCh[e])) <= PubCap
        BY <1>1, BoundAssumption DEF LoopTakes, InLoop, TypeOK, ReadTyped
      <3> QED
        BY <1>1, <3>1 DEF LoopTakes, InLoop, TypeOK, ReadTyped, readVars
    <2>2. LoopTyped'
      <3>1. Head(publishCh[e]) \in Nat /\ Head(publishCh[e]) # NoChunk
        BY <1>1 DEF LoopTakes, TypeOK, ReadTyped, Chunks
      <3> QED
        BY <1>1, <3>1 DEF LoopTakes, InLoop, TypeOK, LoopTyped, loopVars, mainVars, NoChunk
    <2>3. UNCHANGED <<inbox, routeVars, writeCh, written, connVars, registered, signal, subscribed, linkVars>>
      BY <1>1 DEF LoopTakes, InLoop, readVars, loopVars, routeVars, connVars, mainVars, linkVars
    <2> QED
      BY <2>1, <2>2, <2>3, PartsKept DEF TypeOK
  <1>2. CASE LoopPublishes(e)
    <2>1. LoopTyped'
      BY <1>2 DEF LoopPublishes, InLoop, TypeOK, LoopTyped, loopVars, mainVars, NoChunk
    <2>2. RouteTyped'
      <3>1. inbox' \in [Ends -> Seq(Nat)]
        BY <1>2, PublishTyped DEF LoopPublishes, InLoop, TypeOK, RouteTyped, LoopTyped
      <3> QED
        BY <1>2, <3>1 DEF LoopPublishes, InLoop, TypeOK, RouteTyped, routeVars, loopVars
    <2>3. UNCHANGED <<readVars, publishCh, connVars, registered, signal, subscribed, linkVars>>
      BY <1>2 DEF LoopPublishes, InLoop, readVars, loopVars, routeVars, connVars, mainVars, linkVars
    <2> QED
      BY <2>1, <2>2, <2>3, PartsKept DEF TypeOK
  <1>3. CASE LoopReceives(e)
    <2>1. LoopTyped'
      <3>1. Head(writeCh[e]) \in Nat /\ Head(writeCh[e]) # NoChunk
        BY <1>3 DEF LoopReceives, InLoop, TypeOK, LoopTyped, Chunks, RouteTyped
      <3> QED
        BY <1>3, <3>1 DEF LoopReceives, InLoop, TypeOK, LoopTyped, loopVars, mainVars, NoChunk
    <2>2. RouteTyped'
      <3>1. Tail(writeCh[e]) \in Seq(Chunks) /\ Len(Tail(writeCh[e])) <= WriteCap
        BY <1>3, BoundAssumption DEF LoopReceives, InLoop, TypeOK, RouteTyped
      <3> QED
        BY <1>3, <3>1 DEF LoopReceives, InLoop, TypeOK, RouteTyped, routeVars, loopVars
    <2>3. UNCHANGED <<readVars, publishCh, connVars, registered, signal, subscribed, linkVars>>
      BY <1>3 DEF LoopReceives, InLoop, readVars, loopVars, routeVars, connVars, mainVars, linkVars
    <2> QED
      BY <2>1, <2>2, <2>3, PartsKept DEF TypeOK
  <1>4. CASE LoopWrites(e)
    <2>1. LoopTyped'
      BY <1>4 DEF LoopWrites, InLoop, TypeOK, LoopTyped, loopVars, mainVars, NoChunk
    <2>2. RouteTyped'
      <3>1. Append(written[e], hand[e]) \in Seq(Chunks)
        BY <1>4 DEF LoopWrites, InLoop, TypeOK, RouteTyped, LoopTyped, Chunks
      <3> QED
        BY <1>4, <3>1 DEF LoopWrites, InLoop, TypeOK, RouteTyped, routeVars, loopVars
    <2>3. UNCHANGED <<readVars, publishCh, connVars, registered, signal, subscribed, linkVars>>
      BY <1>4 DEF LoopWrites, InLoop, readVars, loopVars, routeVars, connVars, mainVars, linkVars
    <2> QED
      BY <2>1, <2>2, <2>3, PartsKept DEF TypeOK
  <1>5. CASE LoopEnds(e)
    <2>1. LoopTyped'
      BY <1>5 DEF LoopEnds, InLoop, EndSignal, TypeOK, LoopTyped, loopVars, mainVars, NoChunk
    <2>2. RouteTyped'
      <3>1. inbox' \in [Ends -> Seq(Nat)]
        BY <1>5, PublishTyped DEF LoopEnds, InLoop, EndSignal, TypeOK, RouteTyped, Closed
      <3> QED
        BY <1>5, <3>1 DEF LoopEnds, InLoop, EndSignal, TypeOK, RouteTyped, routeVars, loopVars
    <2>3. EndTyped'
      BY <1>5 DEF LoopEnds, InLoop, EndSignal, TypeOK, EndTyped, connVars, mainVars
    <2>4. UNCHANGED <<readVars, publishCh, linkVars>>
      BY <1>5 DEF LoopEnds, InLoop, EndSignal, readVars, loopVars, routeVars, connVars, mainVars, linkVars
    <2> QED
      BY <2>1, <2>2, <2>3, <2>4, PartsKept DEF TypeOK
  <1>6. CASE Unsubscribe(e)
    <2>1. EndTyped'
      BY <1>6 DEF Unsubscribe, TypeOK, EndTyped, connVars, mainVars
    <2>2. LoopTyped'
      BY <1>6 DEF Unsubscribe, InLoop, TypeOK, LoopTyped, mainVars
    <2>3. UNCHANGED <<readVars, publishCh, inbox, routeVars, writeCh, written, linkVars>>
      BY <1>6 DEF Unsubscribe, readVars, routeVars, linkVars
    <2> QED
      BY <2>1, <2>2, <2>3, PartsKept DEF TypeOK
  <1> QED
    BY <1>1, <1>2, <1>3, <1>4, <1>5, <1>6 DEF Loop

LEMMA RouterTypes ==
    ASSUME TypeOK, NEW e \in Ends, Router(e)
    PROVE  TypeOK'
  <1>1. CASE RouteData(e)
    <2>1. RouteTyped'
      <3>1. Tail(inbox[e]) \in Seq(Nat) /\ Head(inbox[e]) \in Nat
        BY <1>1 DEF RouteData, TypeOK, RouteTyped, Arrives
      <3> QED
        BY <1>1, <3>1 DEF RouteData, TypeOK, RouteTyped, NoChunk
    <2>2. UNCHANGED <<readVars, publishCh, loopVars, main, connVars, registered, signal, subscribed, linkVars>>
      BY <1>1 DEF RouteData, readVars, loopVars, routeVars, connVars, mainVars, linkVars
    <2> QED
      BY <2>1, <2>2, PartsKept DEF TypeOK
  <1>2. CASE RouterWrites(e)
    <2>1. RouteTyped'
      <3>1. Append(writeCh[e], routing[e]) \in Seq(Chunks) /\ Len(Append(writeCh[e], routing[e])) <= WriteCap
        BY <1>2, BoundAssumption DEF RouterWrites, HandOn, TypeOK, RouteTyped, Chunks
      <3> QED
        BY <1>2, <3>1 DEF RouterWrites, HandOn, TypeOK, RouteTyped, NoChunk
    <2>2. UNCHANGED <<readVars, publishCh, loopVars, main, connVars, registered, signal, subscribed, linkVars>>
      BY <1>2 DEF RouterWrites, HandOn, readVars, loopVars, routeVars, connVars, mainVars, linkVars
    <2> QED
      BY <2>1, <2>2, PartsKept DEF TypeOK
  <1>3. CASE RouteClosed(e)
    <2>1. RouteTyped'
      <3>1. Tail(inbox[e]) \in Seq(Nat)
        BY <1>3 DEF RouteClosed, Known, TypeOK, RouteTyped, Arrives
      <3> QED
        BY <1>3, <3>1 DEF RouteClosed, Known, TypeOK, RouteTyped, routeVars, loopVars
    <2>2. UNCHANGED <<readVars, publishCh, loopVars, main, connVars, registered, signal, subscribed, linkVars>>
      BY <1>3 DEF RouteClosed, Known, readVars, loopVars, routeVars, connVars, mainVars, linkVars
    <2> QED
      BY <2>1, <2>2, PartsKept DEF TypeOK
  <1> QED
    BY <1>1, <1>2, <1>3 DEF Router

LEMMA MainTypes ==
    ASSUME TypeOK, NEW e \in Ends, Main(e)
    PROVE  TypeOK'
  <1>1. CASE Start(e)
    <2>1. LoopTyped'
      BY <1>1, EndsFacts DEF Start, StartLoop, TypeOK, LoopTyped, loopVars, mainVars, NoChunk
    <2>2. EndTyped'
      BY <1>1 DEF Start, StartLoop, TypeOK, EndTyped, connVars, mainVars
    <2>3. UNCHANGED <<readVars, publishCh, inbox, routeVars, writeCh, written, linkVars>>
      BY <1>1 DEF Start, StartLoop, readVars, loopVars, routeVars, connVars, mainVars, linkVars
    <2> QED
      BY <2>1, <2>2, <2>3, PartsKept DEF TypeOK
  <1>2. CASE HandleClosed(e)
    <2>1. RouteTyped'
      BY <1>2 DEF HandleClosed, ClosedSignal, TypeOK, RouteTyped, routeVars, loopVars
    <2>2. EndTyped'
      BY <1>2 DEF HandleClosed, ClosedSignal, TypeOK, EndTyped, connVars, mainVars
    <2>3. UNCHANGED <<readVars, publishCh, loopVars, main, linkVars>>
      BY <1>2 DEF HandleClosed, ClosedSignal, readVars, loopVars, routeVars, connVars, mainVars, linkVars
    <2> QED
      BY <2>1, <2>2, <2>3, PartsKept DEF TypeOK
  <1>3. CASE TakeSignal(e)
    <2>1. LoopTyped'
      BY <1>3, EndsFacts DEF TakeSignal, ClientReturns, ServerForgets, TypeOK, LoopTyped, loopVars, mainVars, NoChunk
    <2>2. RouteTyped'
      <3>1. <<>> \in Seq(Nat)
        OBVIOUS
      <3>2. inbox' = inbox \/ inbox' = [inbox EXCEPT !["client"] = <<>>]
        BY <1>3 DEF TakeSignal, ClientReturns, ServerForgets
      <3>3. inbox' \in [Ends -> Seq(Nat)]
        BY <3>1, <3>2 DEF TypeOK, RouteTyped
      <3> QED
        BY <1>3, <3>3 DEF TakeSignal, TypeOK, RouteTyped, routeVars
    <2>3. EndTyped'
      BY <1>3, EndsFacts DEF TakeSignal, ClientReturns, ServerForgets, TypeOK, EndTyped, connVars, mainVars
    <2>4. UNCHANGED <<readVars, publishCh, linkVars>>
      BY <1>3 DEF TakeSignal, ClientReturns, ServerForgets, readVars, loopVars, routeVars, connVars, mainVars, linkVars
    <2> QED
      BY <2>1, <2>2, <2>3, <2>4, PartsKept DEF TypeOK
  <1> QED
    BY <1>1, <1>2, <1>3 DEF Main

LEMMA LinkTypes ==
    ASSUME TypeOK, LinkLost \/ LinkUp \/ CloseAllTunnels
    PROVE  TypeOK'
  <1>1. CASE LinkLost
    <2>1. LinkTyped'
      BY <1>1, BoundAssumption DEF LinkLost, TypeOK, LinkTyped
    <2>2. inbox' \in [Ends -> Seq(Nat)]
      <3>1. <<>> \in Seq(Nat)
        OBVIOUS
      <3> QED
        BY <1>1, <3>1, UpdateType DEF LinkLost, TypeOK, RouteTyped
    <2>3. UNCHANGED <<readVars, publishCh, loopVars, main, routeVars, writeCh, written, connVars,
                      registered, signal, subscribed>>
      BY <1>1 DEF LinkLost, mainVars
    <2>4. RouteTyped'
      BY <2>2, <2>3 DEF TypeOK, RouteTyped, routeVars
    <2> QED
      BY <2>1, <2>3, <2>4, PartsKept DEF TypeOK
  <1>2. CASE LinkUp \/ CloseAllTunnels
    <2>1. LinkTyped'
      BY <1>2 DEF LinkUp, CloseAllTunnels, TypeOK, LinkTyped, linkVars
    <2>2. EndTyped'
      BY <1>2 DEF LinkUp, CloseAllTunnels, TypeOK, EndTyped, connVars, mainVars
    <2>3. UNCHANGED <<readVars, publishCh, loopVars, main, inbox, routeVars, writeCh, written>>
      BY <1>2 DEF LinkUp, CloseAllTunnels, mainVars
    <2> QED
      BY <2>1, <2>2, <2>3, PartsKept DEF TypeOK
  <1> QED
    BY <1>1, <1>2

LEMMA TypeInit == Init => TypeOK
  <1> SUFFICES ASSUME Init PROVE TypeOK
    OBVIOUS
  <1>1. ReadTyped
    <2>1. \A e \in Ends : 0 <= MaxChunks[e]
      BY EndsFacts
    <2>2. Len(<<>>) <= PubCap
      BY BoundAssumption
    <2> QED
      BY <2>1, <2>2 DEF Init, ReadTyped
  <1>2. RouteTyped
    <2>1. Len(<<>>) <= WriteCap
      BY BoundAssumption
    <2> QED
      BY <2>1 DEF Init, RouteTyped, NoChunk
  <1>3. LoopTyped
    BY EndsFacts DEF Init, LoopTyped, NoChunk
  <1>4. EndTyped /\ LinkTyped
    <2>1. 0 \in 0..MaxLinkLoss
      BY BoundAssumption
    <2> QED
      BY <2>1 DEF Init, EndTyped, LinkTyped
  <1> QED
    BY <1>1, <1>2, <1>3, <1>4 DEF TypeOK

LEMMA TypeNext == TypeOK /\ [Next]_vars => TypeOK'
  <1> SUFFICES ASSUME TypeOK, [Next]_vars PROVE TypeOK'
    OBVIOUS
  <1>1. CASE UNCHANGED vars
    BY <1>1, PartsKept DEF TypeOK, vars, mainVars
  <1> QED
    BY <1>1, ProgramTypes, ReaderTypes, LoopTypes, RouterTypes, MainTypes, LinkTypes DEF Next

\* Every variable keeps its type: no channel holds more than its capacity,
\* mainLoop holds a chunk exactly while it publishes or writes one, and the
\* client's loop does not run before its main loop starts it.
THEOREM TypeCorrect == Spec => []TypeOK
  BY TypeInit, TypeNext, PTL DEF Spec

-----------------------------------------------------------------------------
(***************************************************************************)
(* Where a chunk is.  The channels between handleRead of one end and the   *)
(* program at the other hold consecutive chunks, so a number tells how far *)
(* the stream is at each of them: what handleRead has read, less what is   *)
(* in publishCh, is what mainLoop has taken, and so on.                    *)
(***************************************************************************)
One(p) == IF p THEN 1 ELSE 0

Taken(e)     == read[e] - Len(publishCh[e])
Published(e) == Taken(e) - One(loop[e] = "publish")

SourceInv(e) ==
    /\ Published(e) \in Nat
    /\ \A i \in 1..Len(publishCh[e]) : publishCh[e][i] = Taken(e) + i
    /\ loop[e] = "publish" => hand[e] = Taken(e)
    /\ loop[e] \in {"done", "left"} => publishCh[e] = <<>> /\ reader[e] # "run"

(* The stream in the broker's hands ends with what was published last, and *)
(* perhaps the closed packet.                                              *)
HasClosed(e) == inbox[e] # <<>> /\ inbox[e][Len(inbox[e])] = Closed
Coming(e)    == Len(inbox[e]) - One(HasClosed(e))
Arrived(e)   == Published(Other(e)) - Coming(e)

BrokerInv(e) ==
    /\ Arrived(e) \in Nat
    /\ \A i \in 1..Coming(e) : inbox[e][i] = Arrived(e) + i
    /\ HasClosed(e) => loop[Other(e)] \in {"done", "left"}
    /\ ~Alive(e) => inbox[e] = <<>>

(* An end that may still write has written all but what is in its hands.   *)
Delivers(e) == conn[e] = "open" /\ Alive(e) /\ loop[e] \notin {"done", "left"}
Routed(e)   == Arrived(e) - One(routing[e] # NoChunk)
Received(e) == Routed(e) - Len(writeCh[e])

SinkInv(e) ==
    Delivers(e) =>
        /\ subscribed[e]
        /\ routing[e] # NoChunk => routing[e] = Arrived(e)
        /\ \A i \in 1..Len(writeCh[e]) : writeCh[e][i] = Received(e) + i
        /\ loop[e] = "write" => hand[e] = Received(e)
        /\ Len(written[e]) = Received(e) - One(loop[e] = "write")

WrittenInv(e) ==
    /\ Len(written[e]) <= read[Other(e)]
    /\ \A n \in 1..Len(written[e]) : written[e][n] = n

StreamInv ==
    /\ link = "up"
    /\ \A e \in Ends : SourceInv(e) /\ BrokerInv(e) /\ SinkInv(e) /\ WrittenInv(e)

\* What keeps an end's part of the invariant as it is.
SourceQuiet(e) ==
    /\ UNCHANGED <<read[e], publishCh[e]>>
    /\ loop'[e] = "publish" <=> loop[e] = "publish"
    /\ loop[e] = "publish" => hand'[e] = hand[e]
    /\ loop'[e] \in {"done", "left"} => loop[e] \in {"done", "left"}
    /\ reader'[e] = "run" => reader[e] = "run"
BrokerQuiet(e) ==
    /\ UNCHANGED inbox[e]
    /\ loop[Other(e)] \in {"done", "left"} => loop'[Other(e)] \in {"done", "left"}
    /\ Alive(e)' \/ ~Alive(e)
SinkQuiet(e) ==
    /\ Delivers(e)' => Delivers(e) /\ UNCHANGED subscribed[e]
    /\ UNCHANGED <<routing[e], writeCh[e], written[e]>>
    /\ loop'[e] = "write" <=> loop[e] = "write"
    /\ loop[e] = "write" => hand'[e] = hand[e]

LEMMA SourceKept ==
    ASSUME NEW e \in Ends, SourceInv(e), SourceQuiet(e)
    PROVE  SourceInv(e)' /\ UNCHANGED <<Taken(e), Published(e)>>
  <1>1. UNCHANGED <<Taken(e), Published(e)>>
    BY DEF SourceQuiet, Taken, Published, One
  <1> QED
    BY <1>1 DEF SourceInv, SourceQuiet

LEMMA BrokerKept ==
    ASSUME NEW e \in Ends, BrokerInv(e), BrokerQuiet(e), UNCHANGED Published(Other(e))
    PROVE  BrokerInv(e)' /\ UNCHANGED Arrived(e)
  <1>1. UNCHANGED <<HasClosed(e), Coming(e), Arrived(e)>>
    BY DEF BrokerQuiet, HasClosed, Coming, Arrived, One
  <1> QED
    BY <1>1 DEF BrokerInv, BrokerQuiet

LEMMA SinkKept ==
    ASSUME NEW e \in Ends, SinkInv(e), SinkQuiet(e), Delivers(e)' => UNCHANGED Arrived(e)
    PROVE  SinkInv(e)'
  <1> SUFFICES ASSUME Delivers(e)' PROVE SinkInv(e)'
    BY DEF SinkInv
  <1>1. UNCHANGED <<Arrived(e), Routed(e), Received(e)>>
    BY DEF SinkQuiet, Routed, Received, One
  <1> QED
    BY <1>1 DEF SinkInv, SinkQuiet, One

LEMMA WrittenKept ==
    ASSUME TypeOK, TypeOK', NEW e \in Ends, WrittenInv(e),
           UNCHANGED written[e], read[Other(e)] <= read'[Other(e)]
    PROVE  WrittenInv(e)'
  <1>1. Other(e) \in Ends
    BY EndsFacts
  <1>2. Len(written[e]) \in Nat /\ read[Other(e)] \in Nat /\ read'[Other(e)] \in Nat
    BY <1>1 DEF TypeOK, ReadTyped, RouteTyped
  <1> QED
    BY <1>2 DEF WrittenInv

\* The types of what an end has, at that end.
LEMMA AtEnd ==
    ASSUME TypeOK, NEW e \in Ends
    PROVE  /\ read[e] \in Nat /\ Len(publishCh[e]) \in Nat /\ publishCh[e] \in Seq(Chunks)
           /\ hand[e] \in Nat /\ routing[e] \in Nat
           /\ inbox[e] \in Seq(Nat) /\ Len(inbox[e]) \in Nat
           /\ writeCh[e] \in Seq(Chunks) /\ Len(writeCh[e]) \in Nat
           /\ written[e] \in Seq(Chunks) /\ Len(written[e]) \in Nat
           /\ Taken(e) \in Int /\ Published(e) \in Int
           /\ Coming(e) \in Int
           /\ loop[e] \in {"off", "select", "publish", "write", "done", "left"}
           /\ reader[e] \in {"run", "closing", "done"}
  BY DEF TypeOK, ReadTyped, LoopTyped, RouteTyped, Taken, Published, Coming, One

(* What a step does to the source, whatever the link does. *)

LEMMA ReadSource ==
    ASSUME TypeOK, NEW e \in Ends, SourceInv(e), Reader(e)
    PROVE  SourceInv(e)' /\ UNCHANGED Published(e)
  <1>1. /\ UNCHANGED <<loop, hand>>
        /\ reader'[e] = "run" => reader[e] = "run"
    BY DEF Reader, ReadChunk, ReadEnds, ReaderCloses, PassLast, loopVars, TypeOK, ReadTyped
  <1>2. \/ UNCHANGED <<read[e], publishCh[e]>>
        \/ /\ reader[e] = "run"
           /\ read'[e] = read[e] + 1
           /\ publishCh'[e] = Append(publishCh[e], read[e] + 1)
    BY DEF Reader, ReadChunk, ReadEnds, ReaderCloses, PassLast, TypeOK, ReadTyped
  <1>3. CASE UNCHANGED <<read[e], publishCh[e]>>
    BY <1>1, <1>3, SourceKept DEF SourceQuiet
  <1>4. CASE /\ reader[e] = "run"
             /\ read'[e] = read[e] + 1
             /\ publishCh'[e] = Append(publishCh[e], read[e] + 1)
    <2>1. /\ Len(publishCh'[e]) = Len(publishCh[e]) + 1
          /\ \A i \in 1..Len(publishCh[e]) : publishCh'[e][i] = publishCh[e][i]
          /\ publishCh'[e][Len(publishCh[e]) + 1] = read[e] + 1
      BY <1>4, AtEnd
    <2>2. UNCHANGED <<Taken(e), Published(e)>>
      <3>1. Taken(e) = read[e] - Len(publishCh[e]) /\ Taken(e)' = (read[e] + 1) - (Len(publishCh[e]) + 1)
        BY <1>4, <2>1 DEF Taken
      <3>2. UNCHANGED Taken(e)
        <4>1. read[e] \in Nat /\ Len(publishCh[e]) \in Nat
          BY AtEnd
        <4> QED
          BY <3>1, <4>1
      <3> QED
        BY <1>1, <3>2 DEF Published
    <2>3. loop[e] \notin {"done", "left"}
      BY <1>4 DEF SourceInv
    <2>4. \A i \in 1..Len(publishCh'[e]) : publishCh'[e][i] = Taken(e) + i
      <3>1. \A i \in 1..Len(publishCh[e]) : publishCh[e][i] = Taken(e) + i
        BY DEF SourceInv
      <3>2. Taken(e) + Len(publishCh[e]) + 1 = read[e] + 1
        BY AtEnd DEF Taken
      <3>3. ASSUME NEW i \in 1..Len(publishCh'[e])
            PROVE  i \in 1..Len(publishCh[e]) \/ i = Len(publishCh[e]) + 1
        BY <2>1, AtEnd
      <3>4. ASSUME NEW i \in 1..Len(publishCh[e]) PROVE publishCh'[e][i] = Taken(e) + i
        BY <2>1, <3>1
      <3>5. publishCh'[e][Len(publishCh[e]) + 1] = Taken(e) + (Len(publishCh[e]) + 1)
        <4>1. Taken(e) \in Int /\ Len(publishCh[e]) \in Nat
          BY AtEnd
        <4> QED
          BY <2>1, <3>2, <4>1
      <3> QED
        BY <3>3, <3>4, <3>5
    <2> QED
      BY <1>1, <2>2, <2>3, <2>4 DEF SourceInv
  <1> QED
    BY <1>2, <1>3, <1>4

LEMMA TakeSource ==
    ASSUME TypeOK, NEW e \in Ends, SourceInv(e), LoopTakes(e)
    PROVE  SourceInv(e)' /\ UNCHANGED Published(e)
  <1>1. /\ UNCHANGED <<read, reader>>
        /\ loop[e] = "select" /\ loop'[e] = "publish"
        /\ publishCh[e] # <<>> /\ publishCh'[e] = Tail(publishCh[e]) /\ hand'[e] = Head(publishCh[e])
    BY DEF LoopTakes, InLoop, readVars, TypeOK, ReadTyped, LoopTyped
  <1>2. /\ Len(publishCh'[e]) = Len(publishCh[e]) - 1 /\ Len(publishCh[e]) > 0
        /\ \A i \in 1..Len(publishCh'[e]) : publishCh'[e][i] = publishCh[e][i + 1]
        /\ hand'[e] = publishCh[e][1]
    BY <1>1, AtEnd
  <1>3. Taken(e)' = Taken(e) + 1 /\ UNCHANGED Published(e)
    BY <1>1, <1>2, AtEnd DEF Taken, Published, One
  <1>4. hand'[e] = Taken(e)'
    BY <1>2, <1>3, AtEnd DEF SourceInv
  <1>5. \A i \in 1..Len(publishCh'[e]) : publishCh'[e][i] = Taken(e)' + i
    BY <1>2, <1>3, AtEnd DEF SourceInv
  <1> QED
    BY <1>1, <1>3, <1>4, <1>5 DEF SourceInv

LEMMA PublishSource ==
    ASSUME TypeOK, NEW e \in Ends, SourceInv(e), LoopPublishes(e)
    PROVE  /\ SourceInv(e)'
           /\ Published(e)' = Published(e) + 1
           /\ hand[e] = Published(e)' /\ hand[e] \in Chunks
  <1>1. /\ UNCHANGED <<read, reader, publishCh>>
        /\ loop[e] = "publish" /\ loop'[e] = "select"
    BY DEF LoopPublishes, InLoop, readVars, TypeOK, LoopTyped
  <1>2. UNCHANGED Taken(e) /\ Published(e)' = Published(e) + 1 /\ hand[e] = Published(e)' /\ hand[e] \in Chunks
    BY <1>1, AtEnd DEF Taken, Published, One, SourceInv, TypeOK, LoopTyped, Chunks
  <1>3. SourceInv(e)'
    BY <1>1, <1>2, AtEnd DEF SourceInv
  <1> QED
    BY <1>2, <1>3

(* What each step does to the stream. *)

LEMMA ReadStream ==
    ASSUME TypeOK, TypeOK', StreamInv, NEW e \in Ends, Reader(e)
    PROVE  StreamInv'
  <1>1. /\ UNCHANGED <<loop, hand, inbox, main, link, routing, writeCh, written, subscribed>>
        /\ \A f \in Ends : f # e => UNCHANGED <<read[f], publishCh[f], reader[f], conn[f]>>
        /\ reader'[e] = "run" => reader[e] = "run"
        /\ conn'[e] = "open" => conn[e] = "open"
    BY DEF Reader, ReadChunk, ReadEnds, ReaderCloses, PassLast, loopVars, mainVars, linkVars, routeVars, connVars,
       TypeOK, ReadTyped, EndTyped
  <1>2. \/ UNCHANGED <<read[e], publishCh[e]>>
        \/ /\ reader[e] = "run"
           /\ read'[e] = read[e] + 1
           /\ publishCh'[e] = Append(publishCh[e], read[e] + 1)
    BY DEF Reader, ReadChunk, ReadEnds, ReaderCloses, PassLast, TypeOK, ReadTyped
  <1>3. read[e] <= read'[e]
    BY <1>2, AtEnd
  <1>4. SourceInv(e)' /\ UNCHANGED Published(e)
    BY ReadSource DEF StreamInv
  <1>5. \A f \in Ends : SourceInv(f)' /\ UNCHANGED Published(f)
    <2>1. ASSUME NEW f \in Ends, f # e PROVE SourceInv(f)' /\ UNCHANGED Published(f)
      BY <1>1, <2>1, SourceKept DEF StreamInv, SourceQuiet
    <2> QED
      BY <1>4, <2>1
  <1>6. \A f \in Ends : BrokerInv(f)' /\ UNCHANGED Arrived(f)
    BY <1>1, <1>5, EndsFacts, BrokerKept DEF StreamInv, BrokerQuiet, Alive
  <1>7. \A f \in Ends : SinkInv(f)'
    BY <1>1, <1>6, SinkKept DEF StreamInv, SinkQuiet, Delivers, Alive
  <1>8. \A f \in Ends : WrittenInv(f)'
    <2>1. \A f \in Ends : read[f] <= read'[f]
      BY <1>1, <1>3, AtEnd
    <2> QED
      BY <1>1, <2>1, EndsFacts, WrittenKept DEF StreamInv
  <1> QED
    BY <1>1, <1>5, <1>6, <1>7, <1>8 DEF StreamInv

LEMMA TakeStream ==
    ASSUME TypeOK, TypeOK', StreamInv, NEW e \in Ends, LoopTakes(e)
    PROVE  StreamInv'
  <1>1. /\ UNCHANGED <<read, reader, inbox, main, link, routing, writeCh, written, subscribed, conn>>
        /\ \A f \in Ends : f # e => UNCHANGED <<publishCh[f], loop[f], hand[f]>>
        /\ loop[e] = "select" /\ loop'[e] = "publish"
        /\ publishCh[e] # <<>> /\ publishCh'[e] = Tail(publishCh[e]) /\ hand'[e] = Head(publishCh[e])
    BY DEF LoopTakes, InLoop, readVars, routeVars, connVars, mainVars, linkVars, TypeOK, ReadTyped, LoopTyped
  <1>2. SourceInv(e)' /\ UNCHANGED Published(e)
    BY TakeSource DEF StreamInv
  <1>3. \A f \in Ends : SourceInv(f)' /\ UNCHANGED Published(f)
    <2>1. ASSUME NEW f \in Ends, f # e PROVE SourceInv(f)' /\ UNCHANGED Published(f)
      BY <1>1, <2>1, SourceKept DEF StreamInv, SourceQuiet
    <2> QED
      BY <1>2, <2>1
  <1>4. \A f \in Ends : BrokerInv(f)' /\ UNCHANGED Arrived(f)
    <2>1. ASSUME NEW f \in Ends PROVE BrokerQuiet(f)
      BY <1>1, EndsFacts DEF BrokerQuiet, Alive
    <2> QED
      BY <1>3, <2>1, EndsFacts, BrokerKept DEF StreamInv
  <1>5. \A f \in Ends : SinkInv(f)'
    <2>1. ASSUME NEW f \in Ends PROVE SinkQuiet(f)
      BY <1>1 DEF SinkQuiet, Delivers, Alive
    <2> QED
      BY <1>4, <2>1, SinkKept DEF StreamInv
  <1>6. \A f \in Ends : WrittenInv(f)'
    <2>1. \A f \in Ends : read[f] <= read'[f]
      BY <1>1, AtEnd
    <2> QED
      BY <1>1, <2>1, EndsFacts, WrittenKept DEF StreamInv
  <1> QED
    BY <1>1, <1>3, <1>4, <1>5, <1>6 DEF StreamInv


LEMMA PublishStream ==
    ASSUME TypeOK, TypeOK', StreamInv, NEW e \in Ends, LoopPublishes(e)
    PROVE  StreamInv'
  <1> DEFINE o == Other(e)
  <1>o. o \in Ends /\ o # e /\ Other(o) = e /\ \A f \in Ends : f = e \/ f = o
    BY EndsFacts
  <1> HIDE DEF o
  <1>1. /\ UNCHANGED <<read, reader, publishCh, main, link, routing, writeCh, written, subscribed, conn>>
        /\ \A f \in Ends : f # e => UNCHANGED <<loop[f], hand[f]>>
        /\ loop[e] = "publish" /\ loop'[e] = "select"
        /\ UNCHANGED inbox[e]
    BY <1>o DEF LoopPublishes, Publish, InLoop, readVars, routeVars, connVars, mainVars, linkVars, TypeOK,
       LoopTyped, RouteTyped, o
  <1>2. inbox'[o] = IF Alive(o) THEN Append(inbox[o], hand[e]) ELSE inbox[o]
    BY <1>o DEF LoopPublishes, Publish, StreamInv, TypeOK, RouteTyped, o
  <1>3. Published(e)' = Published(e) + 1 /\ hand[e] = Published(e)' /\ hand[e] \in Chunks
    BY PublishSource DEF StreamInv
  <1>4. SourceInv(e)'
    BY PublishSource DEF StreamInv
  <1>5. SourceInv(o)' /\ UNCHANGED Published(o)
    BY <1>o, <1>1, SourceKept DEF StreamInv, SourceQuiet
  <1>6. BrokerInv(e)' /\ UNCHANGED Arrived(e)
    <2>1. BrokerQuiet(e)
      BY <1>o, <1>1 DEF BrokerQuiet, Alive, o
    <2> QED
      BY <1>5, <2>1, BrokerKept DEF StreamInv, o
  <1>7. BrokerInv(o)' /\ (Alive(o) => UNCHANGED Arrived(o))
    <2>1. CASE Alive(o)
      <3>1. ~HasClosed(o)
        BY <1>o, <1>1 DEF StreamInv, BrokerInv
      <3>2. /\ Len(inbox'[o]) = Len(inbox[o]) + 1 /\ inbox'[o] # <<>>
            /\ \A i \in 1..Len(inbox[o]) : inbox'[o][i] = inbox[o][i]
            /\ inbox'[o][Len(inbox'[o])] = hand[e]
        <4>1. inbox[o] \in Seq(Nat) /\ hand[e] \in Nat
          BY <1>o, AtEnd
        <4> QED
          BY <1>2, <2>1, <4>1
      <3>3. ~HasClosed(o)'
        BY <1>3, <3>2 DEF HasClosed, Chunks, NoChunk, Closed
      <3>4. Coming(o) = Len(inbox[o]) /\ Coming(o)' = Len(inbox[o]) + 1
        BY <1>o, <3>1, <3>2, <3>3, AtEnd DEF Coming, One
      <3>5. UNCHANGED Arrived(o) /\ Arrived(o) + Len(inbox[o]) = Published(e)
        BY <1>o, <1>3, <3>4, AtEnd DEF Arrived
      <3>6. \A i \in 1..Coming(o)' : inbox'[o][i] = Arrived(o) + i
        <4>1. \A i \in 1..Len(inbox[o]) : inbox[o][i] = Arrived(o) + i
          BY <1>o, <3>4 DEF StreamInv, BrokerInv
        <4>2. hand[e] = Arrived(o) + Len(inbox[o]) + 1
          BY <1>o, <1>3, <3>5, AtEnd
        <4>3. \A i \in 1..Coming(o)' : i \in 1..Len(inbox[o]) \/ i = Len(inbox'[o])
          BY <1>o, <3>2, <3>4, AtEnd
        <4>4. Arrived(o) \in Nat /\ Len(inbox[o]) \in Nat
          BY <1>o, AtEnd DEF StreamInv, BrokerInv
        <4> SUFFICES ASSUME NEW i \in 1..Coming(o)' PROVE inbox'[o][i] = Arrived(o) + i
          OBVIOUS
        <4>5. CASE i \in 1..Len(inbox[o])
          BY <3>2, <4>1, <4>5
        <4>6. CASE i = Len(inbox'[o])
          BY <3>2, <4>2, <4>4, <4>6
        <4> QED
          BY <4>3, <4>5, <4>6
      <3> QED
        BY <1>o, <1>1, <2>1, <3>3, <3>5, <3>6 DEF StreamInv, BrokerInv, Alive
    <2>2. CASE ~Alive(o)
      <3>1. inbox[o] = <<>> /\ inbox'[o] = <<>>
        BY <1>o, <1>2, <2>2 DEF StreamInv, BrokerInv
      <3>2. ~HasClosed(o)' /\ Coming(o)' = 0
        BY <3>1 DEF HasClosed, Coming, One
      <3>3. Arrived(o)' = Published(e)'
        BY <1>o, <1>3, <3>2, AtEnd DEF Arrived
      <3>4. Published(e)' \in Nat
        BY <1>3, AtEnd DEF StreamInv, SourceInv
      <3> QED
        BY <2>2, <3>1, <3>2, <3>3, <3>4 DEF BrokerInv
    <2> QED
      BY <2>1, <2>2
  <1>8. \A f \in Ends : SinkInv(f)'
    <2>1. ASSUME NEW f \in Ends PROVE SinkQuiet(f)
      BY <1>1 DEF SinkQuiet, Delivers, Alive
    <2>2. ASSUME NEW f \in Ends, Delivers(f)' PROVE UNCHANGED Arrived(f)
      BY <1>o, <1>1, <1>6, <1>7, <2>2 DEF Delivers, Alive
    <2> QED
      BY <2>1, <2>2, SinkKept DEF StreamInv
  <1>9. \A f \in Ends : WrittenInv(f)'
    <2>1. \A f \in Ends : read[f] <= read'[f]
      BY <1>1, AtEnd
    <2> QED
      BY <1>1, <2>1, EndsFacts, WrittenKept DEF StreamInv
  <1> QED
    BY <1>o, <1>1, <1>4, <1>5, <1>6, <1>7, <1>8, <1>9 DEF StreamInv

LEMMA ReceiveStream ==
    ASSUME TypeOK, TypeOK', StreamInv, NEW e \in Ends, LoopReceives(e)
    PROVE  StreamInv'
  <1>1. /\ UNCHANGED <<read, reader, publishCh, inbox, main, link, routing, written, subscribed, conn>>
        /\ \A f \in Ends : f # e => UNCHANGED <<writeCh[f], loop[f], hand[f]>>
        /\ loop[e] = "select" /\ loop'[e] = "write"
        /\ writeCh[e] # <<>> /\ writeCh'[e] = Tail(writeCh[e]) /\ hand'[e] = Head(writeCh[e])
    BY DEF LoopReceives, InLoop, readVars, routeVars, connVars, mainVars, linkVars, TypeOK, RouteTyped, LoopTyped
  <1>2. \A f \in Ends : SourceInv(f)' /\ UNCHANGED Published(f)
    <2>1. ASSUME NEW f \in Ends PROVE SourceQuiet(f)
      BY <1>1 DEF SourceQuiet
    <2> QED
      BY <2>1, SourceKept DEF StreamInv
  <1>3. \A f \in Ends : BrokerInv(f)' /\ UNCHANGED Arrived(f)
    <2>1. ASSUME NEW f \in Ends PROVE BrokerQuiet(f)
      BY <1>1, EndsFacts DEF BrokerQuiet, Alive
    <2> QED
      BY <1>2, <2>1, EndsFacts, BrokerKept DEF StreamInv
  <1>4. SinkInv(e)'
    <2> SUFFICES ASSUME Delivers(e)' PROVE SinkInv(e)'
      BY DEF SinkInv
    <2>1. Delivers(e)
      BY <1>1 DEF Delivers, Alive
    <2>2. /\ Len(writeCh'[e]) = Len(writeCh[e]) - 1 /\ Len(writeCh[e]) > 0
          /\ \A i \in 1..Len(writeCh'[e]) : writeCh'[e][i] = writeCh[e][i + 1]
          /\ hand'[e] = writeCh[e][1]
      BY <1>1, AtEnd
    <2>3. UNCHANGED Routed(e) /\ Routed(e) \in Int
      BY <1>1, <1>3 DEF Routed, One, StreamInv, BrokerInv
    <2>4. Received(e)' = Received(e) + 1 /\ Received(e) \in Int
      BY <2>2, <2>3, AtEnd DEF Received
    <2>5. \A i \in 1..Len(writeCh[e]) : writeCh[e][i] = Received(e) + i
      BY <2>1 DEF StreamInv, SinkInv
    <2>6. hand'[e] = Received(e)' /\ \A i \in 1..Len(writeCh'[e]) : writeCh'[e][i] = Received(e)' + i
      <3>1. Len(writeCh[e]) \in Nat /\ Received(e) \in Int
        BY <2>4, AtEnd
      <3>2. hand'[e] = Received(e)'
        BY <2>2, <2>4, <2>5, <3>1
      <3>3. ASSUME NEW i \in 1..Len(writeCh'[e]) PROVE writeCh'[e][i] = Received(e)' + i
        <4>1. i \in Int /\ i + 1 \in 1..Len(writeCh[e]) /\ writeCh'[e][i] = writeCh[e][i + 1]
          BY <2>2, <3>1
        <4>2. writeCh[e][i + 1] = Received(e) + (i + 1)
          BY <2>5, <4>1
        <4> QED
          BY <2>4, <3>1, <4>1, <4>2
      <3> QED
        BY <3>2, <3>3
    <2>7. Len(written'[e]) = Received(e)' - 1
      BY <1>1, <2>1, <2>4 DEF StreamInv, SinkInv, One
    <2> QED
      BY <1>1, <1>3, <2>1, <2>6, <2>7 DEF StreamInv, SinkInv, One
  <1>5. \A f \in Ends : SinkInv(f)'
    <2>1. ASSUME NEW f \in Ends, f # e PROVE SinkQuiet(f)
      BY <1>1, <2>1 DEF SinkQuiet, Delivers, Alive
    <2> QED
      BY <1>3, <1>4, <2>1, SinkKept DEF StreamInv
  <1>6. \A f \in Ends : WrittenInv(f)'
    <2>1. \A f \in Ends : read[f] <= read'[f]
      BY <1>1, AtEnd
    <2> QED
      BY <1>1, <2>1, EndsFacts, WrittenKept DEF StreamInv
  <1> QED
    BY <1>1, <1>2, <1>3, <1>5, <1>6 DEF StreamInv

LEMMA WriteStream ==
    ASSUME TypeOK, TypeOK', StreamInv, NEW e \in Ends, LoopWrites(e)
    PROVE  /\ StreamInv'
           /\ Accepts(e) => /\ hand[e] = Len(written[e]) + 1
                            /\ Len(written[e]) < read[Other(e)]
  <1>1. /\ UNCHANGED <<read, reader, publishCh, inbox, main, link, routing, writeCh, subscribed, conn>>
        /\ \A f \in Ends : f # e => UNCHANGED <<written[f], loop[f], hand[f]>>
        /\ loop[e] = "write" /\ loop'[e] = "select" /\ Alive(e)
        /\ written'[e] = IF Accepts(e) THEN Append(written[e], hand[e]) ELSE written[e]
    BY DEF LoopWrites, InLoop, readVars, routeVars, connVars, mainVars, linkVars, TypeOK, RouteTyped, LoopTyped
  <1>2. \A f \in Ends : SourceInv(f)' /\ UNCHANGED Published(f)
    <2>1. ASSUME NEW f \in Ends PROVE SourceQuiet(f)
      BY <1>1 DEF SourceQuiet
    <2> QED
      BY <2>1, SourceKept DEF StreamInv
  <1>3. \A f \in Ends : BrokerInv(f)' /\ UNCHANGED Arrived(f)
    <2>1. ASSUME NEW f \in Ends PROVE BrokerQuiet(f)
      BY <1>1, EndsFacts DEF BrokerQuiet, Alive
    <2> QED
      BY <1>2, <2>1, EndsFacts, BrokerKept DEF StreamInv
  <1>4. Accepts(e) => /\ Delivers(e)
                      /\ hand[e] = Received(e)
                      /\ Len(written[e]) = Received(e) - 1
                      /\ hand[e] = Len(written[e]) + 1
                      /\ Len(written'[e]) = Len(written[e]) + 1
                      /\ \A n \in 1..Len(written[e]) : written'[e][n] = written[e][n]
                      /\ written'[e][Len(written'[e])] = hand[e]
    <2> SUFFICES ASSUME Accepts(e) PROVE <1>4!2
      OBVIOUS
    <2>1. Delivers(e)
      BY <1>1 DEF Delivers, Accepts
    <2>2. hand[e] = Received(e) /\ Len(written[e]) = Received(e) - 1
      BY <1>1, <2>1 DEF StreamInv, SinkInv, One
    <2>3. hand[e] \in Nat /\ hand[e] # NoChunk
      BY <1>1 DEF TypeOK, LoopTyped
    <2>4. hand[e] = Len(written[e]) + 1 /\ hand[e] \in Chunks
      BY <2>2, <2>3, AtEnd DEF Chunks
    <2>5. written'[e] = Append(written[e], hand[e]) /\ written[e] \in Seq(Chunks)
      BY <1>1, AtEnd
    <2>6. /\ Len(written'[e]) = Len(written[e]) + 1
          /\ \A n \in 1..Len(written[e]) : written'[e][n] = written[e][n]
          /\ written'[e][Len(written'[e])] = hand[e]
      BY <2>4, <2>5
    <2> QED
      BY <2>1, <2>2, <2>4, <2>6
  <1>5. Received(e) <= read[Other(e)]
    <2>1. Other(e) \in Ends
      BY EndsFacts
    <2>2. Published(Other(e)) <= read[Other(e)]
      BY <2>1, AtEnd DEF Published, Taken, One
    <2>3. Arrived(e) <= Published(Other(e)) /\ Arrived(e) \in Nat
      <3>1. Coming(e) \in Nat
        <4>1. inbox[e] # <<>> => Len(inbox[e]) > 0
          BY AtEnd
        <4> QED
          BY <4>1, AtEnd DEF Coming, HasClosed, One
      <3>2. Arrived(e) \in Nat
        BY DEF StreamInv, BrokerInv
      <3> QED
        BY <2>1, <3>1, <3>2, AtEnd DEF Arrived
    <2>4. Received(e) <= Arrived(e) /\ Received(e) \in Int
      BY <2>3, AtEnd DEF Received, Routed, One
    <2> QED
      BY <2>1, <2>2, <2>3, <2>4, AtEnd
  <1>6. \A f \in Ends : SinkInv(f)'
    <2>1. ASSUME NEW f \in Ends, f # e PROVE SinkInv(f)'
      <3>1. SinkQuiet(f)
        BY <1>1, <2>1 DEF SinkQuiet, Delivers, Alive
      <3> QED
        BY <1>3, <3>1, SinkKept DEF StreamInv
    <2>2. SinkInv(e)'
      <3> SUFFICES ASSUME Delivers(e)' PROVE SinkInv(e)'
        BY DEF SinkInv
      <3>1. Delivers(e) /\ Accepts(e)
        BY <1>1 DEF Delivers, Alive, Accepts
      <3>2. UNCHANGED <<Received(e), Arrived(e)>>
        BY <1>1, <1>3 DEF Received, Routed, One
      <3>3. Len(written'[e]) = Received(e)' - 0
        BY <1>4, <3>1, <3>2, AtEnd
      <3> QED
        BY <1>1, <3>1, <3>2, <3>3 DEF StreamInv, SinkInv, One
    <2> QED
      BY <2>1, <2>2
  <1>7. \A f \in Ends : WrittenInv(f)'
    <2>1. \A f \in Ends : read[f] <= read'[f]
      BY <1>1, AtEnd
    <2>2. ASSUME NEW f \in Ends, UNCHANGED written[f] PROVE WrittenInv(f)'
      BY <2>1, <2>2, EndsFacts, WrittenKept DEF StreamInv
    <2>3. ASSUME Accepts(e) PROVE WrittenInv(e)'
      <3>1. Len(written'[e]) <= read'[Other(e)]
        BY <1>1, <1>4, <1>5, <2>3, AtEnd
      <3>2. \A n \in 1..Len(written[e]) : written[e][n] = n
        BY DEF StreamInv, WrittenInv
      <3>3. \A n \in 1..Len(written'[e]) : n \in 1..Len(written[e]) \/ n = Len(written'[e])
        BY <1>4, <2>3, AtEnd
      <3>4. \A n \in 1..Len(written'[e]) : written'[e][n] = n
        BY <1>4, <2>3, <3>2, <3>3
      <3> QED
        BY <3>1, <3>4 DEF WrittenInv
    <2> QED
      BY <1>1, <2>2, <2>3
  <1> QED
    <2>1. Other(e) \in Ends
      BY EndsFacts
    <2>2. Accepts(e) => hand[e] = Len(written[e]) + 1 /\ Len(written[e]) < read[Other(e)]
      BY <1>4, <1>5, <2>1, AtEnd
    <2> QED
      BY <1>1, <1>2, <1>3, <1>6, <1>7, <2>2 DEF StreamInv


\* mainLoop leaves: the closed packet goes behind all that was published.
LEMMA EndStream ==
    ASSUME TypeOK, TypeOK', StreamInv, NEW e \in Ends, LoopEnds(e)
    PROVE  StreamInv'
  <1> DEFINE o == Other(e)
  <1>o. o \in Ends /\ o # e /\ Other(o) = e /\ \A f \in Ends : f = e \/ f = o
    BY EndsFacts
  <1> HIDE DEF o
  <1>1. /\ UNCHANGED <<read, reader, publishCh, hand, main, link, routing, writeCh, written, subscribed, conn>>
        /\ \A f \in Ends : f # e => UNCHANGED loop[f]
        /\ loop[e] = "select" /\ loop'[e] = "done"
        /\ reader[e] # "run" /\ publishCh[e] = <<>>
        /\ UNCHANGED inbox[e]
    BY <1>o DEF LoopEnds, Publish, InLoop, readVars, routeVars, connVars, linkVars, TypeOK,
       LoopTyped, RouteTyped, o
  <1>2. inbox'[o] = inbox[o] \/ (inbox'[o] = Append(inbox[o], Closed) /\ Alive(o))
    <2>1. inbox \in [Ends -> Seq(Nat)]
      BY DEF TypeOK, RouteTyped
    <2>2. UNCHANGED inbox \/ Publish(e, Closed)
      BY DEF LoopEnds
    <2>3. UNCHANGED inbox \/ (Alive(o) /\ inbox' = [inbox EXCEPT ![o] = Append(inbox[o], Closed)])
      BY <2>2 DEF Publish, o
    <2>4. CASE Alive(o) /\ inbox' = [inbox EXCEPT ![o] = Append(inbox[o], Closed)]
      BY <1>o, <2>1, <2>4
    <2>5. CASE UNCHANGED inbox
      BY <2>5
    <2> QED
      BY <2>3, <2>4, <2>5
  <1>3. \A f \in Ends : SourceInv(f)' /\ UNCHANGED Published(f)
    <2>1. UNCHANGED <<Taken(e), Published(e)>>
      BY <1>1 DEF Taken, Published, One
    <2>2. SourceInv(e)'
      BY <1>1, <2>1 DEF StreamInv, SourceInv
    <2>3. SourceInv(o)' /\ UNCHANGED Published(o)
      BY <1>o, <1>1, SourceKept DEF StreamInv, SourceQuiet
    <2> QED
      BY <1>o, <2>1, <2>2, <2>3
  <1>4. BrokerInv(e)' /\ UNCHANGED Arrived(e)
    <2>1. BrokerQuiet(e)
      BY <1>o, <1>1 DEF BrokerQuiet, Alive, o
    <2> QED
      BY <1>o, <1>3, <2>1, BrokerKept DEF StreamInv, o
  <1>5. BrokerInv(o)' /\ UNCHANGED Arrived(o)
    <2>1. CASE inbox'[o] = inbox[o]
      <3>1. BrokerQuiet(o)
        BY <1>o, <1>1, <2>1 DEF BrokerQuiet, Alive
      <3> QED
        BY <1>o, <1>3, <3>1, BrokerKept DEF StreamInv
    <2>2. CASE inbox'[o] = Append(inbox[o], Closed) /\ Alive(o)
      <3>1. ~HasClosed(o)
        BY <1>o, <1>1 DEF StreamInv, BrokerInv
      <3>2. /\ Len(inbox'[o]) = Len(inbox[o]) + 1 /\ inbox'[o] # <<>>
            /\ \A i \in 1..Len(inbox[o]) : inbox'[o][i] = inbox[o][i]
            /\ inbox'[o][Len(inbox'[o])] = Closed
        <4>1. inbox[o] \in Seq(Nat) /\ Closed \in Nat
          BY <1>o, AtEnd DEF Closed
        <4> QED
          BY <2>2, <4>1
      <3>3. HasClosed(o)'
        BY <3>2 DEF HasClosed
      <3>4. Coming(o) = Len(inbox[o]) /\ Coming(o)' = Coming(o)
        BY <1>o, <3>1, <3>2, <3>3, AtEnd DEF Coming, One
      <3>5. UNCHANGED Arrived(o)
        BY <1>o, <1>3, <3>4 DEF Arrived
      <3> QED
        BY <1>o, <1>1, <2>2, <3>2, <3>4, <3>5 DEF StreamInv, BrokerInv, Alive
    <2> QED
      BY <1>2, <2>1, <2>2
  <1>6. \A f \in Ends : SinkInv(f)'
    <2>1. ASSUME NEW f \in Ends PROVE SinkQuiet(f)
      BY <1>1 DEF SinkQuiet, Delivers, Alive
    <2> QED
      BY <1>o, <1>4, <1>5, <2>1, SinkKept DEF StreamInv
  <1>7. \A f \in Ends : WrittenInv(f)'
    <2>1. \A f \in Ends : read[f] <= read'[f]
      BY <1>1, AtEnd
    <2> QED
      BY <1>1, <2>1, EndsFacts, WrittenKept DEF StreamInv
  <1> QED
    BY <1>o, <1>1, <1>3, <1>4, <1>5, <1>6, <1>7 DEF StreamInv

\* The router: it takes a message, or hands a chunk on.
LEMMA RouterStream ==
    ASSUME TypeOK, TypeOK', StreamInv, NEW e \in Ends, Router(e)
    PROVE  StreamInv'
  <1>1. /\ UNCHANGED <<read, reader, publishCh, loop, hand, main, link, written, subscribed, conn>>
        /\ \A f \in Ends : f # e => UNCHANGED <<inbox[f], routing[f], writeCh[f]>>
    BY DEF Router, RouteData, RouterWrites, RouteClosed, HandOn, readVars, loopVars, connVars, mainVars, linkVars,
       TypeOK, RouteTyped
  <1>2. \A f \in Ends : SourceInv(f)' /\ UNCHANGED Published(f)
    <2>1. ASSUME NEW f \in Ends PROVE SourceQuiet(f)
      BY <1>1 DEF SourceQuiet
    <2> QED
      BY <2>1, SourceKept DEF StreamInv
  <1>3. ASSUME NEW f \in Ends, f # e PROVE BrokerInv(f)' /\ SinkInv(f)'
    <2>1. BrokerQuiet(f) /\ SinkQuiet(f)
      BY <1>1, <1>3 DEF BrokerQuiet, SinkQuiet, Alive, Delivers
    <2>2. BrokerInv(f)' /\ UNCHANGED Arrived(f)
      BY <1>2, <2>1, EndsFacts, BrokerKept DEF StreamInv
    <2> QED
      BY <2>1, <2>2, SinkKept DEF StreamInv
  <1>4. \A f \in Ends : WrittenInv(f)'
    <2>1. \A f \in Ends : read[f] <= read'[f]
      BY <1>1, AtEnd
    <2> QED
      BY <1>1, <2>1, EndsFacts, WrittenKept DEF StreamInv
  <1>p. Other(e) \in Ends /\ Published(Other(e)) \in Int /\ UNCHANGED Published(Other(e))
    BY <1>2, EndsFacts, AtEnd
  <1>q. ASSUME Arrives(e), inbox'[e] = Tail(inbox[e])
        PROVE  /\ Len(inbox'[e]) = Len(inbox[e]) - 1 /\ Len(inbox[e]) > 0 /\ Alive(e)
               /\ \A i \in 1..Len(inbox'[e]) : inbox'[e][i] = inbox[e][i + 1]
               /\ Head(inbox[e]) = inbox[e][1]
               /\ inbox'[e] = <<>> <=> Len(inbox[e]) = 1
    <2>1. inbox[e] \in Seq(Nat) /\ inbox[e] # <<>> /\ Alive(e)
      BY <1>q, AtEnd DEF Arrives
    <2>2. Len(Tail(inbox[e])) = Len(inbox[e]) - 1 /\ Len(inbox[e]) > 0 /\ Head(inbox[e]) = inbox[e][1]
          /\ \A i \in 1..Len(inbox[e]) - 1 : Tail(inbox[e])[i] = inbox[e][i + 1]
      BY <2>1
    <2>3. Tail(inbox[e]) \in Seq(Nat)
      BY <2>1
    <2>4. \A q \in Seq(Nat) : q = <<>> <=> Len(q) = 0
      OBVIOUS
    <2>5. Len(inbox[e]) \in Nat
      BY <2>1
    <2>6. Tail(inbox[e]) = <<>> <=> Len(Tail(inbox[e])) = 0
      BY <2>3, <2>4, Zenon
    <2>7. Tail(inbox[e]) = <<>> <=> Len(inbox[e]) = 1
      BY <2>2, <2>5, <2>6
    <2> QED
      BY <1>q, <2>1, <2>2, <2>7
  <1>r. Len(inbox[e]) \in Nat /\ Coming(e) \in Nat /\ Coming(e) <= Len(inbox[e])
        /\ Len(writeCh[e]) \in Nat /\ writeCh[e] \in Seq(Chunks)
    <2>1. Len(inbox[e]) \in Nat /\ Len(writeCh[e]) \in Nat /\ inbox[e] \in Seq(Nat) /\ writeCh[e] \in Seq(Chunks)
      BY AtEnd
    <2>2. HasClosed(e) => Len(inbox[e]) > 0
      BY <2>1 DEF HasClosed
    <2>3. Coming(e) = Len(inbox[e]) - 0 \/ (HasClosed(e) /\ Coming(e) = Len(inbox[e]) - 1)
      BY DEF Coming, One
    <2>4. Coming(e) = Len(inbox[e]) - 0 \/ (Len(inbox[e]) > 0 /\ Coming(e) = Len(inbox[e]) - 1)
      BY <2>2, <2>3
    <2> QED
      BY <2>1, <2>4
  <1>5. CASE RouteData(e)
    <2>1. /\ Arrives(e) /\ inbox'[e] = Tail(inbox[e]) /\ Head(inbox[e]) # Closed
          /\ routing[e] = NoChunk
          /\ routing'[e] = IF subscribed[e] THEN Head(inbox[e]) ELSE NoChunk
          /\ UNCHANGED writeCh[e]
      BY <1>5 DEF RouteData, Arrives, TypeOK, RouteTyped
    <2>2. UNCHANGED HasClosed(e)
      <3>1. CASE Len(inbox[e]) = 1
        BY <1>q, <2>1, <3>1 DEF HasClosed
      <3>2. CASE Len(inbox[e]) > 1
        <4>1. inbox'[e] # <<>> /\ inbox'[e][Len(inbox'[e])] = inbox[e][Len(inbox[e])] /\ inbox[e] # <<>>
          BY <1>q, <1>r, <2>1, <3>2 DEF Arrives
        <4> QED
          BY <4>1 DEF HasClosed
      <3> QED
        BY <1>q, <1>r, <2>1, <3>1, <3>2
    <2>3. Coming(e)' = Coming(e) - 1 /\ Coming(e) > 0
      <3>1. HasClosed(e) => Len(inbox[e]) > 1
        <4>1. Len(inbox[e]) = 1 => inbox[e][Len(inbox[e])] # Closed
          BY <1>q, <2>1
        <4> QED
          BY <1>q, <1>r, <2>1, <4>1 DEF HasClosed
      <3>2. Coming(e) = Len(inbox[e]) - One(HasClosed(e)) /\ Coming(e)' = Len(inbox'[e]) - One(HasClosed(e))
        BY <2>2 DEF Coming, One
      <3>3. One(HasClosed(e)) \in {0, 1} /\ (One(HasClosed(e)) = 1 => HasClosed(e))
        BY DEF One
      <3>4. Len(inbox'[e]) = Len(inbox[e]) - 1 /\ Len(inbox[e]) > 0
        BY <1>q, <2>1
      <3> QED
        BY <1>r, <3>1, <3>2, <3>3, <3>4
    <2>4. Arrived(e)' = Arrived(e) + 1 /\ Arrived(e) \in Nat
      BY <1>p, <2>3, AtEnd DEF Arrived, StreamInv, BrokerInv
    <2>5. \A i \in 1..Coming(e) : inbox[e][i] = Arrived(e) + i
      BY DEF StreamInv, BrokerInv
    <2>6. Coming(e) <= Len(inbox[e])
      BY <1>r
    <2>7. Head(inbox[e]) = Arrived(e)' /\ \A i \in 1..Coming(e)' : inbox'[e][i] = Arrived(e)' + i
      <3>1. Head(inbox[e]) = Arrived(e)'
        BY <1>q, <2>1, <2>3, <2>4, <2>5, AtEnd
      <3>2. ASSUME NEW i \in 1..Coming(e)' PROVE inbox'[e][i] = Arrived(e)' + i
        <4>1. i + 1 \in 1..Coming(e) /\ i \in 1..Len(inbox'[e])
          BY <1>q, <2>1, <2>3, <2>6, AtEnd
        <4>2. inbox'[e][i] = inbox[e][i + 1] /\ inbox[e][i + 1] = Arrived(e) + (i + 1)
          BY <1>q, <2>1, <2>5, <4>1
        <4> QED
          BY <2>4, <4>1, <4>2
      <3> QED
        BY <3>1, <3>2
    <2>8. BrokerInv(e)'
      <3>1. Alive(e)' /\ (HasClosed(e)' => loop'[Other(e)] \in {"done", "left"})
        BY <1>1, <1>q, <2>1, <2>2 DEF StreamInv, BrokerInv, Alive
      <3>2. Arrived(e)' \in Nat
        BY <2>4
      <3> QED
        BY <2>7, <3>1, <3>2 DEF BrokerInv
    <2>9. SinkInv(e)'
      <3> SUFFICES ASSUME Delivers(e)' PROVE SinkInv(e)'
        BY DEF SinkInv
      <3>1. Delivers(e)
        BY <1>1 DEF Delivers, Alive
      <3>2. subscribed[e] /\ routing'[e] = Arrived(e)' /\ routing'[e] # NoChunk
        BY <2>1, <2>7, <3>1 DEF StreamInv, SinkInv, Closed, NoChunk
      <3>3. UNCHANGED <<Routed(e), Received(e)>>
        BY <2>1, <2>4, <3>2 DEF Routed, Received, One
      <3> QED
        BY <1>1, <2>1, <3>1, <3>2, <3>3 DEF StreamInv, SinkInv, One
    <2> QED
      BY <1>1, <1>2, <1>3, <1>4, <2>8, <2>9 DEF StreamInv
  <1>6. CASE RouteClosed(e)
    <2>1. /\ Arrives(e) /\ inbox'[e] = Tail(inbox[e]) /\ Head(inbox[e]) = Closed
          /\ UNCHANGED <<routing, writeCh>>
      BY <1>6 DEF RouteClosed, Arrives, TypeOK, RouteTyped
    <2>2. Coming(e) = 0 /\ HasClosed(e) /\ Len(inbox[e]) = 1
      <3>1. \A i \in 1..Coming(e) : inbox[e][i] > 0
        BY DEF StreamInv, BrokerInv
      <3>2. ~(1 \in 1..Coming(e))
        BY <1>q, <2>1, <3>1 DEF Closed
      <3>3. Coming(e) = 0
        BY <1>r, <3>2
      <3>4. One(HasClosed(e)) \in {0, 1} /\ (One(HasClosed(e)) = 1 => HasClosed(e))
        BY DEF One
      <3> QED
        BY <1>q, <1>r, <2>1, <3>3, <3>4 DEF Coming
    <2>3. inbox'[e] = <<>> /\ ~HasClosed(e)' /\ Coming(e)' = 0
      <3>1. inbox'[e] = <<>>
        BY <1>q, <2>1, <2>2
      <3> QED
        BY <3>1 DEF Coming, HasClosed, One
    <2>4. UNCHANGED Arrived(e)
      BY <1>p, <2>2, <2>3 DEF Arrived
    <2>5. BrokerInv(e)'
      BY <2>3, <2>4 DEF StreamInv, BrokerInv
    <2>6. SinkInv(e)'
      <3>1. SinkQuiet(e)
        BY <1>1, <2>1 DEF SinkQuiet, Delivers, Alive
      <3> QED
        BY <2>4, <3>1, SinkKept DEF StreamInv
    <2> QED
      BY <1>1, <1>2, <1>3, <1>4, <2>5, <2>6 DEF StreamInv
  <1>7. CASE RouterWrites(e)
    <2>1. /\ routing[e] # NoChunk /\ routing'[e] = NoChunk
          /\ writeCh'[e] = Append(writeCh[e], routing[e])
          /\ UNCHANGED inbox
      BY <1>7 DEF RouterWrites, HandOn, TypeOK, RouteTyped
    <2>2. BrokerInv(e)' /\ UNCHANGED Arrived(e)
      <3>1. BrokerQuiet(e)
        BY <1>1, <2>1 DEF BrokerQuiet, Alive
      <3> QED
        BY <1>p, <3>1, BrokerKept DEF StreamInv
    <2>3. SinkInv(e)'
      <3> SUFFICES ASSUME Delivers(e)' PROVE SinkInv(e)'
        BY DEF SinkInv
      <3>1. Delivers(e)
        BY <1>1 DEF Delivers, Alive
      <3>2. Arrived(e) \in Nat /\ routing[e] = Arrived(e) /\ routing[e] \in Chunks
        BY <2>1, <3>1, AtEnd DEF StreamInv, BrokerInv, SinkInv, Chunks
      <3>3. /\ Len(writeCh'[e]) = Len(writeCh[e]) + 1
            /\ \A i \in 1..Len(writeCh[e]) : writeCh'[e][i] = writeCh[e][i]
            /\ writeCh'[e][Len(writeCh'[e])] = routing[e]
        BY <2>1, <3>2, AtEnd
      <3>4. Routed(e)' = Routed(e) + 1 /\ Routed(e) = Arrived(e) - 1 /\ UNCHANGED Received(e)
            /\ Received(e) + Len(writeCh[e]) = Arrived(e) - 1 /\ Received(e) \in Int
        <4>1. Routed(e) = Arrived(e) - 1 /\ Routed(e)' = Arrived(e) - 0
          BY <2>1, <2>2 DEF Routed, One
        <4>2. Received(e) = Routed(e) - Len(writeCh[e]) /\ Received(e)' = Routed(e)' - Len(writeCh'[e])
          BY DEF Received
        <4>3. Len(writeCh'[e]) = Len(writeCh[e]) + 1 /\ Len(writeCh[e]) \in Nat /\ Arrived(e) \in Nat
          BY <1>r, <3>2, <3>3
        <4>4. Routed(e) = Arrived(e) - 1 /\ Routed(e)' = Routed(e) + 1 /\ Routed(e) \in Int
          BY <4>1, <4>3
        <4>5. Received(e)' = (Routed(e) + 1) - (Len(writeCh[e]) + 1)
          BY <4>2, <4>3, <4>4
        <4> QED
          BY <4>2, <4>3, <4>4, <4>5
      <3>5. ASSUME NEW i \in 1..Len(writeCh'[e]) PROVE writeCh'[e][i] = Received(e) + i
        <4>1. CASE i \in 1..Len(writeCh[e])
          BY <3>1, <3>3, <4>1 DEF StreamInv, SinkInv
        <4>2. CASE i = Len(writeCh[e]) + 1
          BY <3>2, <3>3, <3>4, <4>2, AtEnd
        <4> QED
          BY <3>3, <4>1, <4>2, AtEnd
      <3> QED
        BY <1>1, <2>1, <2>2, <3>1, <3>4, <3>5 DEF StreamInv, SinkInv, One
    <2> QED
      BY <1>1, <1>2, <1>3, <1>4, <2>2, <2>3 DEF StreamInv
  <1> QED
    BY <1>5, <1>6, <1>7 DEF Router

\* What the main loops do to a stream is to cut it off.
LEMMA MainStream ==
    ASSUME TypeOK, TypeOK', StreamInv, NEW e \in Ends, Main(e) \/ Unsubscribe(e)
    PROVE  StreamInv'
  <1>1. /\ UNCHANGED <<read, reader, publishCh, hand, routing, writeCh, written, link>>
        /\ \A f \in Ends : f # e => UNCHANGED <<loop[f], main[f], conn[f], subscribed[f], inbox[f]>>
        /\ UNCHANGED loop[e] \/ (loop[e] = "off" /\ loop'[e] = "select")
           \/ (loop[e] = "done" /\ loop'[e] = "left")
        /\ conn'[e] = "open" => conn[e] = "open"
        /\ UNCHANGED subscribed[e] \/ loop'[e] = "left"
        /\ Alive(e)' => Alive(e) /\ UNCHANGED inbox[e]
        /\ Alive(e) /\ ~Alive(e)' => inbox'[e] = <<>>
        /\ ~Alive(e) => ~Alive(e)' /\ UNCHANGED inbox[e]
    <2>1. CASE Start(e)
      BY <2>1, EndsFacts DEF Start, StartLoop, Alive, readVars, routeVars, connVars, linkVars,
         TypeOK, LoopTyped
    <2>2. CASE HandleClosed(e)
      BY <2>2 DEF HandleClosed, Alive, readVars, loopVars, connVars, linkVars, TypeOK, EndTyped
    <2>3. CASE TakeSignal(e)
      <3>1. /\ UNCHANGED <<readVars, publishCh, loopVars, routing, writeCh, written, conn, subscribed, linkVars>>
            /\ \/ e = "client" /\ main' = [main EXCEPT !["client"] = "gone"]
                  /\ inbox' = [inbox EXCEPT !["client"] = <<>>]
               \/ UNCHANGED <<main, inbox>>
            /\ main[e] = "select"
        BY <2>3, EndsFacts DEF TakeSignal, ClientReturns, ServerForgets, routeVars, connVars
      <3> QED
        BY <3>1 DEF Alive, readVars, loopVars, linkVars, TypeOK, LoopTyped, RouteTyped
    <2>4. CASE Unsubscribe(e)
      BY <2>4 DEF Unsubscribe, InLoop, Alive, readVars, routeVars, connVars, mainVars, linkVars,
         TypeOK, EndTyped, LoopTyped
    <2> QED
      BY <2>1, <2>2, <2>3, <2>4 DEF Main
  <1>2. \A f \in Ends : SourceInv(f)' /\ UNCHANGED Published(f)
    <2>1. ASSUME NEW f \in Ends PROVE SourceQuiet(f)
      BY <1>1 DEF SourceQuiet
    <2> QED
      BY <2>1, SourceKept DEF StreamInv
  <1>3. ASSUME NEW f \in Ends PROVE BrokerInv(f)' /\ (Alive(f)' => UNCHANGED Arrived(f))
    <2>p. Other(f) \in Ends /\ Published(Other(f)) \in Nat /\ UNCHANGED Published(Other(f))
      BY <1>2, EndsFacts DEF StreamInv, SourceInv
    <2>1. CASE UNCHANGED inbox[f] /\ (Alive(f)' \/ ~Alive(f))
      <3>1. BrokerQuiet(f)
        BY <1>1, <2>1, <2>p DEF BrokerQuiet
      <3> QED
        BY <2>p, <3>1, BrokerKept DEF StreamInv
    <2>2. CASE ~Alive(f)' /\ inbox'[f] = <<>>
      <3>1. ~HasClosed(f)' /\ Coming(f)' = 0
        BY <2>2 DEF HasClosed, Coming, One
      <3>2. Arrived(f)' \in Nat
        BY <2>p, <3>1 DEF Arrived
      <3> QED
        BY <2>2, <3>1, <3>2 DEF BrokerInv
    <2> QED
      BY <1>1, <2>1, <2>2 DEF Alive
  <1>4. \A f \in Ends : SinkInv(f)'
    <2>1. ASSUME NEW f \in Ends PROVE SinkQuiet(f) /\ (Delivers(f)' => UNCHANGED Arrived(f))
      BY <1>1, <1>3 DEF SinkQuiet, Delivers, Alive
    <2> QED
      BY <2>1, SinkKept DEF StreamInv
  <1>5. \A f \in Ends : WrittenInv(f)'
    <2>1. \A f \in Ends : read[f] <= read'[f]
      BY <1>1, AtEnd
    <2> QED
      BY <1>1, <2>1, EndsFacts, WrittenKept DEF StreamInv
  <1> QED
    BY <1>1, <1>2, <1>3, <1>4, <1>5 DEF StreamInv


LEMMA QuietStream ==
    ASSUME TypeOK, TypeOK', StreamInv,
           UNCHANGED <<read, reader, publishCh, loop, hand, inbox, main, link, routing, writeCh, written,
                       subscribed, conn>>
    PROVE  StreamInv'
  <1>1. ASSUME NEW f \in Ends PROVE SourceQuiet(f) /\ BrokerQuiet(f) /\ SinkQuiet(f)
    BY DEF SourceQuiet, BrokerQuiet, SinkQuiet, Alive, Delivers
  <1>2. \A f \in Ends : SourceInv(f)' /\ UNCHANGED Published(f)
    BY <1>1, SourceKept DEF StreamInv
  <1>3. \A f \in Ends : BrokerInv(f)' /\ UNCHANGED Arrived(f)
    BY <1>1, <1>2, EndsFacts, BrokerKept DEF StreamInv
  <1>4. \A f \in Ends : SinkInv(f)'
    BY <1>1, <1>3, SinkKept DEF StreamInv
  <1>5. \A f \in Ends : WrittenInv(f)'
    <2>1. \A f \in Ends : read[f] <= read'[f]
      BY AtEnd
    <2> QED
      BY <2>1, EndsFacts, WrittenKept DEF StreamInv
  <1> QED
    BY <1>2, <1>3, <1>4, <1>5 DEF StreamInv

LEMMA StreamInit == Init => StreamInv
  <1> SUFFICES ASSUME Init, NEW e \in Ends
               PROVE  link = "up" /\ SourceInv(e) /\ BrokerInv(e) /\ SinkInv(e) /\ WrittenInv(e)
    BY DEF StreamInv, Init
  <1>1. /\ read[e] = 0 /\ read[Other(e)] = 0 /\ publishCh[e] = <<>> /\ publishCh[Other(e)] = <<>>
        /\ inbox[e] = <<>> /\ routing[e] = NoChunk /\ writeCh[e] = <<>> /\ written[e] = <<>>
        /\ loop[e] \in {"select", "off"} /\ loop[Other(e)] \in {"select", "off"}
        /\ subscribed[e] /\ Alive(e) /\ link = "up"
    BY EndsFacts DEF Init, Alive
  <1>2. Len(<<>>) = 0 /\ 0 - 0 = 0
    OBVIOUS
  <1>3. Published(e) = 0 /\ Taken(e) = 0 /\ Published(Other(e)) = 0
    <2>1. Taken(e) = 0 - 0 /\ Taken(Other(e)) = 0 - 0
      BY <1>1, <1>2 DEF Taken
    <2>2. One(loop[e] = "publish") = 0 /\ One(loop[Other(e)] = "publish") = 0
      BY <1>1 DEF One
    <2> QED
      BY <1>2, <2>1, <2>2 DEF Published
  <1>4. ~HasClosed(e) /\ Coming(e) = 0 /\ Arrived(e) = 0 /\ Routed(e) = 0 /\ Received(e) = 0
    <2>1. ~HasClosed(e)
      BY <1>1 DEF HasClosed
    <2>2. One(HasClosed(e)) = 0 /\ One(routing[e] # NoChunk) = 0
      BY <1>1, <2>1 DEF One
    <2>3. Coming(e) = 0 - 0
      BY <1>1, <1>2, <2>2 DEF Coming
    <2>4. Arrived(e) = 0 - 0
      BY <1>2, <1>3, <2>3 DEF Arrived
    <2>5. Routed(e) = 0 - 0
      BY <1>2, <2>2, <2>4 DEF Routed
    <2>6. Received(e) = 0 - 0
      BY <1>1, <1>2, <2>5 DEF Received
    <2> QED
      BY <1>2, <2>1, <2>3, <2>4, <2>5, <2>6
  <1>5. SourceInv(e)
    BY <1>1, <1>2, <1>3 DEF SourceInv
  <1>6. BrokerInv(e)
    BY <1>1, <1>4 DEF BrokerInv
  <1>7. SinkInv(e)
    <2>1. One(loop[e] = "write") = 0 /\ loop[e] # "write"
      BY <1>1 DEF One
    <2> QED
      BY <1>1, <1>2, <1>4, <2>1 DEF SinkInv
  <1>8. WrittenInv(e)
    BY <1>1, <1>2 DEF WrittenInv
  <1> QED
    BY <1>1, <1>5, <1>6, <1>7, <1>8

LEMMA StreamNext ==
    ASSUME MaxLinkLoss = 0, TypeOK, TypeOK', StreamInv, [Next]_vars
    PROVE  StreamInv'
  <1>1. CASE UNCHANGED vars
    BY <1>1, QuietStream DEF vars, readVars, loopVars, routeVars, connVars, mainVars, linkVars
  <1>2. ASSUME NEW e \in Ends, Produce(e) \/ SourceEnds(e) PROVE StreamInv'
    <2>1. UNCHANGED <<read, reader, publishCh, loop, hand, inbox, main, link, routing, writeCh, written,
                      subscribed, conn>>
      BY <1>2 DEF Produce, SourceEnds, loopVars, routeVars, connVars, mainVars, linkVars
    <2> QED
      BY <2>1, QuietStream
  <1>3. ASSUME NEW e \in Ends, Loop(e) PROVE StreamInv'
    BY <1>3, TakeStream, PublishStream, ReceiveStream, WriteStream, EndStream, MainStream DEF Loop
  <1>4. CASE LinkLost
    BY <1>4, BoundAssumption DEF LinkLost, TypeOK, LinkTyped
  <1>5. CASE LinkUp
    BY <1>5 DEF LinkUp, StreamInv
  <1>6. CASE CloseAllTunnels
    BY <1>6, QuietStream DEF CloseAllTunnels, readVars, loopVars, routeVars, connVars
  <1> QED
    BY <1>1, <1>2, <1>3, <1>4, <1>5, <1>6, ReadStream, RouterStream, MainStream DEF Next

LEMMA StreamAlways == MaxLinkLoss = 0 => (Spec => [](TypeOK /\ StreamInv))
  <1> SUFFICES ASSUME MaxLinkLoss = 0 PROVE Spec => [](TypeOK /\ StreamInv)
    OBVIOUS
  <1>1. Init => TypeOK /\ StreamInv
    BY TypeInit, StreamInit
  <1>2. TypeOK /\ StreamInv /\ [Next]_vars => (TypeOK /\ StreamInv)'
    BY TypeNext, StreamNext
  <1> QED
    BY <1>1, <1>2, PTL DEF Spec

LEMMA IntactHolds == TypeOK /\ StreamInv => StreamIntact
  <1> SUFFICES ASSUME TypeOK, StreamInv, NEW e \in Ends
               PROVE  /\ Len(written[e]) <= produced[Other(e)]
                      /\ \A n \in 1..Len(written[e]) : written[e][n] = n
    BY DEF StreamIntact
  <1>1. Other(e) \in Ends
    BY EndsFacts
  <1>2. read[Other(e)] <= produced[Other(e)] /\ read[Other(e)] \in Nat /\ produced[Other(e)] \in Nat
        /\ Len(written[e]) \in Nat
    BY <1>1, AtEnd DEF TypeOK, ReadTyped
  <1> QED
    BY <1>2 DEF StreamInv, WrittenInv

LEMMA ClosedHolds == TypeOK /\ StreamInv => ClosedAfterData
  <1> SUFFICES ASSUME TypeOK, StreamInv, NEW e \in Ends, loop[e] \in {"done", "left"}
               PROVE  /\ publishCh[e] = <<>>
                      /\ \A i \in 1..Len(inbox[Other(e)]) : inbox[Other(e)][i] = Closed =>
                            /\ i = Len(inbox[Other(e)])
                            /\ i > 1 => inbox[Other(e)][i - 1] = read[e]
    BY DEF ClosedAfterData
  <1> DEFINE o == Other(e)
  <1>o. o \in Ends /\ Other(o) = e
    BY EndsFacts
  <1> HIDE DEF o
  <1>1. publishCh[e] = <<>> /\ Published(e) = read[e] /\ read[e] \in Nat
    <2>1. publishCh[e] = <<>>
      BY DEF StreamInv, SourceInv
    <2>2. Len(<<>>) = 0
      OBVIOUS
    <2> QED
      BY <2>1, <2>2, AtEnd DEF Published, Taken, One
  <1>2. Arrived(o) \in Nat /\ Arrived(o) + Coming(o) = read[e] /\ Coming(o) \in Int /\ Len(inbox[o]) \in Nat
    <2>1. Arrived(o) \in Nat /\ Coming(o) \in Int /\ Len(inbox[o]) \in Nat
      BY <1>o, AtEnd DEF StreamInv, BrokerInv
    <2>2. Arrived(o) = read[e] - Coming(o)
      BY <1>o, <1>1 DEF Arrived
    <2> QED
      BY <1>1, <2>1, <2>2
  <1>3. \A i \in 1..Coming(o) : inbox[o][i] = Arrived(o) + i
    BY <1>o DEF StreamInv, BrokerInv
  <1>4. Coming(o) = Len(inbox[o]) - 0 \/ Coming(o) = Len(inbox[o]) - 1
    BY DEF Coming, One
  <1>5. ASSUME NEW i \in 1..Len(inbox[o]), inbox[o][i] = Closed
        PROVE  /\ i = Len(inbox[o])
               /\ i > 1 => inbox[o][i - 1] = read[e]
    <2>1. i \notin 1..Coming(o)
      BY <1>2, <1>3, <1>5 DEF Closed
    <2>2. i = Len(inbox[o]) /\ Coming(o) = i - 1
      BY <1>2, <1>4, <2>1
    <2>3. i > 1 => inbox[o][i - 1] = Arrived(o) + (i - 1)
      BY <1>2, <1>3, <2>2
    <2> QED
      BY <1>2, <2>2, <2>3
  <1> QED
    BY <1>1, <1>5 DEF o

\* While the server's connection to the broker lasts, what a program has got
\* is a prefix of what the program at the other end sent: no chunk is lost
\* between two that arrive, doubled or changed in order, whatever ends when.
THEOREM IntactCorrect == MaxLinkLoss = 0 => (Spec => []StreamIntact)
  <1> SUFFICES ASSUME MaxLinkLoss = 0 PROVE Spec => []StreamIntact
    OBVIOUS
  <1>1. Spec => [](TypeOK /\ StreamInv)
    BY StreamAlways
  <1> QED
    BY <1>1, IntactHolds, PTL

\* The closed packet of an end that has left mainLoop is behind the last chunk
\* its handleRead has read.
THEOREM ClosedCorrect == MaxLinkLoss = 0 => (Spec => []ClosedAfterData)
  <1> SUFFICES ASSUME MaxLinkLoss = 0 PROVE Spec => []ClosedAfterData
    OBVIOUS
  <1>1. Spec => [](TypeOK /\ StreamInv)
    BY StreamAlways
  <1> QED
    BY <1>1, ClosedHolds, PTL

-----------------------------------------------------------------------------
(***************************************************************************)
(* The refinement: a step is the Send, the Deliver or the Cut of one end's *)
(* Pipe, or leaves the Pipes as they are.                                  *)
(***************************************************************************)
Sends    == [e \in Ends |-> produced[Other(e)]]
CutOff   == [e \in Ends |-> conn[e] = "closed" \/ ~Alive(e)]

LEMMA PipeCut ==
    ASSUME NEW e \in Ends, UNCHANGED <<produced, written>>,
           \A f \in Ends : f # e => UNCHANGED <<conn[f], main[f]>>,
           conn'[e] = "closed" \/ main'[e] = "gone"
    PROVE  P!Cut(e)
  <1>1. UNCHANGED Sends
    BY DEF Sends
  <1>2. \A f \in Ends : f # e => UNCHANGED CutOff[f]
    BY DEF CutOff, Alive
  <1>3. CutOff'[e] = TRUE
    BY DEF CutOff, Alive
  <1>4. CutOff' = [CutOff EXCEPT ![e] = TRUE]
    BY <1>2, <1>3 DEF CutOff
  <1> QED
    BY <1>1, <1>4 DEF P!Cut, Sends, CutOff

LEMMA PipeQuiet ==
    ASSUME UNCHANGED <<produced, written, conn, main>>
    PROVE  UNCHANGED P!pipeVars
  BY DEF P!pipeVars, Alive

LEMMA PipeStarts ==
    ASSUME TypeOK, NEW e \in Ends, Start(e)
    PROVE  UNCHANGED P!pipeVars
  <1>1. /\ UNCHANGED <<produced, written, conn>>
        /\ \A f \in Ends : Alive(f) <=> Alive(f)'
    BY DEF Start, Alive, readVars, connVars, TypeOK, LoopTyped
  <1>2. UNCHANGED CutOff
    BY <1>1 DEF CutOff
  <1> QED
    BY <1>1, <1>2 DEF P!pipeVars, CutOff

LEMMA PipeSends ==
    ASSUME TypeOK, NEW e \in Ends, Produce(e)
    PROVE  P!Send(Other(e))
  <1>1. /\ produced' = [produced EXCEPT ![e] = produced[e] + 1]
        /\ UNCHANGED <<written, conn, main>>
        /\ produced \in [Ends -> Nat]
    BY DEF Produce, connVars, mainVars, TypeOK, ReadTyped
  <1>2. UNCHANGED <<written, CutOff>>
    BY <1>1 DEF CutOff, Alive
  <1>3. Sends' = [Sends EXCEPT ![Other(e)] = Sends[Other(e)] + 1]
    <2>1. Sends'[Other(e)] = Sends[Other(e)] + 1
      BY <1>1, EndsFacts DEF Sends
    <2>2. ASSUME NEW f \in Ends, f # Other(e) PROVE Sends'[f] = Sends[f]
      BY <1>1, <2>2, EndsFacts DEF Sends
    <2> QED
      BY <2>1, <2>2 DEF Sends
  <1> QED
    BY <1>2, <1>3 DEF P!Send, Sends, CutOff

LEMMA PipeDelivers ==
    ASSUME TypeOK, TypeOK', StreamInv, NEW e \in Ends, LoopWrites(e), Accepts(e)
    PROVE  P!Deliver(e)
  <1>1. /\ written' = [written EXCEPT ![e] = Append(written[e], hand[e])]
        /\ UNCHANGED <<produced, conn, main>> /\ Alive(e) /\ conn[e] = "open"
    BY DEF LoopWrites, InLoop, Accepts, connVars, mainVars, readVars
  <1>2. hand[e] = Len(written[e]) + 1 /\ Len(written[e]) < read[Other(e)]
    BY WriteStream
  <1>3. Len(written[e]) < produced[Other(e)]
    <2>1. Other(e) \in Ends
      BY EndsFacts
    <2>2. read[Other(e)] <= produced[Other(e)] /\ read[Other(e)] \in Nat /\ produced[Other(e)] \in Nat
          /\ Len(written[e]) \in Nat
      BY <2>1, AtEnd DEF TypeOK, ReadTyped
    <2> QED
      BY <1>2, <2>2
  <1>4. UNCHANGED <<Sends, CutOff>> /\ ~CutOff[e] /\ Sends[e] = produced[Other(e)]
    BY <1>1 DEF CutOff, Sends, Alive
  <1> QED
    BY <1>1, <1>2, <1>3, <1>4 DEF P!Deliver, Sends, CutOff

LEMMA PipeStep ==
    ASSUME TypeOK, TypeOK', StreamInv, [Next]_vars
    PROVE  [P!PipeNext]_(P!pipeVars)
  <1> USE DEF P!PipeNext
  <1>1. CASE UNCHANGED vars
    BY <1>1, PipeQuiet DEF vars, readVars, connVars, mainVars
  <1>2. ASSUME NEW e \in Ends, Produce(e) PROVE [P!PipeNext]_(P!pipeVars)
    BY <1>2, PipeSends, EndsFacts
  <1>3. ASSUME NEW e \in Ends, SourceEnds(e) \/ ReadChunk(e) \/ ReadEnds(e) PROVE [P!PipeNext]_(P!pipeVars)
    BY <1>3, PipeQuiet DEF SourceEnds, ReadChunk, ReadEnds, PassLast, connVars, mainVars
  <1>4. ASSUME NEW e \in Ends, ReaderCloses(e) PROVE [P!PipeNext]_(P!pipeVars)
    <2>1. P!Cut(e)
      BY <1>4, PipeCut DEF ReaderCloses, mainVars, TypeOK, EndTyped
    <2> QED
      BY <2>1
  <1>5. ASSUME NEW e \in Ends, LoopWrites(e) PROVE [P!PipeNext]_(P!pipeVars)
    <2>1. CASE Accepts(e)
      BY <1>5, <2>1, PipeDelivers
    <2>2. CASE ~Accepts(e)
      BY <1>5, <2>2, PipeQuiet DEF LoopWrites, readVars, connVars, mainVars
    <2> QED
      BY <2>1, <2>2
  <1>6. ASSUME NEW e \in Ends, LoopTakes(e) \/ LoopPublishes(e) \/ LoopReceives(e) \/ LoopEnds(e) \/ Unsubscribe(e)
        PROVE  [P!PipeNext]_(P!pipeVars)
    BY <1>6, PipeQuiet DEF LoopTakes, LoopPublishes, LoopReceives, LoopEnds, Unsubscribe, readVars, connVars, mainVars
  <1>7. ASSUME NEW e \in Ends, Router(e) PROVE [P!PipeNext]_(P!pipeVars)
    BY <1>7, PipeQuiet DEF Router, RouteData, RouterWrites, RouteClosed, readVars, connVars, mainVars
  <1>8. ASSUME NEW e \in Ends, Start(e) PROVE [P!PipeNext]_(P!pipeVars)
    BY <1>8, PipeStarts
  <1>9. ASSUME NEW e \in Ends, HandleClosed(e) PROVE [P!PipeNext]_(P!pipeVars)
    <2>1. CASE registered[e]
      <3>1. P!Cut(e)
        BY <1>9, <2>1, PipeCut DEF HandleClosed, readVars, TypeOK, EndTyped
      <3> QED
        BY <3>1
    <2>2. CASE ~registered[e]
      BY <1>9, <2>2, PipeQuiet DEF HandleClosed, readVars, connVars
    <2> QED
      BY <2>1, <2>2
  <1>10. ASSUME NEW e \in Ends, TakeSignal(e) PROVE [P!PipeNext]_(P!pipeVars)
    <2>1. CASE e = "client"
      <3>1. P!Cut(e)
        BY <1>10, <2>1, PipeCut DEF TakeSignal, ClientReturns, readVars, connVars, TypeOK, LoopTyped
      <3> QED
        BY <3>1
    <2>2. CASE e # "client"
      BY <1>10, <2>2, PipeQuiet DEF TakeSignal, ServerForgets, readVars, connVars
    <2> QED
      BY <2>1, <2>2
  <1>11. CASE LinkLost \/ LinkUp \/ CloseAllTunnels
    BY <1>11, PipeQuiet DEF LinkLost, LinkUp, CloseAllTunnels, readVars, connVars, mainVars
  <1> QED
    BY <1>1, <1>2, <1>3, <1>4, <1>5, <1>6, <1>7, <1>8, <1>9, <1>10, <1>11 DEF Next, Reader, Loop, Main

LEMMA PipeInits == Init => P!PipeInit
  <1> SUFFICES ASSUME Init PROVE P!PipeInit
    OBVIOUS
  <1>1. \A e \in Ends : produced[Other(e)] = 0 /\ conn[e] # "closed" /\ main[e] # "gone" /\ written[e] = <<>>
    BY EndsFacts DEF Init
  <1> QED
    BY <1>1 DEF P!PipeInit, Alive, Init

\* Each direction of a tunnel is a Pipe: what the program at an end gets is
\* what the program at the other end sent, in order and without a gap, until
\* this end closes its connection or its process ends, and nothing after that.
THEOREM PipeCorrect == MaxLinkLoss = 0 => (Spec => ImplementsPipe)
  <1> SUFFICES ASSUME MaxLinkLoss = 0 PROVE Spec => ImplementsPipe
    OBVIOUS
  <1>1. Spec => [](TypeOK /\ StreamInv)
    BY StreamAlways
  <1>2. TypeOK /\ TypeOK' /\ StreamInv /\ [Next]_vars => [P!PipeNext]_(P!pipeVars)
    BY PipeStep
  <1> QED
    BY <1>1, <1>2, PipeInits, PTL DEF Spec, ImplementsPipe, P!PipeSpec

-----------------------------------------------------------------------------
(***************************************************************************)
(* With a connection that may be lost chunks are missing, but bounds on    *)
(* what each channel holds keep them apart.                                *)
(***************************************************************************)
Within(q, lo, hi) ==
    \A i \in 1..Len(q) : q[i] # Closed => /\ lo < q[i] /\ q[i] <= hi
                                          /\ \A j \in 1..i - 1 : q[j] < q[i]

Separated(e, a, b, c, d) ==
    /\ a <= b /\ b <= c /\ c <= d /\ d <= Published(Other(e))
    /\ Within(written[e], 0, a)
    /\ loop[e] = "write" => a < hand[e] /\ hand[e] <= b
    /\ Within(writeCh[e], b, c)
    /\ routing[e] # NoChunk => c < routing[e] /\ routing[e] <= d
    /\ Within(inbox[e], d, Published(Other(e)))

Ordered(e) == \E a, b, c, d \in Nat : Separated(e, a, b, c, d)

OrderInv == \A e \in Ends : SourceInv(e) /\ Ordered(e)

LEMMA WithinWider ==
    ASSUME NEW q \in Seq(Nat), NEW lo \in Nat, NEW hi \in Nat, NEW hi2 \in Nat, hi <= hi2, Within(q, lo, hi)
    PROVE  Within(q, lo, hi2)
  <1>1. \A i \in 1..Len(q) : q[i] \in Nat
    OBVIOUS
  <1> QED
    BY <1>1 DEF Within

LEMMA WithinTail ==
    ASSUME NEW q \in Seq(Nat), q # <<>>, NEW lo \in Nat, NEW hi \in Nat, Within(q, lo, hi)
    PROVE  /\ Tail(q) \in Seq(Nat) /\ Head(q) \in Nat
           /\ Within(Tail(q), lo, hi)
           /\ Head(q) # Closed => lo < Head(q) /\ Head(q) <= hi /\ Within(Tail(q), Head(q), hi)
  <1>1. /\ Len(q) \in Nat /\ Len(q) > 0 /\ Head(q) = q[1] /\ Tail(q) \in Seq(Nat) /\ Head(q) \in Nat
        /\ Len(Tail(q)) = Len(q) - 1
        /\ \A i \in 1..Len(q) - 1 : Tail(q)[i] = q[i + 1]
        /\ \A i \in 1..Len(q) : q[i] \in Nat
    OBVIOUS
  <1>2. ASSUME NEW i \in 1..Len(Tail(q)), Tail(q)[i] # Closed
        PROVE  /\ lo < Tail(q)[i] /\ Tail(q)[i] <= hi /\ Head(q) < Tail(q)[i]
               /\ \A j \in 1..i - 1 : Tail(q)[j] < Tail(q)[i]
    <2>1. i + 1 \in 1..Len(q) /\ Tail(q)[i] = q[i + 1]
      BY <1>1
    <2>2. lo < q[i + 1] /\ q[i + 1] <= hi /\ \A j \in 1..i : q[j] < q[i + 1]
      <3>1. (i + 1) - 1 = i
        OBVIOUS
      <3> QED
        BY <1>2, <2>1, <3>1 DEF Within
    <2>3. ASSUME NEW j \in 1..i - 1 PROVE Tail(q)[j] < Tail(q)[i]
      <3>1. j + 1 \in 1..i /\ j \in 1..Len(q) - 1
        BY <1>1
      <3> QED
        BY <1>1, <2>1, <2>2, <3>1
    <2>4. 1 \in 1..i
      OBVIOUS
    <2> QED
      BY <1>1, <2>1, <2>2, <2>3, <2>4
  <1>3. Head(q) # Closed => lo < Head(q) /\ Head(q) <= hi
    BY <1>1 DEF Within
  <1> QED
    BY <1>1, <1>2, <1>3 DEF Within

LEMMA WithinAppend ==
    ASSUME NEW q \in Seq(Nat), NEW lo \in Nat, NEW hi \in Nat, NEW x \in Nat, lo <= hi, Within(q, lo, hi)
    PROVE  /\ x = Closed => Within(Append(q, x), lo, hi)
           /\ hi < x => Within(Append(q, x), lo, x)
  <1>1. /\ Len(q) \in Nat /\ Len(Append(q, x)) = Len(q) + 1
        /\ \A i \in 1..Len(q) : Append(q, x)[i] = q[i] /\ q[i] \in Nat
        /\ Append(q, x)[Len(q) + 1] = x
    OBVIOUS
  <1>2. ASSUME NEW i \in 1..Len(q), q[i] # Closed
        PROVE  /\ lo < Append(q, x)[i] /\ Append(q, x)[i] <= hi
               /\ \A j \in 1..i - 1 : Append(q, x)[j] < Append(q, x)[i]
    <2>1. lo < q[i] /\ q[i] <= hi /\ \A j \in 1..i - 1 : q[j] < q[i]
      BY <1>2 DEF Within
    <2>2. \A j \in 1..i - 1 : j \in 1..Len(q)
      BY <1>1
    <2> QED
      BY <1>1, <2>1, <2>2
  <1>3. ASSUME hi < x
        PROVE  lo < x /\ \A j \in 1..Len(q) : q[j] < x
    <2>1. ASSUME NEW j \in 1..Len(q) PROVE q[j] < x
      <3>1. q[j] \in Nat /\ (q[j] = 0 \/ q[j] <= hi)
        BY <1>1 DEF Within, Closed
      <3> QED
        BY <1>3, <3>1
    <2> QED
      BY <1>3, <2>1
  <1>4. \A i \in 1..Len(q) + 1 : i \in 1..Len(q) \/ i = Len(q) + 1
    BY <1>1
  <1>5. x = Closed => Within(Append(q, x), lo, hi)
    <2> SUFFICES ASSUME x = Closed, NEW i \in 1..Len(q) + 1, Append(q, x)[i] # Closed
                 PROVE  /\ lo < Append(q, x)[i] /\ Append(q, x)[i] <= hi
                        /\ \A j \in 1..i - 1 : Append(q, x)[j] < Append(q, x)[i]
      BY <1>1 DEF Within
    <2>1. i \in 1..Len(q) /\ q[i] # Closed
      BY <1>1, <1>4
    <2> QED
      BY <1>2, <2>1
  <1>6. hi < x => Within(Append(q, x), lo, x)
    <2> SUFFICES ASSUME hi < x, NEW i \in 1..Len(q) + 1, Append(q, x)[i] # Closed
                 PROVE  /\ lo < Append(q, x)[i] /\ Append(q, x)[i] <= x
                        /\ \A j \in 1..i - 1 : Append(q, x)[j] < Append(q, x)[i]
      BY <1>1 DEF Within
    <2>1. CASE i \in 1..Len(q)
      <3>1. lo < Append(q, x)[i] /\ Append(q, x)[i] <= hi
            /\ \A j \in 1..i - 1 : Append(q, x)[j] < Append(q, x)[i]
        BY <1>1, <1>2, <2>1
      <3>2. Append(q, x)[i] \in Nat
        BY <1>1, <2>1
      <3> QED
        BY <3>1, <3>2
    <2>2. CASE i = Len(q) + 1
      <3>1. \A j \in 1..i - 1 : j \in 1..Len(q)
        BY <1>1, <2>2
      <3> QED
        BY <1>1, <1>3, <2>2, <3>1
    <2> QED
      BY <1>4, <2>1, <2>2
  <1> QED
    BY <1>5, <1>6

LEMMA WithinEmpty == \A lo, hi : Within(<<>>, lo, hi)
  <1>1. Len(<<>>) = 0
    OBVIOUS
  <1> QED
    BY <1>1 DEF Within

LEMMA ChunksAreNats == \A q \in Seq(Chunks) : q \in Seq(Nat)
  BY DEF Chunks

\* What leaves an end's own channels as they are, and the broker in order.
LEMMA SinkWaits ==
    ASSUME NEW e \in Ends, NEW a \in Nat, NEW b \in Nat, NEW c \in Nat, NEW d \in Nat,
           Separated(e, a, b, c, d),
           UNCHANGED <<written[e], writeCh[e], routing[e]>>,
           loop'[e] = "write" => loop[e] = "write" /\ hand'[e] = hand[e],
           d <= Published(Other(e))',
           Within(inbox'[e], d, Published(Other(e))')
    PROVE  Separated(e, a, b, c, d)'
  BY DEF Separated, Within

\* The types of what an end has, for the lemmas about Within.
LEMMA AtSink ==
    ASSUME TypeOK, NEW e \in Ends, SourceInv(Other(e))
    PROVE  /\ inbox[e] \in Seq(Nat) /\ writeCh[e] \in Seq(Nat) /\ written[e] \in Seq(Nat)
           /\ Published(Other(e)) \in Nat /\ hand[e] \in Nat /\ routing[e] \in Nat
  BY AtEnd, ChunksAreNats DEF SourceInv

\* Every step of the other end, of the link and of this end's source.
LEMMA OrderedInbox ==
    ASSUME TypeOK, TypeOK', NEW e \in Ends, SourceInv(Other(e)), SourceInv(Other(e))',
           NEW a \in Nat, NEW b \in Nat, NEW c \in Nat, NEW d \in Nat, Separated(e, a, b, c, d),
           UNCHANGED <<written[e], writeCh[e], routing[e]>>,
           loop'[e] = "write" => loop[e] = "write" /\ hand'[e] = hand[e],
           \/ inbox'[e] \in {inbox[e], <<>>, Append(inbox[e], Closed)} /\ Published(Other(e)) <= Published(Other(e))'
           \/ inbox'[e] = Append(inbox[e], Published(Other(e))') /\ Published(Other(e))' = Published(Other(e)) + 1
    PROVE  Separated(e, a, b, c, d)'
  <1> DEFINE p == Published(Other(e))
             pp == Published(Other(e))'
  <1>1. /\ d <= p /\ Within(inbox[e], d, p) /\ inbox[e] \in Seq(Nat)
        /\ p \in Nat /\ pp \in Nat
    BY AtSink DEF Separated, SourceInv
  <1>2. \/ inbox'[e] \in {inbox[e], <<>>, Append(inbox[e], Closed)} /\ p <= pp
        \/ inbox'[e] = Append(inbox[e], pp) /\ pp = p + 1
    OBVIOUS
  <1> HIDE DEF p, pp
  <1>3. d <= pp
    BY <1>1, <1>2
  <1>4. Within(inbox'[e], d, pp)
    <2>1. CASE inbox'[e] = inbox[e] /\ p <= pp
      BY <1>1, <2>1, WithinWider
    <2>2. CASE inbox'[e] = <<>>
      BY <2>2, WithinEmpty
    <2>3. CASE inbox'[e] = Append(inbox[e], Closed) /\ p <= pp
      <3>1. Closed \in Nat
        BY DEF Closed
      <3>2. Within(Append(inbox[e], Closed), d, p) /\ Append(inbox[e], Closed) \in Seq(Nat)
        BY <1>1, <3>1, WithinAppend
      <3>3. Within(Append(inbox[e], Closed), d, pp)
        BY <1>1, <2>3, <3>2, WithinWider
      <3> QED
        BY <2>3, <3>3
    <2>4. CASE inbox'[e] = Append(inbox[e], pp) /\ pp = p + 1
      <3>1. p < pp
        BY <1>1, <2>4
      <3> QED
        BY <1>1, <2>4, <3>1, WithinAppend
    <2> QED
      BY <1>2, <2>1, <2>2, <2>3, <2>4
  <1> QED
    BY <1>3, <1>4, SinkWaits DEF p, pp

(* Every step of the channels of an end. *)

LEMMA OrderedReceive ==
    ASSUME TypeOK, NEW e \in Ends, SourceInv(Other(e)), LoopReceives(e), Ordered(e),
           UNCHANGED Published(Other(e))
    PROVE  Ordered(e)'
  <1>1. PICK a \in Nat, b \in Nat, c \in Nat, d \in Nat : Separated(e, a, b, c, d)
    BY DEF Ordered
  <1>2. /\ UNCHANGED <<written[e], routing[e], inbox[e]>>
        /\ loop[e] = "select" /\ writeCh[e] # <<>>
        /\ writeCh'[e] = Tail(writeCh[e]) /\ hand'[e] = Head(writeCh[e])
    BY DEF LoopReceives, InLoop, routeVars, TypeOK, RouteTyped, LoopTyped
  <1>3. writeCh[e] \in Seq(Nat) /\ Head(writeCh[e]) \in Nat /\ Head(writeCh[e]) # Closed
    BY <1>2, AtEnd, ChunksAreNats DEF Chunks, NoChunk, Closed
  <1>4. PICK h \in Nat : h = Head(writeCh[e])
    BY <1>3
  <1>5. b < h /\ h <= c /\ Within(writeCh'[e], h, c)
    BY <1>1, <1>2, <1>3, <1>4, WithinTail DEF Separated
  <1>6. a < h /\ a <= h
    BY <1>1, <1>5 DEF Separated
  <1>7. Separated(e, a, h, c, d)'
    BY <1>1, <1>2, <1>4, <1>5, <1>6 DEF Separated
  <1> QED
    BY <1>7 DEF Ordered

LEMMA OrderedWrite ==
    ASSUME TypeOK, NEW e \in Ends, SourceInv(Other(e)), LoopWrites(e), Ordered(e),
           UNCHANGED Published(Other(e))
    PROVE  Ordered(e)'
  <1>1. PICK a \in Nat, b \in Nat, c \in Nat, d \in Nat : Separated(e, a, b, c, d)
    BY DEF Ordered
  <1>2. /\ UNCHANGED <<writeCh[e], routing[e], inbox[e]>>
        /\ loop[e] = "write" /\ loop'[e] = "select"
        /\ written'[e] = Append(written[e], hand[e]) \/ written'[e] = written[e]
    BY DEF LoopWrites, InLoop, routeVars, TypeOK, RouteTyped, LoopTyped
  <1>3. written[e] \in Seq(Nat) /\ hand[e] \in Nat
    BY AtSink
  <1>4. PICK h \in Nat : h = hand[e]
    BY <1>3
  <1>5. a < h /\ h <= b /\ Within(written[e], 0, a)
    BY <1>1, <1>2, <1>4 DEF Separated
  <1>6. Within(written'[e], 0, h)
    <2>1. 0 \in Nat /\ 0 <= a /\ a <= h
      BY <1>5
    <2>2. CASE written'[e] = Append(written[e], hand[e])
      BY <1>3, <1>4, <1>5, <2>1, <2>2, WithinAppend
    <2>3. CASE written'[e] = written[e]
      BY <1>3, <1>5, <2>1, <2>3, WithinWider
    <2> QED
      BY <1>2, <2>2, <2>3
  <1>7. Separated(e, h, b, c, d)'
    BY <1>1, <1>2, <1>5, <1>6 DEF Separated
  <1> QED
    BY <1>7 DEF Ordered

LEMMA OrderedRouter ==
    ASSUME TypeOK, NEW e \in Ends, SourceInv(Other(e)), Router(e), Ordered(e),
           UNCHANGED Published(Other(e))
    PROVE  Ordered(e)'
  <1>1. PICK a \in Nat, b \in Nat, c \in Nat, d \in Nat : Separated(e, a, b, c, d)
    BY DEF Ordered
  <1>2. UNCHANGED <<written[e], loop[e], hand[e]>>
    BY DEF Router, RouteData, RouterWrites, RouteClosed, loopVars
  <1>3. inbox[e] \in Seq(Nat) /\ writeCh[e] \in Seq(Nat) /\ routing[e] \in Nat /\ Published(Other(e)) \in Nat
    BY AtSink
  <1>4. CASE RouteData(e) \/ RouteClosed(e)
    <2>1. /\ UNCHANGED writeCh[e] /\ routing[e] = NoChunk
          /\ inbox[e] # <<>> /\ inbox'[e] = Tail(inbox[e])
          /\ \/ routing'[e] = NoChunk
             \/ Head(inbox[e]) # Closed /\ routing'[e] = Head(inbox[e])
      BY <1>4 DEF RouteData, RouteClosed, Arrives, TypeOK, RouteTyped
    <2>2. /\ Head(inbox[e]) \in Nat
          /\ Within(inbox'[e], d, Published(Other(e)))
          /\ Head(inbox[e]) # Closed => /\ d < Head(inbox[e]) /\ Head(inbox[e]) <= Published(Other(e))
                                        /\ Within(inbox'[e], Head(inbox[e]), Published(Other(e)))
      BY <1>1, <1>3, <2>1, WithinTail DEF Separated
    <2>3. CASE routing'[e] = NoChunk
      <3>1. Separated(e, a, b, c, d)'
        BY <1>1, <1>2, <2>1, <2>2, <2>3 DEF Separated
      <3> QED
        BY <3>1 DEF Ordered
    <2>4. CASE Head(inbox[e]) # Closed /\ routing'[e] = Head(inbox[e])
      <3>1. PICK h \in Nat : h = Head(inbox[e])
        BY <2>2
      <3>2. d < h /\ h <= Published(Other(e)) /\ Within(inbox'[e], h, Published(Other(e))) /\ routing'[e] = h
        BY <2>2, <2>4, <3>1
      <3>3. c < h /\ c <= h
        BY <1>1, <3>2 DEF Separated
      <3>4. Separated(e, a, b, c, h)'
        BY <1>1, <1>2, <2>1, <3>2, <3>3 DEF Separated
      <3> QED
        BY <3>4 DEF Ordered
    <2> QED
      BY <2>1, <2>3, <2>4
  <1>5. CASE RouterWrites(e)
    <2>1. /\ UNCHANGED inbox[e] /\ routing[e] # NoChunk /\ routing'[e] = NoChunk
          /\ writeCh'[e] = Append(writeCh[e], routing[e])
      BY <1>5 DEF RouterWrites, HandOn, TypeOK, RouteTyped
    <2>2. PICK h \in Nat : h = routing[e]
      BY <1>3
    <2>3. b <= c /\ c < h /\ h <= d /\ b <= h /\ Within(writeCh[e], b, c)
      BY <1>1, <2>1, <2>2 DEF Separated
    <2>4. Within(writeCh'[e], b, h)
      BY <1>3, <2>1, <2>2, <2>3, WithinAppend
    <2>5. Separated(e, a, b, h, d)'
      BY <1>1, <1>2, <2>1, <2>3, <2>4 DEF Separated
    <2> QED
      BY <2>5 DEF Ordered
  <1> QED
    BY <1>4, <1>5 DEF Router

(* The steps together. *)

LEMMA SourceStep ==
    ASSUME TypeOK, NEW e \in Ends, SourceInv(e), [Next]_vars
    PROVE  /\ SourceInv(e)'
           /\ \/ UNCHANGED Published(e)
              \/ LoopPublishes(e) /\ Published(e)' = Published(e) + 1 /\ hand[e] = Published(e)'
  <1>1. CASE LoopPublishes(e)
    BY <1>1, PublishSource
  <1>2. CASE Reader(e) \/ LoopTakes(e)
    BY <1>2, ReadSource, TakeSource
  <1>3. CASE LoopEnds(e)
    <2>1. /\ UNCHANGED <<read, reader, publishCh>>
          /\ loop[e] = "select" /\ loop'[e] = "done" /\ reader[e] # "run" /\ publishCh[e] = <<>>
      BY <1>3 DEF LoopEnds, InLoop, readVars, TypeOK, LoopTyped
    <2>2. UNCHANGED <<Taken(e), Published(e)>>
      BY <2>1 DEF Taken, Published, One
    <2> QED
      BY <2>1, <2>2 DEF SourceInv
  <1>4. CASE SourceQuiet(e)
    BY <1>4, SourceKept
  <1>5. ASSUME NEW f \in Ends, Produce(f) \/ SourceEnds(f) \/ Router(f) \/ HandleClosed(f) \/ TakeSignal(f)
        PROVE  SourceQuiet(e)
    BY <1>5 DEF Produce, SourceEnds, Router, RouteData, RouterWrites, RouteClosed, HandleClosed, TakeSignal,
       SourceQuiet, readVars, loopVars
  <1>6. ASSUME NEW f \in Ends, Start(f)
        PROVE  SourceQuiet(e)
    BY <1>6, EndsFacts DEF Start, StartLoop, SourceQuiet, readVars, TypeOK, LoopTyped
  <1>7. ASSUME NEW f \in Ends, LoopReceives(f) \/ LoopWrites(f) \/ Unsubscribe(f)
        PROVE  SourceQuiet(e)
    BY <1>7 DEF LoopReceives, LoopWrites, Unsubscribe, InLoop, SourceQuiet, readVars, TypeOK, LoopTyped
  <1>8. ASSUME NEW f \in Ends, f # e, Reader(f)
        PROVE  SourceQuiet(e)
    BY <1>8 DEF Reader, ReadChunk, ReadEnds, ReaderCloses, PassLast, SourceQuiet, loopVars, TypeOK, ReadTyped
  <1>9. ASSUME NEW f \in Ends, f # e, LoopTakes(f) \/ LoopPublishes(f) \/ LoopEnds(f)
        PROVE  SourceQuiet(e)
    BY <1>9 DEF LoopTakes, LoopPublishes, LoopEnds, SourceQuiet, readVars, TypeOK, ReadTyped, LoopTyped
  <1>10. CASE LinkLost \/ LinkUp \/ CloseAllTunnels \/ UNCHANGED vars
    BY <1>4, <1>10 DEF LinkLost, LinkUp, CloseAllTunnels, vars, SourceQuiet, readVars, loopVars
  <1> QED
    BY <1>1, <1>2, <1>3, <1>4, <1>5, <1>6, <1>7, <1>8, <1>9, <1>10 DEF Next, Loop, Main

LEMMA OrderedStep ==
    ASSUME TypeOK, TypeOK', NEW e \in Ends, SourceInv(Other(e)), Ordered(e), [Next]_vars
    PROVE  Ordered(e)'
  <1> DEFINE o == Other(e)
             waits == /\ UNCHANGED <<written[e], writeCh[e], routing[e]>>
                      /\ loop'[e] = "write" => loop[e] = "write" /\ hand'[e] = hand[e]
  <1>o. o \in Ends /\ o # e /\ Other(o) = e /\ \A f \in Ends : f = e \/ f = o
    BY EndsFacts
  <1> HIDE DEF o
  <1>1. /\ SourceInv(o) /\ SourceInv(o)'
        /\ \/ UNCHANGED Published(o)
           \/ LoopPublishes(o) /\ Published(o)' = Published(o) + 1 /\ hand[o] = Published(o)'
    BY <1>o, SourceStep DEF o
  <1>2. Published(o) \in Nat /\ Published(o) <= Published(o)'
    BY <1>1 DEF SourceInv
  <1>3. CASE LoopReceives(e) \/ LoopWrites(e) \/ Router(e)
    <2>1. UNCHANGED <<read[o], publishCh[o], loop[o]>>
      BY <1>o, <1>3 DEF LoopReceives, LoopWrites, Router, RouteData, RouterWrites, RouteClosed, readVars, loopVars,
         TypeOK, LoopTyped
    <2>2. UNCHANGED Published(o)
      BY <2>1 DEF Published, Taken
    <2> QED
      BY <1>1, <1>3, <2>2, OrderedReceive, OrderedWrite, OrderedRouter DEF o
  <1>4. ASSUME waits,
               \/ inbox'[e] \in {inbox[e], <<>>, Append(inbox[e], Closed)}
               \/ inbox'[e] = Append(inbox[e], Published(o)') /\ Published(o)' = Published(o) + 1
        PROVE  Ordered(e)'
    <2>1. PICK a \in Nat, b \in Nat, c \in Nat, d \in Nat : Separated(e, a, b, c, d)
      BY DEF Ordered
    <2>2. Separated(e, a, b, c, d)'
      BY <1>1, <1>2, <1>4, <2>1, OrderedInbox DEF o
    <2> QED
      BY <2>2 DEF Ordered
  <1>5. CASE LoopPublishes(o)
    <2>1. waits
      BY <1>o, <1>5 DEF LoopPublishes, InLoop, routeVars, TypeOK, LoopTyped
    <2>2. Published(o)' = Published(o) + 1 /\ hand[o] = Published(o)'
      BY <1>o, <1>1, <1>5, PublishSource
    <2>3. inbox'[e] \in {inbox[e], Append(inbox[e], hand[o])}
      <3>1. UNCHANGED inbox \/ inbox' = [inbox EXCEPT ![e] = Append(inbox[e], hand[o])]
        BY <1>o, <1>5 DEF LoopPublishes, Publish
      <3> QED
        BY <3>1 DEF TypeOK, RouteTyped
    <2> QED
      BY <1>4, <2>1, <2>2, <2>3
  <1>6. CASE LoopEnds(o)
    <2>1. waits
      BY <1>o, <1>6 DEF LoopEnds, InLoop, routeVars, TypeOK, LoopTyped
    <2>2. inbox'[e] \in {inbox[e], Append(inbox[e], Closed)}
      <3>1. UNCHANGED inbox \/ inbox' = [inbox EXCEPT ![e] = Append(inbox[e], Closed)]
        BY <1>o, <1>6 DEF LoopEnds, Publish
      <3> QED
        BY <3>1 DEF TypeOK, RouteTyped
    <2> QED
      BY <1>4, <2>1, <2>2
  <1>7. CASE LoopPublishes(e) \/ LoopEnds(e)
    <2>1. waits
      BY <1>7 DEF LoopPublishes, LoopEnds, InLoop, routeVars, TypeOK, LoopTyped
    <2>2. UNCHANGED inbox[e]
      BY <1>o, <1>7 DEF LoopPublishes, LoopEnds, Publish, TypeOK, RouteTyped, o
    <2> QED
      BY <1>4, <2>1, <2>2
  <1>8. ASSUME NEW f \in Ends, f # e, LoopReceives(f) \/ LoopWrites(f) \/ Router(f)
        PROVE  waits /\ UNCHANGED inbox[e]
    <2>1. CASE LoopReceives(f) \/ LoopWrites(f)
      <3>1. UNCHANGED <<written[e], writeCh[e]>>
        BY <1>8, <2>1 DEF LoopReceives, LoopWrites, TypeOK, RouteTyped
      <3>2. UNCHANGED <<loop[e], hand[e], routing, inbox>>
        BY <1>8, <2>1 DEF LoopReceives, LoopWrites, routeVars, TypeOK, LoopTyped
      <3> QED
        BY <3>1, <3>2
    <2>2. CASE Router(f)
      <3>1. UNCHANGED <<routing[e], inbox[e], writeCh[e]>>
        BY <1>8, <2>2 DEF Router, RouteData, RouterWrites, HandOn, RouteClosed, TypeOK, RouteTyped
      <3>2. UNCHANGED <<loop, hand, written>>
        BY <2>2 DEF Router, RouteData, RouterWrites, RouteClosed, loopVars
      <3> QED
        BY <3>1, <3>2
    <2> QED
      BY <1>8, <2>1, <2>2
  <1>9. ASSUME NEW f \in Ends, LoopTakes(f) \/ Start(f) \/ Unsubscribe(f)
        PROVE  waits /\ UNCHANGED inbox[e]
    <2>1. UNCHANGED <<written, writeCh, routing, inbox>>
      BY <1>9 DEF LoopTakes, Start, Unsubscribe, routeVars
    <2>2. loop'[e] = "write" => loop[e] = "write" /\ hand'[e] = hand[e]
      BY <1>9 DEF LoopTakes, Start, StartLoop, Unsubscribe, InLoop, TypeOK, LoopTyped
    <2> QED
      BY <2>1, <2>2
  <1>10. ASSUME NEW f \in Ends, Produce(f) \/ SourceEnds(f) \/ Reader(f) \/ HandleClosed(f)
         PROVE  waits /\ UNCHANGED inbox[e]
    BY <1>10 DEF Produce, SourceEnds, Reader, ReadChunk, ReadEnds, ReaderCloses, PassLast, HandleClosed,
       routeVars, loopVars
  <1>11. ASSUME NEW f \in Ends, TakeSignal(f)
         PROVE  waits /\ inbox'[e] \in {inbox[e], <<>>}
    BY <1>11 DEF TakeSignal, ClientReturns, ServerForgets, routeVars, loopVars, TypeOK, RouteTyped
  <1>12. ASSUME LinkLost \/ LinkUp \/ CloseAllTunnels \/ UNCHANGED vars
         PROVE  waits /\ inbox'[e] \in {inbox[e], <<>>}
    BY <1>12 DEF LinkLost, LinkUp, CloseAllTunnels, vars, routeVars, loopVars, TypeOK, RouteTyped
  <1> HIDE DEF waits
  <1> QED
    BY <1>o, <1>3, <1>4, <1>5, <1>6, <1>7, <1>8, <1>9, <1>10, <1>11, <1>12 DEF Next, Loop, Main

LEMMA OrderInit == Init => OrderInv
  <1> SUFFICES ASSUME Init, NEW e \in Ends PROVE SourceInv(e) /\ Ordered(e)
    BY DEF OrderInv
  <1>1. /\ StreamInv
        /\ inbox[e] = <<>> /\ routing[e] = NoChunk /\ writeCh[e] = <<>> /\ written[e] = <<>>
        /\ loop[e] # "write"
    BY StreamInit DEF Init
  <1>2. SourceInv(e) /\ Published(Other(e)) \in Nat
    BY <1>1, EndsFacts DEF StreamInv, SourceInv
  <1>3. Separated(e, 0, 0, 0, 0)
    BY <1>1, <1>2, WithinEmpty DEF Separated
  <1> QED
    BY <1>2, <1>3 DEF Ordered

LEMMA OrderHolds == TypeOK /\ OrderInv => StreamOrdered
  <1> SUFFICES ASSUME TypeOK, OrderInv, NEW e \in Ends, NEW m \in 1..Len(written[e]), NEW n \in 1..Len(written[e]), m < n
               PROVE  written[e][m] < written[e][n]
    BY DEF StreamOrdered
  <1>1. PICK a \in Nat : Within(written[e], 0, a)
    BY DEF OrderInv, Ordered, Separated
  <1>2. written[e][n] # Closed /\ m \in 1..n - 1
    BY AtEnd DEF Chunks, NoChunk, Closed
  <1> QED
    BY <1>1, <1>2 DEF Within

\* However often the server's connection to the broker is lost, and whatever
\* ends when, what a program gets is in the order in which the program at the
\* other end sent it, and nothing arrives twice.
THEOREM OrderedCorrect == Spec => []StreamOrdered
  <1>1. Init => TypeOK /\ OrderInv
    BY TypeInit, OrderInit
  <1>2. TypeOK /\ OrderInv /\ [Next]_vars => (TypeOK /\ OrderInv)'
    BY TypeNext, SourceStep, OrderedStep, EndsFacts DEF OrderInv
  <1> QED
    BY <1>1, <1>2, OrderHolds, PTL DEF Spec

=============================================================================
