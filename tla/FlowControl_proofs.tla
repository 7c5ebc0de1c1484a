------------------------- MODULE FlowControl_proofs -------------------------
(***************************************************************************)
(* Types of FlowControl, in how many ways the server can hang, and that    *)
(* the circle of main loop, paho and router is one of them for good, for   *)
(* every value of the constants.                                           *)
(***************************************************************************)
EXTENDS FlowControl, TLAPS

-----------------------------------------------------------------------------
(* Types. *)

\* What a step does to one variable, in the form the steps below need.
LEMMA QueueStep ==
    ASSUME NEW S, NEW q \in Seq(S)
    PROVE  /\ Len(q) \in Nat
           /\ q # <<>> => Head(q) \in S /\ Tail(q) \in Seq(S) /\ Len(Tail(q)) = Len(q) - 1
           /\ \A x \in S : Append(q, x) \in Seq(S) /\ Len(Append(q, x)) = Len(q) + 1
           /\ \A x, y \in S : q \o <<x, y>> \in Seq(S)
  OBVIOUS

LEMMA Words ==
    /\ {"subscribe", "unsubscribe", "ack", "echo", "abandoned"} = Requests
    /\ {"connect", "confirm"} = Control
    /\ {"connect", "confirm", "data", "own"} = Messages
    /\ {"suback", "puback", "unsuback", "late"} = Answers
    /\ Messages \cap Answers = {} /\ Control \subseteq Messages
    /\ \A r : Reply(r) \in Messages \cup Answers
  BY DEF Requests, Control, Messages, Answers, Reply

LEMMA AbandonTyped ==
    ASSUME up \in Seq(Requests), wire \in Seq(Messages \cup Answers),
           NEW request, NEW answer, Abandon(request, answer)
    PROVE  up' \in Seq(Requests) /\ wire' \in Seq(Messages \cup Answers)
  <1>1. "abandoned" \in Requests /\ "late" \in Answers
    BY Words
  <1>2. up' \in Seq(Requests)
    <2>1. DOMAIN up = 1..Len(up) /\ Len(up) \in Nat /\ \A i \in DOMAIN up : up[i] \in Requests
      OBVIOUS
    <2> DEFINE f == [i \in 1..Len(up) |-> IF up[i] = request THEN "abandoned" ELSE up[i]]
    <2>2. f \in [1..Len(up) -> Requests]
      BY <1>1, <2>1
    <2>3. up' = f
      BY <2>1 DEF Abandon
    <2> QED
      BY <2>1, <2>2, <2>3
  <1>3. wire' \in Seq(Messages \cup Answers)
    <2>1. DOMAIN wire = 1..Len(wire) /\ Len(wire) \in Nat
          /\ \A i \in DOMAIN wire : wire[i] \in Messages \cup Answers
      OBVIOUS
    <2> DEFINE f == [i \in 1..Len(wire) |-> IF wire[i] = answer THEN "late" ELSE wire[i]]
    <2>2. f \in [1..Len(wire) -> Messages \cup Answers]
      BY <1>1, <2>1
    <2>3. wire' = f
      BY <2>1 DEF Abandon
    <2> QED
      BY <2>1, <2>2, <2>3
  <1> QED
    BY <1>2, <1>3

LEMMA PublishTyped ==
    ASSUME up \in Seq(Requests), NEW p \in Requests, Publish(p)
    PROVE  up' \in Seq(Requests)
  <1>1. "echo" \in Requests
    BY Words
  <1> QED
    BY <1>1, QueueStep DEF Publish

LEMMA ClientsTyped ==
    ASSUME TypeOK, Clients
    PROVE  TypeOK'
  <1> USE FlowAssumption
  <1>1. PICK x \in Messages :
          /\ sent < MaxSent /\ sent' = sent + 1
          /\ wire' = Append(wire, x)
          /\ UNCHANGED <<target, up, dispatch, answered, routerVars, serverVars>>
    BY Words DEF Clients, ClientSends
  <1>2. wire' \in Seq(Messages \cup Answers)
    BY <1>1, QueueStep DEF TypeOK
  <1> QED
    BY <1>1, <1>2 DEF TypeOK, routerVars, serverVars

LEMMA PahoTyped ==
    ASSUME TypeOK, BrokerHandles \/ PahoReads
    PROVE  TypeOK'
  <1> USE FlowAssumption
  <1>1. CASE BrokerHandles
    <2>1. up' \in Seq(Requests) /\ wire' \in Seq(Messages \cup Answers)
      BY <1>1, QueueStep, Words DEF BrokerHandles, TypeOK
    <2> QED
      BY <1>1, <2>1 DEF BrokerHandles, TypeOK, envVars, routerVars, serverVars
  <1>2. CASE PahoReads
    <2>1. wire' \in Seq(Messages \cup Answers) /\ Head(wire) \in Messages \cup Answers
      BY <1>2, QueueStep DEF PahoReads, TypeOK
    <2>2. dispatch' \in Seq(Messages) /\ Len(dispatch') <= PahoSlack
      <3>1. CASE Head(wire) \in Messages /\ Len(dispatch) < PahoSlack
                 /\ dispatch' = Append(dispatch, Head(wire))
        <4>1. dispatch' \in Seq(Messages) /\ Len(dispatch') = Len(dispatch) + 1 /\ Len(dispatch) \in Nat
          BY <3>1, QueueStep DEF TypeOK
        <4> QED
          BY <3>1, <4>1
      <3>2. CASE UNCHANGED dispatch
        BY <3>2 DEF TypeOK
      <3> QED
        BY <1>2, <3>1, <3>2 DEF PahoReads
    <2>3. answered' \subseteq Answers \ {"late"}
      BY <1>2 DEF PahoReads, TypeOK
    <2> QED
      BY <1>2, <2>1, <2>2, <2>3 DEF PahoReads, TypeOK, envVars, routerVars, serverVars
  <1> QED
    BY <1>1, <1>2

LEMMA RouterTyped ==
    ASSUME TypeOK, Router \/ DataLoopWrites
    PROVE  TypeOK'
  <1> USE FlowAssumption
  <1>1. CASE RouterTakes
    <2>1. /\ dispatch' \in Seq(Messages) /\ Len(dispatch') <= PahoSlack
          /\ router' \in Messages /\ router' # "own"
      BY <1>1, QueueStep DEF RouterTakes, Passes, TypeOK
    <2> QED
      BY <1>1, <2>1 DEF RouterTakes, TypeOK, envVars, serverVars
  <1>2. CASE RouterDrops
    <2>1. dispatch' \in Seq(Messages) /\ Len(dispatch') <= PahoSlack
      BY <1>2, QueueStep DEF RouterDrops, TypeOK
    <2> QED
      BY <1>2, <2>1 DEF RouterDrops, TypeOK, envVars, routerVars, serverVars
  <1>3. CASE RouterHandsOn
    <2>1. router \in Control
      BY <1>3 DEF RouterHandsOn, TypeOK, Messages, Control
    <2>2. /\ controlCh' \in Seq(Control) /\ Len(controlCh') = Len(controlCh) + 1
          /\ Len(controlCh) \in Nat
      BY <1>3, <2>1, QueueStep DEF RouterHandsOn, TypeOK
    <2>3. Len(controlCh') <= ControlCap
      BY <1>3, <2>2 DEF RouterHandsOn
    <2> QED
      BY <1>3, <2>2, <2>3 DEF RouterHandsOn, TypeOK, envVars, pahoVars, serverVars
  <1>4. CASE RouterWrites
    BY <1>4 DEF RouterWrites, TypeOK, envVars, pahoVars, serverVars
  <1>5. CASE DataLoopWrites
    BY <1>5 DEF DataLoopWrites, TypeOK, envVars, pahoVars, serverVars
  <1> QED
    BY <1>1, <1>2, <1>3, <1>4, <1>5 DEF Router

LEMMA MainLoopTyped ==
    ASSUME TypeOK, MainLoop
    PROVE  TypeOK'
  <1> USE FlowAssumption
  <1>1. CASE LoopTakesConfirm \/ LoopTakesConnect
    <2>1. controlCh # <<>> /\ controlCh' = Tail(controlCh)
      BY <1>1 DEF LoopTakesConfirm, LoopTakesConnect
    <2>2. /\ controlCh' \in Seq(Control) /\ Len(controlCh') = Len(controlCh) - 1
          /\ Len(controlCh) \in Nat
      BY <2>1, QueueStep DEF TypeOK
    <2>3. Len(controlCh') <= ControlCap
      BY <2>2 DEF TypeOK
    <2> QED
      BY <1>1, <2>2, <2>3 DEF LoopTakesConfirm, LoopTakesConnect, TypeOK, envVars, pahoVars, serverVars
  <1>2. CASE LoopRefuses
    <2>1. up' \in Seq(Requests)
      BY <1>2, QueueStep, Words DEF LoopRefuses, TypeOK
    <2> QED
      BY <1>2, <2>1 DEF LoopRefuses, TypeOK, envVars, routerVars
  <1>3. CASE LoopSubscribes
    <2>1. up' \in Seq(Requests)
      BY <1>3, QueueStep, Words DEF LoopSubscribes, TypeOK
    <2> QED
      BY <1>3, <2>1 DEF LoopSubscribes, TypeOK, envVars, routerVars
  <1>4. CASE LoopPublishesAck
    <2>1. up' \in Seq(Requests)
      BY <1>4, PublishTyped, Words DEF LoopPublishesAck, TypeOK
    <2> QED
      BY <1>4, <2>1 DEF LoopPublishesAck, TypeOK, envVars, routerVars
  <1>5. CASE LoopGivesUp
    <2>1. up' \in Seq(Requests) /\ wire' \in Seq(Messages \cup Answers)
      BY <1>5, AbandonTyped DEF LoopGivesUp, TypeOK
    <2> QED
      BY <1>5, <2>1 DEF LoopGivesUp, TypeOK, envVars, routerVars
  <1>6. CASE LoopAckSent
    BY <1>6 DEF LoopAckSent, TypeOK, envVars, routerVars
  <1>7. CASE LoopInserts
    BY <1>7 DEF LoopInserts, TypeOK, envVars, pahoVars, routerVars
  <1> QED
    BY <1>1, <1>2, <1>3, <1>4, <1>5, <1>6, <1>7 DEF MainLoop

LEMMA TimerTyped ==
    ASSUME TypeOK, Timer
    PROVE  TypeOK'
  <1> USE FlowAssumption
  <1>1. CASE TimerFindsNothing
    BY <1>1 DEF TimerFindsNothing, TypeOK, envVars, pahoVars, routerVars
  <1>2. CASE TimerUnsubscribes
    <2>1. up' \in Seq(Requests)
      BY <1>2, QueueStep, Words DEF TimerUnsubscribes, TypeOK
    <2> QED
      BY <1>2, <2>1 DEF TimerUnsubscribes, TypeOK, envVars, routerVars
  <1>3. CASE TimerDone
    BY <1>3 DEF TimerDone, Unlock, TypeOK, envVars, routerVars
  <1>4. CASE TimerGivesUp
    <2>1. up' \in Seq(Requests) /\ wire' \in Seq(Messages \cup Answers)
      BY <1>4, AbandonTyped DEF TimerGivesUp, TypeOK
    <2> QED
      BY <1>4, <2>1 DEF TimerGivesUp, Unlock, TypeOK, envVars, routerVars
  <1> QED
    BY <1>1, <1>2, <1>3, <1>4 DEF Timer

\* Every variable keeps its type, no channel holds more than its capacity, and
\* the filter lets no packet of the server itself through.
THEOREM TypeCorrect == Spec => []TypeOK
  <1>1. Init => TypeOK
    BY FlowAssumption DEF Init, TypeOK
  <1>2. TypeOK /\ [Next]_vars => TypeOK'
    <2> SUFFICES ASSUME TypeOK, [Next]_vars PROVE TypeOK'
      OBVIOUS
    <2>1. CASE UNCHANGED vars
      BY <2>1 DEF TypeOK, vars, envVars, pahoVars, routerVars, serverVars
    <2>2. CASE Target
      BY <2>2 DEF Target, TargetStalls, TargetResumes, TypeOK, pahoVars, routerVars, serverVars
    <2> QED
      BY <2>1, <2>2, ClientsTyped, PahoTyped, RouterTyped, MainLoopTyped, TimerTyped
      DEF Next, Running
  <1> QED
    BY <1>1, <1>2, PTL DEF Spec

-----------------------------------------------------------------------------
(***************************************************************************)
(* The PUBACK the main loop waits for without a limit is on its way: the   *)
(* broker has the connect_ack, or has answered it.                         *)
(***************************************************************************)
Occurs(x, q) == \E i \in 1..Len(q) : q[i] = x

PubackComing ==
    loop = "puback" => "puback" \in answered \/ Occurs("ack", up) \/ Occurs("puback", wire)

LEMMA OccursStep ==
    ASSUME NEW S, NEW q \in Seq(S), NEW x
    PROVE  /\ \A y \in S : Occurs(x, Append(q, y)) <=> Occurs(x, q) \/ x = y
           /\ q # <<>> /\ Occurs(x, q) => x = Head(q) \/ Occurs(x, Tail(q))
           /\ Occurs(x, q) => q # <<>>
  <1>1. ASSUME NEW y \in S PROVE Occurs(x, Append(q, y)) <=> Occurs(x, q) \/ x = y
    <2>1. /\ Len(q) \in Nat /\ Len(Append(q, y)) = Len(q) + 1
          /\ Append(q, y)[Len(q) + 1] = y
          /\ \A i \in 1..Len(q) : Append(q, y)[i] = q[i]
      OBVIOUS
    <2>2. \A i \in 1..Len(q) + 1 : i \in 1..Len(q) \/ i = Len(q) + 1
      BY <2>1
    <2>3. ASSUME Occurs(x, Append(q, y)) PROVE Occurs(x, q) \/ x = y
      BY <2>1, <2>2, <2>3 DEF Occurs
    <2>4. ASSUME Occurs(x, q) \/ x = y PROVE Occurs(x, Append(q, y))
      <3>1. CASE x = y
        <4>1. Len(q) + 1 \in 1..Len(Append(q, y))
          BY <2>1
        <4> QED
          BY <2>1, <3>1, <4>1 DEF Occurs
      <3>2. CASE Occurs(x, q)
        <4>1. PICK i \in 1..Len(q) : q[i] = x
          BY <3>2 DEF Occurs
        <4>2. i \in 1..Len(Append(q, y))
          BY <2>1
        <4> QED
          BY <2>1, <4>1, <4>2 DEF Occurs
      <3> QED
        BY <2>4, <3>1, <3>2
    <2> QED
      BY <2>3, <2>4
  <1>2. ASSUME q # <<>>, Occurs(x, q), x # Head(q) PROVE Occurs(x, Tail(q))
    <2>1. PICK i \in 1..Len(q) : q[i] = x
      BY <1>2 DEF Occurs
    <2>2. i # 1 /\ Len(Tail(q)) = Len(q) - 1 /\ Len(q) \in Nat
      BY <1>2, <2>1
    <2>3. i - 1 \in 1..Len(Tail(q)) /\ Tail(q)[i - 1] = q[i]
      BY <1>2, <2>2
    <2> QED
      BY <2>1, <2>3 DEF Occurs
  <1>3. Occurs(x, q) => q # <<>>
    BY DEF Occurs
  <1> QED
    BY <1>1, <1>2, <1>3

\* A timeout takes away its own request and its own answer only.
LEMMA AbandonKeeps ==
    ASSUME TypeOK, NEW request, NEW answer, Abandon(request, answer)
    PROVE  /\ \A x : x # request /\ Occurs(x, up) => Occurs(x, up')
           /\ \A x : x # answer /\ Occurs(x, wire) => Occurs(x, wire')
           /\ wire # <<>> /\ Head(wire) # answer => wire' # <<>> /\ Head(wire') = Head(wire)
  <1>1. up \in Seq(Requests) /\ wire \in Seq(Messages \cup Answers)
        /\ up' \in Seq(Requests) /\ wire' \in Seq(Messages \cup Answers)
    BY AbandonTyped DEF TypeOK
  <1>2. /\ Len(up') = Len(up)
        /\ \A i \in 1..Len(up) : up'[i] = IF up[i] = request THEN "abandoned" ELSE up[i]
        /\ Len(wire') = Len(wire)
        /\ \A i \in 1..Len(wire) : wire'[i] = IF wire[i] = answer THEN "late" ELSE wire[i]
    BY <1>1 DEF Abandon
  <1>3. ASSUME wire # <<>>, Head(wire) # answer PROVE wire' # <<>> /\ Head(wire') = Head(wire)
    <2>1. Len(wire) \in Nat /\ 1 \in 1..Len(wire) /\ Head(wire) = wire[1]
      BY <1>1, <1>3
    <2>2. wire' # <<>> /\ Head(wire') = wire'[1]
      BY <1>1, <1>2, <2>1
    <2> QED
      BY <1>2, <1>3, <2>1, <2>2
  <1> QED
    BY <1>2, <1>3 DEF Occurs

LEMMA PubackStep ==
    ASSUME TypeOK, PubackComing, [Next]_vars
    PROVE  PubackComing'
  <1> SUFFICES ASSUME loop' = "puback"
               PROVE  "puback" \in answered' \/ Occurs("ack", up') \/ Occurs("puback", wire')
    BY DEF PubackComing
  <1> USE DEF PubackComing
  <1>t. up \in Seq(Requests) /\ wire \in Seq(Messages \cup Answers)
    BY DEF TypeOK
  <1>1. CASE UNCHANGED vars \/ Target \/ Router \/ DataLoopWrites
    <2>1. UNCHANGED <<up, wire, answered, loop>>
      BY <1>1 DEF vars, pahoVars, serverVars, Target, TargetStalls, TargetResumes,
                  Router, RouterTakes, RouterDrops, RouterHandsOn, RouterWrites, DataLoopWrites
    <2> QED
      BY <2>1
  <1>2. CASE Clients
    <2>1. PICK x \in Messages : wire' = Append(wire, x) /\ UNCHANGED <<up, answered, loop>>
      BY <1>2, Words DEF Clients, ClientSends, serverVars
    <2> QED
      BY <1>t, <2>1, OccursStep
  <1>3. CASE BrokerHandles
    <2>1. /\ up # <<>> /\ up' = Tail(up) /\ wire' = Append(wire, Reply(Head(up)))
          /\ UNCHANGED <<answered, loop>>
      BY <1>3 DEF BrokerHandles, serverVars
    <2>2. Occurs("ack", up) => Head(up) = "ack" \/ Occurs("ack", up')
      BY <1>t, <2>1, OccursStep
    <2>3. Head(up) = "ack" => Reply(Head(up)) = "puback"
      BY DEF Reply
    <2>4. Reply(Head(up)) \in Messages \cup Answers
      BY Words
    <2>5. Occurs("puback", wire) \/ Reply(Head(up)) = "puback" => Occurs("puback", wire')
      BY <1>t, <2>1, <2>4, OccursStep
    <2> QED
      BY <2>1, <2>2, <2>3, <2>5
  <1>4. CASE PahoReads
    <2>1. wire # <<>> /\ wire' = Tail(wire) /\ UNCHANGED <<up, loop>> /\ answered \subseteq answered'
      BY <1>4 DEF PahoReads, serverVars
    <2>2. Occurs("puback", wire) => Head(wire) = "puback" \/ Occurs("puback", wire')
      BY <1>t, <2>1, OccursStep
    <2>3. Head(wire) = "puback" => "puback" \in answered'
      BY <1>4, Words DEF PahoReads, Messages
    <2> QED
      BY <2>1, <2>2, <2>3
  <1>5. CASE LoopPublishesAck
    <2>1. Occurs("ack", up')
      <3>1. CASE up' = up \o <<"ack", "echo">>
        <4>1. Len(up) \in Nat /\ Len(up') = Len(up) + 2 /\ up'[Len(up) + 1] = "ack"
          BY <1>t, <3>1
        <4> QED
          BY <4>1 DEF Occurs
      <3>2. CASE up' = up \o <<"echo", "ack">>
        <4>1. Len(up) \in Nat /\ Len(up') = Len(up) + 2 /\ up'[Len(up) + 2] = "ack"
          BY <1>t, <3>2
        <4> QED
          BY <4>1 DEF Occurs
      <3> QED
        BY <1>5, <3>1, <3>2 DEF LoopPublishesAck, Publish
    <2> QED
      BY <2>1
  <1>6. CASE \/ LoopTakesConfirm \/ LoopTakesConnect \/ LoopRefuses \/ LoopSubscribes
             \/ LoopGivesUp \/ LoopAckSent \/ LoopInserts
    BY <1>6 DEF LoopTakesConfirm, LoopTakesConnect, LoopRefuses, LoopSubscribes, LoopGivesUp,
                LoopAckSent, LoopInserts, serverVars
  <1>7. CASE TimerFindsNothing
    BY <1>7 DEF TimerFindsNothing, pahoVars
  <1>8. CASE TimerUnsubscribes
    <2>1. up' = Append(up, "unsubscribe") /\ UNCHANGED <<wire, answered, loop>>
      BY <1>8 DEF TimerUnsubscribes
    <2>2. Occurs("ack", up) => Occurs("ack", up')
      BY <1>t, <2>1, OccursStep, Words
    <2> QED
      BY <2>1, <2>2
  <1>9. CASE TimerDone
    BY <1>9 DEF TimerDone
  <1>10. CASE TimerGivesUp
    <2>1. Abandon("unsubscribe", "unsuback") /\ UNCHANGED <<answered, loop>>
      BY <1>10 DEF TimerGivesUp
    <2>2. (Occurs("ack", up) => Occurs("ack", up')) /\ (Occurs("puback", wire) => Occurs("puback", wire'))
      BY <2>1, AbandonKeeps
    <2> QED
      BY <2>1, <2>2
  <1> QED
    BY <1>1, <1>2, <1>3, <1>4, <1>5, <1>6, <1>7, <1>8, <1>9, <1>10 DEF Next, Running, MainLoop, Timer

\* While the main loop waits for a PUBACK, the answer is with paho, on the wire,
\* or still to be given by the broker: it is never lost, whichever timeouts end.
THEOREM PubackCorrect == Spec => []PubackComing
  <1>1. Init => PubackComing
    BY DEF Init, PubackComing
  <1> QED
    BY <1>1, PubackStep, TypeCorrect, PTL DEF Spec

(***************************************************************************)
(* A server that stands still has nothing to do, is held up by a target,   *)
(* or is caught in the circle: if its main loop waited for anything else,  *)
(* that answer would be with the broker or in front of paho's reader.      *)
(***************************************************************************)
THEOREM KnownWaitsCorrect == Spec => []KnownWaits
  <1>1. TypeOK /\ PubackComing => KnownWaits
    <2> SUFFICES ASSUME TypeOK, PubackComing, StandsStill
                 PROVE  Idle \/ HeldByTarget \/ CircularWait
      BY DEF KnownWaits
    <2> USE FlowAssumption
    <2>1. Len(dispatch) = PahoSlack => dispatch # <<>>
      BY DEF TypeOK
    <2>2. Control \cap {"idle", "data"} = {}
      BY DEF Control
    <2>3. CASE router = "data"
      BY <2>2, <2>3 DEF StandsStill, HeldByTarget, TypeOK
    <2>4. CASE router # "data" /\ loop = "select"
      <3>1. router = "idle" /\ dispatch = <<>>
        BY <2>4 DEF StandsStill, TypeOK
      <3> QED
        BY <2>1, <2>4, <3>1 DEF StandsStill, Idle
    <2>5. CASE router # "data" /\ loop # "select"
      <3>1. loop = "puback" /\ "puback" \notin answered /\ up = <<>>
        BY <2>5 DEF StandsStill
      <3>2. wire # <<>>
        BY <3>1, OccursStep DEF PubackComing, TypeOK, Occurs
      <3>3. router \in Control /\ Len(controlCh) = ControlCap
        BY <2>1, <2>5, <3>2 DEF StandsStill
      <3> QED
        BY <3>1, <3>2, <3>3 DEF StandsStill, CircularWait
    <2> QED
      BY <2>3, <2>4, <2>5
  <1> QED
    BY <1>1, PubackCorrect, TypeCorrect, PTL

-----------------------------------------------------------------------------
(***************************************************************************)
(* The circle does not open again: everyone in it waits for the next, and  *)
(* what the rest of the system does changes only what is behind the        *)
(* message paho's reader has in front of it.                               *)
(***************************************************************************)
LEMMA CircleStep ==
    ASSUME TypeOK, CircularWait, [Next]_vars
    PROVE  CircularWait'
  <1> USE DEF CircularWait
  <1>t. up \in Seq(Requests) /\ wire \in Seq(Messages \cup Answers)
    BY DEF TypeOK
  <1>1. CASE UNCHANGED vars \/ Target \/ DataLoopWrites \/ TimerFindsNothing \/ TimerUnsubscribes
             \/ TimerDone
    BY <1>1 DEF vars, pahoVars, routerVars, serverVars, Target, TargetStalls, TargetResumes,
                DataLoopWrites, TimerFindsNothing, TimerUnsubscribes, TimerDone
  <1>2. CASE Clients \/ BrokerHandles
    <2>1. PICK x \in Messages \cup Answers :
            wire' = Append(wire, x) /\ UNCHANGED <<answered, dispatch, routerVars, loop>>
      BY <1>2, Words DEF Clients, ClientSends, BrokerHandles, serverVars
    <2>2. wire' # <<>> /\ Head(wire') = Head(wire)
      BY <1>t, <2>1
    <2> QED
      BY <2>1, <2>2 DEF routerVars
  <1>3. ASSUME PahoReads \/ Router \/ MainLoop PROVE FALSE
    <2>1. Head(wire) \notin Answers /\ router \notin {"idle", "data"}
      BY Words DEF Control
    <2> QED
      BY <1>3, <2>1
      DEF PahoReads, Router, RouterTakes, RouterDrops, RouterHandsOn, RouterWrites,
          MainLoop, LoopTakesConfirm, LoopTakesConnect, LoopRefuses, LoopSubscribes,
          LoopPublishesAck, LoopGivesUp, LoopAckSent, LoopInserts, TypeOK
  <1>4. CASE TimerGivesUp
    <2>1. Head(wire) # "unsuback"
      BY Words DEF Messages
    <2>2. wire' # <<>> /\ Head(wire') = Head(wire)
      BY <1>4, <2>1, AbandonKeeps DEF TimerGivesUp
    <2> QED
      BY <1>4, <2>2 DEF TimerGivesUp, routerVars
  <1> QED
    BY <1>1, <1>2, <1>3, <1>4 DEF Next, Running, Timer

\* No timeout, answer, packet or target ever undoes the circle.
THEOREM CircleCorrect == Spec => CircleIsFinal
  <1>1. TypeOK /\ [Next]_vars => [CircularWait => CircularWait']_vars
    BY CircleStep
  <1> QED
    BY <1>1, TypeCorrect, PTL DEF Spec, CircleIsFinal
=============================================================================
