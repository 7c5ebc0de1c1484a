------------------------ MODULE TopicRotation_proofs ------------------------
(***************************************************************************)
(* The config in use, for every value of the constants and with the script *)
(* rotate-topic at work: types, what is accepted, what a reload makes of   *)
(* it, and that it never gets older.                                       *)
(***************************************************************************)
EXTENDS TopicRotation, SequenceTheorems, TLAPS

-----------------------------------------------------------------------------
(* Sequences. *)

LEMMA RemoveAtType ==
    ASSUME NEW S, NEW q \in Seq(S), NEW i \in DOMAIN q
    PROVE  RemoveAt(q, i) \in Seq(S)
  <1>1. Len(q) \in Nat /\ i \in 1..Len(q) /\ \A j \in 1..Len(q) : q[j] \in S
    BY LenProperties, ElementOfSeq
  <1>2. SubSeq(q, 1, i - 1) \in Seq(S)
    <2>1. \A j \in 1..i - 1 : q[j] \in S
      BY <1>1
    <2> QED
      BY <1>1, <2>1, SubSeqProperties
  <1>3. SubSeq(q, i + 1, Len(q)) \in Seq(S)
    <2>1. \A j \in i + 1..Len(q) : q[j] \in S
      BY <1>1
    <2> QED
      BY <1>1, <2>1, SubSeqProperties
  <1> QED
    BY <1>2, <1>3, ConcatProperties DEF RemoveAt

\* What the reload callbacks hold, when S are the versions they may read.
LEMMA CallbacksType ==
    ASSUME NEW S, NEW q \in Seq(Reads(S)), NEW i \in DOMAIN q
    PROVE  /\ RemoveAt(q, i) \in Seq(Reads(S))
           /\ \A v \in S : [q EXCEPT ![i] = <<v>>] \in Seq(Reads(S))
           /\ q[i] \in Seq(S)
           /\ q[i] # <<>> => Len(q[i]) = 1 /\ q[i][1] \in S
  <1>1. q[i] \in Reads(S) /\ i \in 1..Len(q)
    BY LenProperties, ElementOfSeq
  <1>2. q[i] \in Seq(S) /\ Len(q[i]) <= 1
    BY <1>1 DEF Reads
  <1>3. ASSUME NEW v \in S PROVE [q EXCEPT ![i] = <<v>>] \in Seq(Reads(S))
    <2>1. <<v>> \in Reads(S)
      BY DEF Reads
    <2> QED
      BY <1>1, <2>1, ExceptSeq
  <1>4. q[i] # <<>> => Len(q[i]) = 1 /\ q[i][1] \in S
    <2>1. q[i] # <<>> => Len(q[i]) \in Nat \ {0}
      BY <1>2, EmptySeq
    <2>2. ASSUME q[i] # <<>> PROVE Len(q[i]) = 1
      <3>1. Len(q[i]) \in Nat \ {0} /\ Len(q[i]) <= 1
        BY <1>2, <2>1, <2>2
      <3>2. \A n \in Nat \ {0} : n <= 1 => n = 1
        OBVIOUS
      <3> QED
        BY <3>1, <3>2, Zenon
    <2> QED
      BY <1>2, <2>2, ElementOfSeq
  <1> QED
    BY <1>2, <1>3, <1>4, RemoveAtType

LEMMA OneMoreCallback ==
    ASSUME NEW S, NEW q \in Seq(Reads(S))
    PROVE  Append(q, <<>>) \in Seq(Reads(S))
  <1>1. <<>> \in Reads(S)
    BY EmptySeq DEF Reads
  <1> QED
    BY <1>1, AppendProperties

\* What one callback sends joins the end of the line.
LEMMA SentType ==
    ASSUME NEW S, NEW T, NEW q \in Seq(T), NEW r \in Seq(S), Len(r) = 1, r[1] \in T
    PROVE  /\ q \o r \in Seq(T)
           /\ Len(q \o r) = Len(q) + 1
           /\ \A k \in 1..Len(q) : (q \o r)[k] = q[k]
           /\ (q \o r)[Len(q) + 1] = r[1]
  <1>1. r \in Seq(T)
    <2>1. r = <<r[1]>>
      <3>1. <<r[1]>> \in Seq(S)
        BY ElementOfSeq
      <3> QED
        BY <3>1, SeqEqual
    <2>2. <<r[1]>> \in Seq(T)
      OBVIOUS
    <2> QED
      BY <2>1, <2>2
  <1>2. Len(q) \in Nat
    BY LenProperties
  <1>3. /\ q \o r \in Seq(T)
        /\ Len(q \o r) = Len(q) + Len(r)
        /\ \A k \in 1..Len(q) + Len(r) : (q \o r)[k] = IF k <= Len(q) THEN q[k] ELSE r[k - Len(q)]
    BY <1>1, ConcatProperties
  <1> QED
    BY <1>2, <1>3

-----------------------------------------------------------------------------
(* Types. *)

LEMMA StartKeepaliveType ==
    ASSUME NEW c \in Config
    PROVE  /\ StartKeepalive(c) \in [manual : Int, mqtt : Int]
           /\ ReloadKeepalive(c) \in [manual : Int, mqtt : Int]
  BY PlatformAssumption
  DEF StartKeepalive, ReloadKeepalive, PlatformKeepalive, Keepalive, Off, Config

\* A topic that main() accepts has no character that is refused.
LEMMA AcceptedTopicType ==
    ASSUME NEW c \in Config, StartAccepts(c)
    PROVE  c.topic \in Seq(Letters \cup {"/"})
  <1>1. c.topic \in Seq(Letters \cup {"/", "+"}) /\ \A i \in DOMAIN c.topic : c.topic[i] \in Letters \cup {"/"}
    BY DEF Config, StartAccepts, ValidateTopic
  <1>2. Len(c.topic) \in Nat /\ DOMAIN c.topic = 1..Len(c.topic) /\ c.topic = SubSeq(c.topic, 1, Len(c.topic))
    BY <1>1, LenProperties, SubSeqFull
  <1>3. SubSeq(c.topic, 1, Len(c.topic)) \in Seq(Letters \cup {"/"})
    BY <1>1, <1>2, SubSeqProperties
  <1> QED
    BY <1>2, <1>3

LEMMA NewTopicType == NewTopic \in Seq(Letters) /\ NewTopic \in {<<"a">>, <<"b">>}
  <1>1. "a" \in Letters /\ "b" \in Letters
    BY DEF Letters
  <1>2. <<"a">> \in Seq(Letters) /\ <<"b">> \in Seq(Letters)
    BY <1>1
  <1>3. NewTopic \in {<<"a">>, <<"b">>}
    BY DEF NewTopic
  <1> QED
    BY <1>2, <1>3

LEMMA RotatedConfig ==
    ASSUME NEW c \in Config
    PROVE  /\ [c EXCEPT !.topic = IF @ = local THEN NewTopic ELSE @] \in Config
           /\ \A f \in {"json", "broker", "server"} : [c EXCEPT !.topic = IF @ = local THEN NewTopic ELSE @][f] = c[f]
           /\ [c EXCEPT !.topic = IF @ = local THEN NewTopic ELSE @].topic \in {c.topic, <<"a">>, <<"b">>}
  <1>1. NewTopic \in Seq(Letters \cup {"/", "+"})
    BY NewTopicType, SeqMonotonic
  <1> QED
    BY <1>1, NewTopicType DEF Config

LEMMA TypeInit == RotationInit => RotationTypeOK
  <1> SUFFICES ASSUME RotationInit PROVE RotationTypeOK
    OBVIOUS
  <1>1. PICK c \in Contents : StartAccepts(c) /\ file = [content |-> c, edit |-> 0]
    BY DEF RotationInit, Init
  <1>2. c \in Config /\ file \in Versions
    BY <1>1, ReloadAssumption DEF Versions
  <1>3. FileTyped
    <2>1. file.edit = 0 /\ events = 0
      BY <1>1 DEF RotationInit, Init
    <2>2. watched \in BOOLEAN /\ unseen \in BOOLEAN
      BY Zenon DEF RotationInit, Init
    <2> QED
      BY <1>2, <2>1, <2>2 DEF FileTyped
  <1>4. ReloadTyped
    <2>1. <<>> \in Seq(Reads(Versions)) /\ <<>> \in Seq(Versions)
      BY EmptySeq
    <2> QED
      BY <2>1 DEF ReloadTyped, RotationInit, Init
  <1>5. MainTyped
    <2>1. conf \in Versions /\ keepalive = StartKeepalive(c)
      BY <1>1, <1>2 DEF RotationInit, Init
    <2>2. keepalive \in [manual : Int, mqtt : Int]
      BY <1>2, <2>1, StartKeepaliveType
    <2>3. main = "connect" /\ attempts = 0 /\ MaxRetries \in Nat \ {0}
      BY ReloadAssumption DEF RotationInit, Init
    <2>4. started \in BOOLEAN
      BY Zenon DEF RotationInit, Init
    <2> QED
      BY <2>1, <2>2, <2>3, <2>4 DEF MainTyped
  <1>6. LinkTyped
    BY DEF LinkTyped, RotationInit, Init
  <1>7. local \in Seq(Letters \cup {"/"}) /\ script = "idle" /\ compared \in 0..file.edit
    <2>1. compared = 0 /\ file.edit = 0
      BY <1>1 DEF RotationInit
    <2> QED
      BY <1>1, <1>2, <2>1, AcceptedTopicType DEF RotationInit
  <1> QED
    BY <1>3, <1>4, <1>5, <1>6, <1>7 DEF RotationTypeOK, TypeOK

LEMMA WriteTyped ==
    ASSUME RotationTypeOK, NEW c \in Config, Write(c)
    PROVE  FileTyped' /\ file' \in Versions /\ file'.content = c
  <1>1. /\ file \in Versions /\ watched \in BOOLEAN /\ file.edit \in 0..MaxEdits /\ events \in Nat
        /\ events <= file.edit /\ MaxEdits \in Nat /\ file.edit < MaxEdits
    BY ReloadAssumption DEF RotationTypeOK, TypeOK, FileTyped, Versions, Write
  <1>2. file' = [content |-> c, edit |-> file.edit + 1]
    BY DEF Write
  <1>3. file.edit + 1 \in 0..MaxEdits
    BY <1>1
  <1>4. file' \in Versions /\ file'.edit = file.edit + 1 /\ file'.content = c
    BY <1>2, <1>3 DEF Versions
  <1>5. events' \in 0..file'.edit
    <2>1. events' = events \/ events' = events + 1
      BY DEF Write
    <2> QED
      BY <1>1, <1>4, <2>1
  <1>6. watched' \in BOOLEAN /\ unseen' \in BOOLEAN
    BY <1>1, Zenon DEF Write
  <1> QED
    BY <1>4, <1>5, <1>6 DEF FileTyped

LEMMA FileTypeStep ==
    ASSUME RotationTypeOK, [RotationNext]_allVars
    PROVE  FileTyped'
  <1>1. file \in Versions /\ watched \in BOOLEAN /\ unseen \in BOOLEAN /\ events \in 0..file.edit
    BY DEF RotationTypeOK, TypeOK, FileTyped
  <1>2. CASE UNCHANGED fileVars
    BY <1>1, <1>2 DEF FileTyped, fileVars
  <1>3. CASE Edit
    BY <1>3, WriteTyped, ReloadAssumption DEF Edit
  <1>4. CASE SedRemote
    <2>1. file.content \in Config
      BY <1>1 DEF Versions
    <2> QED
      BY <1>4, <2>1, WriteTyped, RotatedConfig DEF SedRemote
  <1>5. CASE Retarget
    <2>1. PICK c \in Contents : file' = [content |-> c, edit |-> file.edit + 1]
      BY <1>5 DEF Retarget
    <2>2. /\ c \in Config /\ file.edit \in 0..MaxEdits /\ MaxEdits \in Nat
          /\ file.edit < MaxEdits /\ events' = events
      BY <1>1, <1>5, <2>1, ReloadAssumption DEF Versions, Retarget
    <2>3. file.edit + 1 \in 0..MaxEdits /\ events' \in 0..file.edit + 1
      BY <1>1, <2>2
    <2>4. file' \in Versions /\ file'.edit = file.edit + 1
      BY <2>1, <2>2, <2>3 DEF Versions
    <2>5. watched' \in BOOLEAN /\ unseen' \in BOOLEAN
      BY <1>5, Zenon DEF Retarget
    <2> QED
      BY <2>3, <2>4, <2>5 DEF FileTyped
  <1>6. CASE WatchEvent
    <2>1. file.edit \in Nat /\ events > 0 /\ events' = events - 1 /\ UNCHANGED <<file, watched, unseen>>
      BY <1>1, <1>6, ReloadAssumption DEF WatchEvent, Versions
    <2>2. events' \in 0..file.edit
      BY <1>1, <2>1
    <2> QED
      BY <1>1, <2>1, <2>2 DEF FileTyped
  <1>7. CASE Watch
    <2>1. watched' \in BOOLEAN /\ UNCHANGED <<file, unseen, events>>
      BY <1>7, Zenon DEF Watch
    <2> QED
      BY <1>1, <2>1 DEF FileTyped
  <1>8. Next => Edit \/ SedRemote \/ Retarget \/ WatchEvent \/ Watch \/ UNCHANGED fileVars
    BY DEF Next, Reloader, Main, TimerFires, CallbackReads, CallbackSends, Connect, AttemptFails,
       AttemptSucceeds, SetTunnelMaps, Reload, LinkComesUp, OnConnect
  <1>9. Rotate => SedRemote \/ UNCHANGED fileVars
    BY DEF Rotate, Compare, SshFails, SedLocal, SedLocalFails, vars
  <1>10. UNCHANGED allVars => UNCHANGED fileVars
    BY DEF allVars, vars
  <1> QED
    BY <1>2, <1>3, <1>4, <1>5, <1>6, <1>7, <1>8, <1>9, <1>10 DEF RotationNext

LEMMA ReloadTypeStep ==
    ASSUME RotationTypeOK, [RotationNext]_allVars
    PROVE  ReloadTyped'
  <1>1. /\ timer \in {"off", "set"} /\ callbacks \in Seq(Reads(Versions))
        /\ reloadCh \in Seq(Versions) /\ file \in Versions
    BY DEF RotationTypeOK, TypeOK, FileTyped, ReloadTyped
  <1>2. CASE UNCHANGED reloadVars
    BY <1>1, <1>2 DEF ReloadTyped, reloadVars
  <1>3. CASE WatchEvent
    BY <1>1, <1>3 DEF ReloadTyped, WatchEvent, ResetTimer
  <1>4. CASE TimerFires
    BY <1>1, <1>4, OneMoreCallback DEF ReloadTyped, TimerFires
  <1>5. CASE CallbackReads
    <2>1. PICK i \in DOMAIN callbacks :
            callbacks' \in {[callbacks EXCEPT ![i] = <<file>>], RemoveAt(callbacks, i)}
      BY <1>5 DEF CallbackReads
    <2> QED
      BY <1>1, <1>5, <2>1, CallbacksType DEF ReloadTyped, CallbackReads
  <1>6. CASE CallbackSends
    <2>1. PICK i \in DOMAIN callbacks :
            /\ callbacks[i] # <<>>
            /\ callbacks' = RemoveAt(callbacks, i)
            /\ reloadCh' \in {reloadCh \o callbacks[i], reloadCh}
      BY <1>6 DEF CallbackSends
    <2>2. callbacks' \in Seq(Reads(Versions)) /\ callbacks[i] \in Seq(Versions)
      BY <1>1, <2>1, CallbacksType
    <2>3. reloadCh' \in Seq(Versions)
      BY <1>1, <2>1, <2>2, ConcatProperties
    <2> QED
      BY <1>1, <1>6, <2>2, <2>3 DEF ReloadTyped, CallbackSends
  <1>7. CASE Reload
    BY <1>1, <1>7, HeadTailProperties DEF ReloadTyped, Reload, TakeReload
  <1>8. Next => \/ WatchEvent \/ TimerFires \/ CallbackReads \/ CallbackSends \/ Reload
                \/ UNCHANGED reloadVars
    BY DEF Next, Reloader, Main, Edit, Retarget, Connect, AttemptFails, AttemptSucceeds,
       SetTunnelMaps, Watch, LinkComesUp, OnConnect
  <1>9. Rotate => UNCHANGED reloadVars
    BY DEF Rotate, Compare, SedRemote, SshFails, SedLocal, SedLocalFails, vars
  <1>10. UNCHANGED allVars => UNCHANGED reloadVars
    BY DEF allVars, vars
  <1> QED
    BY <1>2, <1>3, <1>4, <1>5, <1>6, <1>7, <1>8, <1>9, <1>10 DEF RotationNext

\* A reload makes conf of the config it takes, with the keepalive of that.
LEMMA ReloadEffect ==
    ASSUME RotationTypeOK, Reload
    PROVE  /\ conf' = reloadCh[1] /\ conf' \in Versions /\ Len(reloadCh) \in Nat \ {0}
           /\ reloadCh' = Tail(reloadCh)
           /\ keepalive' = ReloadKeepalive(conf'.content)
           /\ UNCHANGED <<fileVars, timer, callbacks>>
  <1>1. reloadCh \in Seq(Versions) /\ reloadCh # <<>>
    BY DEF RotationTypeOK, TypeOK, ReloadTyped, Reload
  <1>2. Len(reloadCh) \in Nat \ {0}
    BY <1>1, EmptySeq
  <1>3. Head(reloadCh) = reloadCh[1] /\ Head(reloadCh) \in Versions
    BY <1>1, HeadTailProperties
  <1> QED
    BY <1>2, <1>3 DEF Reload, TakeReload

LEMMA MainTypeStep ==
    ASSUME RotationTypeOK, [RotationNext]_allVars
    PROVE  MainTyped'
  <1>1. /\ conf \in Versions /\ keepalive \in [manual : Int, mqtt : Int]
        /\ main \in {"connect", "maps", "watch", "select", "ended"} /\ started \in BOOLEAN
        /\ attempts \in 0..MaxRetries /\ (attempts = MaxRetries => main = "ended")
        /\ MaxRetries \in Nat \ {0}
    BY ReloadAssumption DEF RotationTypeOK, TypeOK, MainTyped
  <1>2. CASE UNCHANGED mainVars
    BY <1>1, <1>2 DEF MainTyped, mainVars
  <1>3. CASE AttemptFails
    <2>1. /\ attempts' = attempts + 1 /\ main = "connect"
          /\ main' = IF attempts' = MaxRetries THEN "ended" ELSE "connect"
          /\ UNCHANGED <<conf, keepalive, started>>
      BY <1>3 DEF AttemptFails, LastAttempt
    <2>2. attempts' \in 0..MaxRetries
      BY <1>1, <2>1
    <2> QED
      BY <1>1, <2>1, <2>2 DEF MainTyped
  <1>4. CASE AttemptSucceeds
    BY <1>1, <1>4 DEF MainTyped, AttemptSucceeds
  <1>5. CASE SetTunnelMaps
    BY <1>1, <1>5 DEF MainTyped, SetTunnelMaps
  <1>6. CASE Watch
    <2>1. started' \in BOOLEAN
      BY <1>6, Zenon DEF Watch
    <2>2. main = "watch" /\ main' = "select" /\ UNCHANGED <<conf, keepalive, attempts>>
      BY <1>6 DEF Watch
    <2> QED
      BY <1>1, <2>1, <2>2 DEF MainTyped
  <1>7. CASE Reload
    <2>1. conf' \in Versions /\ keepalive' = ReloadKeepalive(conf'.content)
      BY <1>7, ReloadEffect
    <2>2. keepalive' \in [manual : Int, mqtt : Int]
      BY <2>1, StartKeepaliveType DEF Versions
    <2>3. attempts' = 0 /\ main' \in {"connect", "ended"} /\ started' = started
      BY <1>7 DEF Reload, NewBroker
    <2> QED
      BY <1>1, <2>1, <2>2, <2>3 DEF MainTyped
  <1>8. Next => AttemptFails \/ AttemptSucceeds \/ SetTunnelMaps \/ Watch \/ Reload \/ UNCHANGED mainVars
    BY DEF Next, Reloader, Main, Edit, Retarget, WatchEvent, TimerFires, CallbackReads, CallbackSends,
       Connect, LinkComesUp, OnConnect
  <1>9. Rotate => UNCHANGED mainVars
    BY DEF Rotate, Compare, SedRemote, SshFails, SedLocal, SedLocalFails, vars
  <1>10. UNCHANGED allVars => UNCHANGED mainVars
    BY DEF allVars, vars
  <1> QED
    BY <1>2, <1>3, <1>4, <1>5, <1>6, <1>7, <1>8, <1>9, <1>10 DEF RotationNext

LEMMA LinkTypeStep ==
    ASSUME RotationTypeOK, [RotationNext]_allVars
    PROVE  LinkTyped'
  <1>1. link \in {"down", "dialing", "up"} /\ subscribed \in BOOLEAN /\ maps \in BOOLEAN
    BY DEF RotationTypeOK, TypeOK, LinkTyped
  <1>2. CASE UNCHANGED linkVars
    BY <1>1, <1>2 DEF LinkTyped, linkVars
  <1>3. CASE Connect
    BY <1>1, <1>3 DEF LinkTyped, Connect
  <1>4. CASE LinkComesUp
    BY <1>1, <1>4 DEF LinkTyped, LinkComesUp
  <1>5. CASE AttemptFails
    BY <1>1, <1>5 DEF LinkTyped, AttemptFails
  <1>6. CASE OnConnect
    <2>1. subscribed' \in BOOLEAN
      BY <1>6, Zenon DEF OnConnect
    <2> QED
      BY <1>1, <1>6, <2>1 DEF LinkTyped, OnConnect
  <1>7. CASE SetTunnelMaps
    <2>1. maps' \in BOOLEAN
      BY <1>7, Zenon DEF SetTunnelMaps
    <2> QED
      BY <1>1, <1>7, <2>1 DEF LinkTyped, SetTunnelMaps
  <1>8. CASE Reload
    <2>1. link' = "down" /\ subscribed' \in BOOLEAN /\ maps' \in BOOLEAN
      BY <1>8, Zenon DEF Reload, NewBroker
    <2> QED
      BY <2>1 DEF LinkTyped
  <1>9. Next => \/ Connect \/ LinkComesUp \/ AttemptFails \/ OnConnect \/ SetTunnelMaps \/ Reload
                \/ UNCHANGED linkVars
    BY DEF Next, Reloader, Main, Edit, Retarget, WatchEvent, TimerFires, CallbackReads, CallbackSends,
       AttemptSucceeds, Watch
  <1>10. Rotate => UNCHANGED linkVars
    BY DEF Rotate, Compare, SedRemote, SshFails, SedLocal, SedLocalFails, vars
  <1>11. UNCHANGED allVars => UNCHANGED linkVars
    BY DEF allVars, vars
  <1> QED
    BY <1>2, <1>3, <1>4, <1>5, <1>6, <1>7, <1>8, <1>9, <1>10, <1>11 DEF RotationNext

LEMMA ScriptTypeStep ==
    ASSUME RotationTypeOK, [RotationNext]_allVars
    PROVE  /\ local' \in Seq(Letters \cup {"/"})
           /\ script' \in {"idle", "remote", "local", "done", "failed"}
           /\ compared' \in 0..file'.edit
  <1>0. compared' \in 0..file'.edit
    <2>1. file.edit \in Nat /\ compared \in 0..file.edit
      BY ReloadAssumption DEF RotationTypeOK, TypeOK, FileTyped, Versions
    <2>2. file'.edit \in {file.edit, file.edit + 1}
      <3>1. Edit \/ Retarget \/ SedRemote => file'.edit = file.edit + 1
        BY DEF Edit, Retarget, SedRemote, Write
      <3>2. Next => Edit \/ Retarget \/ UNCHANGED file
        BY DEF Next, Reloader, Main, WatchEvent, TimerFires, CallbackReads, CallbackSends, Connect,
           AttemptFails, AttemptSucceeds, SetTunnelMaps, Watch, Reload, LinkComesUp, OnConnect, fileVars
      <3>3. Rotate => SedRemote \/ UNCHANGED file
        BY DEF Rotate, Compare, SshFails, SedLocal, SedLocalFails, vars, fileVars
      <3>4. UNCHANGED allVars => UNCHANGED file
        BY DEF allVars, vars, fileVars
      <3> QED
        BY <3>1, <3>2, <3>3, <3>4 DEF RotationNext
    <2>3. compared' = compared \/ (compared' = file.edit /\ file'.edit = file.edit)
      BY DEF RotationNext, Rotate, Compare, SedRemote, SshFails, SedLocal, SedLocalFails,
         allVars, rotationVars, vars, fileVars
    <2> QED
      BY <2>1, <2>2, <2>3
  <1>1. /\ local \in Seq(Letters \cup {"/"})
        /\ script \in {"idle", "remote", "local", "done", "failed"}
    BY DEF RotationTypeOK
  <1>2. CASE UNCHANGED rotationVars
    BY <1>0, <1>1, <1>2 DEF rotationVars
  <1>3. CASE SedLocal
    <2>1. NewTopic \in Seq(Letters \cup {"/"})
      BY NewTopicType, SeqMonotonic
    <2> QED
      BY <1>0, <1>3, <2>1 DEF SedLocal
  <1>4. CASE Compare \/ SedRemote \/ SshFails \/ SedLocalFails
    BY <1>0, <1>1, <1>4 DEF Compare, SedRemote, SshFails, SedLocalFails
  <1> QED
    BY <1>2, <1>3, <1>4 DEF RotationNext, Rotate, allVars, rotationVars

\* Every variable keeps its type: in particular no callback holds more than
\* the one version it has read, there are no more events than changes of the
\* file, and the tenth failed attempt ends the process.
THEOREM RotationTypeCorrect == RotationSpec => []RotationTypeOK
  <1>1. RotationTypeOK /\ [RotationNext]_allVars => RotationTypeOK'
    <2> SUFFICES ASSUME RotationTypeOK, [RotationNext]_allVars PROVE RotationTypeOK'
      OBVIOUS
    <2> QED
      BY FileTypeStep, ReloadTypeStep, MainTypeStep, LinkTypeStep, ScriptTypeStep
      DEF RotationTypeOK, TypeOK
  <1> QED
    BY TypeInit, <1>1, PTL DEF RotationSpec

-----------------------------------------------------------------------------
(* A reload leads to the keepalive of a restart. *)

\* The two sets of defaults agree on every config, not only on those around
\* their edges.
LEMMA DefaultsAgree ==
    ASSUME NEW c \in Config
    PROVE  InForce(ReloadKeepalive(c)) = InForce(StartKeepalive(c))
  <1>1. c.manualKeepalive \in Int /\ c.mqttKeepalive \in Int
    BY DEF Config
  <1>2. CASE c.manualKeepalive > 0
    BY <1>2 DEF ReloadKeepalive, StartKeepalive
  <1>3. CASE ~(c.manualKeepalive > 0) /\ c.mqttKeepalive > 0 /\ c.mqttKeepalive < Off
    <2>1. ReloadKeepalive(c) = Keepalive(c.manualKeepalive, c.mqttKeepalive)
      BY <1>1, <1>3 DEF ReloadKeepalive, Off
    <2>2. StartKeepalive(c) = Keepalive(0, c.mqttKeepalive)
      BY <1>3 DEF StartKeepalive
    <2> QED
      BY <1>3, <2>1, <2>2 DEF InForce, Keepalive
  <1>4. CASE ~(c.manualKeepalive > 0) /\ ~(c.mqttKeepalive > 0 /\ c.mqttKeepalive < Off)
    <2>1. ReloadKeepalive(c) = PlatformKeepalive
      BY <1>1, <1>4 DEF ReloadKeepalive, Off
    <2>2. StartKeepalive(c) = PlatformKeepalive
      BY <1>4 DEF StartKeepalive
    <2> QED
      BY <2>1, <2>2
  <1> QED
    BY <1>2, <1>3, <1>4

\* The keepalive of the MQTunnel was made from its config, at the start or by
\* a reload.
KeepaliveOfConf == keepalive \in {StartKeepalive(conf.content), ReloadKeepalive(conf.content)}

\* Whatever reloads there were, the keepalive in force is the one a restart
\* with the config in use would give: main.go:350-370 and 459-467 agree.
THEOREM RestartCorrect == RotationSpec => []SameAsRestart
  <1>1. RotationInit => KeepaliveOfConf
    BY DEF RotationInit, Init, KeepaliveOfConf
  <1>2. RotationTypeOK /\ KeepaliveOfConf /\ [RotationNext]_allVars => KeepaliveOfConf'
    <2> SUFFICES ASSUME RotationTypeOK, KeepaliveOfConf, [RotationNext]_allVars PROVE KeepaliveOfConf'
      OBVIOUS
    <2>1. CASE Reload
      BY <2>1, ReloadEffect DEF KeepaliveOfConf
    <2>2. CASE UNCHANGED <<conf, keepalive>>
      BY <2>2 DEF KeepaliveOfConf
    <2>3. Next => Reload \/ UNCHANGED <<conf, keepalive>>
      BY DEF Next, Reloader, Main, Edit, Retarget, WatchEvent, TimerFires, CallbackReads,
         CallbackSends, Connect, AttemptFails, AttemptSucceeds, SetTunnelMaps, Watch, LinkComesUp,
         OnConnect, mainVars
    <2>4. Rotate => UNCHANGED <<conf, keepalive>>
      BY DEF Rotate, Compare, SedRemote, SshFails, SedLocal, SedLocalFails, vars, mainVars
    <2>5. UNCHANGED allVars => UNCHANGED <<conf, keepalive>>
      BY DEF allVars, vars, mainVars
    <2> QED
      BY <2>1, <2>2, <2>3, <2>4, <2>5 DEF RotationNext
  <1>3. RotationTypeOK /\ KeepaliveOfConf => SameAsRestart
    <2> SUFFICES ASSUME RotationTypeOK, KeepaliveOfConf PROVE SameAsRestart
      OBVIOUS
    <2>1. conf.content \in Config
      BY DEF RotationTypeOK, TypeOK, MainTyped, Versions
    <2> QED
      BY <2>1, DefaultsAgree DEF KeepaliveOfConf, SameAsRestart
  <1> QED
    BY <1>1, <1>2, <1>3, RotationTypeCorrect, PTL DEF RotationSpec

-----------------------------------------------------------------------------
(* What a running server has in use, it can use. *)

Checked(c) == c.json /\ ValidateTopic(c.topic)

CheckedVersions == {v \in Versions : Checked(v.content)}

\* What the reload callback has let through parses and has a valid topic; the
\* URL is taken apart only when the config is put to use, and a server that
\* cannot do so has ended.
CheckedWay ==
    /\ reloadCh \in Seq(CheckedVersions)
    /\ conf \in CheckedVersions
    /\ Alive => ParseBrokerURL(conf.content.broker)

LEMMA CheckedWayInit ==
    ASSUME RotationInit
    PROVE  CheckedWay
  <1>1. PICK c \in Contents : StartAccepts(c) /\ file = [content |-> c, edit |-> 0]
    BY DEF RotationInit, Init
  <1>2. file \in CheckedVersions /\ ParseBrokerURL(file.content.broker)
    BY <1>1, ReloadAssumption DEF Versions, CheckedVersions, Checked, StartAccepts
  <1>3. reloadCh = <<>> /\ conf = file
    BY DEF RotationInit, Init
  <1>4. reloadCh \in Seq(CheckedVersions)
    BY <1>3, EmptySeq
  <1> QED
    BY <1>2, <1>3, <1>4 DEF CheckedWay

LEMMA CheckedWayStep ==
    ASSUME RotationTypeOK, CheckedWay, [RotationNext]_allVars
    PROVE  CheckedWay'
  <1>1. /\ reloadCh \in Seq(CheckedVersions) /\ conf \in CheckedVersions
        /\ Alive => ParseBrokerURL(conf.content.broker)
    BY DEF CheckedWay
  <1>2. CASE UNCHANGED <<reloadCh, conf>> /\ (Alive' => Alive)
    BY <1>1, <1>2 DEF CheckedWay
  <1>3. CASE CallbackSends
    <2>1. PICK i \in DOMAIN callbacks :
            /\ callbacks[i] # <<>>
            /\ reloadCh' = IF ReloadAccepts(callbacks[i][1].content)
                           THEN reloadCh \o callbacks[i] ELSE reloadCh
      BY <1>3 DEF CallbackSends
    <2>2. callbacks \in Seq(Reads(Versions))
      BY DEF RotationTypeOK, TypeOK, ReloadTyped
    <2>3. callbacks[i] \in Seq(Versions) /\ Len(callbacks[i]) = 1 /\ callbacks[i][1] \in Versions
      BY <2>1, <2>2, CallbacksType
    <2>4. reloadCh' \in Seq(CheckedVersions)
      <3>1. CASE ReloadAccepts(callbacks[i][1].content)
        <4>1. callbacks[i][1] \in CheckedVersions
          BY <2>3, <3>1 DEF CheckedVersions, Checked, ReloadAccepts
        <4> QED
          BY <1>1, <2>1, <2>3, <3>1, <4>1, SentType
      <3>2. CASE ~ReloadAccepts(callbacks[i][1].content)
        BY <1>1, <2>1, <3>2
      <3> QED
        BY <3>1, <3>2
    <2> QED
      BY <1>1, <1>3, <2>4 DEF CheckedWay, CallbackSends, mainVars, Alive
  <1>4. CASE Reload
    <2>1. /\ conf' = reloadCh[1] /\ Len(reloadCh) \in Nat \ {0}
          /\ reloadCh' = Tail(reloadCh) /\ reloadCh # <<>>
      BY <1>4, ReloadEffect DEF Reload
    <2>2. conf' \in CheckedVersions
      BY <1>1, <2>1, ElementOfSeq
    <2>3. reloadCh' \in Seq(CheckedVersions)
      BY <1>1, <2>1, HeadTailProperties
    <2>4. Alive' => ParseBrokerURL(conf'.content.broker)
      BY <1>4 DEF Reload, NewBroker, Alive
    <2> QED
      BY <2>2, <2>3, <2>4 DEF CheckedWay
  <1>5. Next => CallbackSends \/ Reload \/ (UNCHANGED <<reloadCh, conf>> /\ (Alive' => Alive))
    BY DEF Next, Reloader, Main, Edit, Retarget, WatchEvent, TimerFires, CallbackReads, Connect,
       AttemptFails, AttemptSucceeds, SetTunnelMaps, Watch, LinkComesUp, OnConnect, reloadVars,
       mainVars, Alive
  <1>6. Rotate \/ UNCHANGED allVars => UNCHANGED <<reloadCh, conf>> /\ (Alive' => Alive)
    BY DEF Rotate, Compare, SedRemote, SshFails, SedLocal, SedLocalFails, allVars, vars,
       reloadVars, mainVars, Alive
  <1> QED
    BY <1>2, <1>3, <1>4, <1>5, <1>6 DEF RotationNext

\* Whatever is written to the file, a running server has a config that parses,
\* with a URL and a topic it can use: what the reload callback does not check
\* ends the process before a connection is tried.
THEOREM InUseCorrect == RotationSpec => []InUseUsable
  <1>1. RotationInit => CheckedWay
    BY CheckedWayInit
  <1>2. RotationTypeOK /\ CheckedWay /\ [RotationNext]_allVars => CheckedWay'
    BY CheckedWayStep
  <1>3. CheckedWay => InUseUsable
    BY DEF CheckedWay, CheckedVersions, Checked, InUseUsable
  <1> QED
    BY <1>1, <1>2, <1>3, RotationTypeCorrect, PTL DEF RotationSpec

-----------------------------------------------------------------------------
(* The config in use never gets older. *)

LEMMA RemoveOnly ==
    ASSUME NEW S, NEW q \in Seq(S), Len(q) <= 1, NEW i \in DOMAIN q
    PROVE  i = 1 /\ Len(q) = 1 /\ RemoveAt(q, i) = <<>>
  <1>1. Len(q) \in Nat /\ i \in 1..Len(q)
    BY LenProperties
  <1>2. i = 1 /\ Len(q) = 1
    <2>1. ASSUME NEW n \in Nat, NEW k \in 1..n, n <= 1 PROVE k = 1 /\ n = 1
      BY <2>1
    <2> QED
      BY <1>1, <2>1, Zenon
  <1>3. SubSeq(q, 1, 0) = <<>> /\ SubSeq(q, 2, 1) = <<>>
    BY SubSeqEmpty
  <1>4. RemoveAt(q, i) = <<>> \o <<>>
    BY <1>2, <1>3 DEF RemoveAt
  <1>5. <<>> \o <<>> = <<>>
    BY ConcatEmptySeq, EmptySeq
  <1> QED
    BY <1>2, <1>4, <1>5

\* The versions on the way, from conf over reloadCh and the callback to the
\* file, are in the order in which they were written; a callback that has
\* started is done before the next one may be.
OneCallback  == Len(callbacks) <= 1
ConfOldest   == conf.edit <= file.edit
QueueBetween == \A i \in DOMAIN reloadCh : conf.edit <= reloadCh[i].edit /\ reloadCh[i].edit <= file.edit
QueueSorted  == \A i, j \in DOMAIN reloadCh : i < j => reloadCh[i].edit <= reloadCh[j].edit
ReadLast ==
    \A k \in DOMAIN callbacks : callbacks[k] # <<>> =>
        /\ conf.edit <= callbacks[k][1].edit /\ callbacks[k][1].edit <= file.edit
        /\ \A i \in DOMAIN reloadCh : reloadCh[i].edit <= callbacks[k][1].edit
InOrder == OneCallback /\ ConfOldest /\ QueueBetween /\ QueueSorted /\ ReadLast

LEMMA EditsAreNat ==
    ASSUME RotationTypeOK
    PROVE  /\ conf.edit \in Nat /\ file.edit \in Nat
           /\ \A i \in DOMAIN reloadCh : reloadCh[i].edit \in Nat
           /\ \A k \in DOMAIN callbacks : callbacks[k] # <<>> => callbacks[k][1].edit \in Nat
           /\ Len(reloadCh) \in Nat /\ DOMAIN reloadCh = 1..Len(reloadCh)
  <1>1. /\ conf \in Versions /\ file \in Versions /\ reloadCh \in Seq(Versions)
        /\ callbacks \in Seq(Reads(Versions))
    BY DEF RotationTypeOK, TypeOK, MainTyped, FileTyped, ReloadTyped
  <1>2. ASSUME NEW v \in Versions PROVE v.edit \in Nat
    BY ReloadAssumption DEF Versions
  <1>3. Len(reloadCh) \in Nat /\ DOMAIN reloadCh = 1..Len(reloadCh)
    BY <1>1, LenProperties
  <1>4. ASSUME NEW i \in DOMAIN reloadCh PROVE reloadCh[i].edit \in Nat
    BY <1>1, <1>2, <1>3, ElementOfSeq
  <1>5. ASSUME NEW k \in DOMAIN callbacks, callbacks[k] # <<>> PROVE callbacks[k][1].edit \in Nat
    BY <1>1, <1>2, <1>5, CallbacksType
  <1> QED
    BY <1>1, <1>2, <1>3, <1>4, <1>5

LEMMA InOrderInit == RotationInit => InOrder
  <1> SUFFICES ASSUME RotationInit PROVE InOrder
    OBVIOUS
  <1>1. callbacks = <<>> /\ reloadCh = <<>> /\ conf = file /\ file.edit = 0
    BY DEF RotationInit, Init
  <1> QED
    BY <1>1 DEF InOrder, OneCallback, ConfOldest, QueueBetween, QueueSorted, ReadLast

\* A change of the file makes it the newest version.
LEMMA InOrderWrite ==
    ASSUME RotationTypeOK, InOrder, UNCHANGED <<callbacks, reloadCh, conf>>,
           file'.edit = file.edit + 1
    PROVE  InOrder'
  <1>1. /\ conf.edit \in Nat /\ file.edit \in Nat
        /\ \A i \in DOMAIN reloadCh : reloadCh[i].edit \in Nat
        /\ \A k \in DOMAIN callbacks : callbacks[k] # <<>> => callbacks[k][1].edit \in Nat
    BY EditsAreNat
  <1>2. OneCallback' /\ QueueSorted'
    BY DEF InOrder, OneCallback, QueueSorted
  <1>3. ConfOldest'
    BY <1>1 DEF InOrder, ConfOldest
  <1>4. QueueBetween'
    BY <1>1 DEF InOrder, QueueBetween
  <1>5. ReadLast'
    BY <1>1 DEF InOrder, ReadLast
  <1> QED
    BY <1>2, <1>3, <1>4, <1>5 DEF InOrder

LEMMA InOrderTimer ==
    ASSUME SlowReads = FALSE, InOrder, TimerFires
    PROVE  InOrder'
  <1>1. /\ callbacks = <<>> /\ callbacks' = Append(callbacks, <<>>)
        /\ UNCHANGED <<file, reloadCh, conf>>
    BY DEF TimerFires, fileVars, mainVars
  <1>2. callbacks' = << <<>> >>
    BY <1>1
  <1>3. OneCallback' /\ ReadLast'
    BY <1>2 DEF OneCallback, ReadLast
  <1> QED
    BY <1>1, <1>3 DEF InOrder, ConfOldest, QueueBetween, QueueSorted

\* The callback reads the file, which is the newest version there is.
LEMMA InOrderRead ==
    ASSUME RotationTypeOK, InOrder, CallbackReads
    PROVE  InOrder'
  <1>1. PICK i \in DOMAIN callbacks :
          callbacks' \in {[callbacks EXCEPT ![i] = <<file>>], RemoveAt(callbacks, i)}
    BY DEF CallbackReads
  <1>2. UNCHANGED <<file, reloadCh, conf>>
    BY DEF CallbackReads, fileVars, mainVars
  <1>3. callbacks \in Seq(Reads(Versions)) /\ Len(callbacks) <= 1
    BY DEF RotationTypeOK, TypeOK, ReloadTyped, InOrder, OneCallback
  <1>4. i = 1 /\ Len(callbacks) = 1 /\ RemoveAt(callbacks, i) = <<>> /\ DOMAIN callbacks = {1}
    <2>1. i = 1 /\ Len(callbacks) = 1 /\ RemoveAt(callbacks, i) = <<>>
      BY <1>3, RemoveOnly
    <2>2. DOMAIN callbacks = 1..Len(callbacks)
      BY <1>3, LenProperties
    <2> QED
      BY <2>1, <2>2
  <1>5. CASE callbacks' = <<>>
    <2>1. OneCallback' /\ ReadLast'
      BY <1>5 DEF OneCallback, ReadLast
    <2> QED
      BY <1>2, <2>1 DEF InOrder, ConfOldest, QueueBetween, QueueSorted
  <1>6. CASE callbacks' = [callbacks EXCEPT ![i] = <<file>>]
    <2>1. DOMAIN callbacks' = {1} /\ callbacks'[1] = <<file>>
      BY <1>4, <1>6
    <2>2. Len(callbacks') = 1
      <3>1. <<file>> \in Reads(Versions)
        BY DEF RotationTypeOK, TypeOK, FileTyped, Reads
      <3> QED
        BY <1>3, <1>4, <1>6, <3>1, ExceptSeq
    <2>3. file.edit \in Nat /\ ConfOldest /\ QueueBetween
      BY EditsAreNat DEF InOrder
    <2>4. callbacks'[1][1] = file
      BY <2>1
    <2>5. ReadLast'
      BY <1>2, <2>1, <2>3, <2>4 DEF ReadLast, ConfOldest, QueueBetween
    <2> QED
      BY <1>2, <2>2, <2>5 DEF InOrder, OneCallback, ConfOldest, QueueBetween, QueueSorted
  <1> QED
    BY <1>1, <1>4, <1>5, <1>6

\* What the callback sends is not older than what waits in reloadCh.
LEMMA InOrderSend ==
    ASSUME RotationTypeOK, InOrder, CallbackSends
    PROVE  InOrder'
  <1>1. PICK i \in DOMAIN callbacks :
          /\ callbacks[i] # <<>>
          /\ callbacks' = RemoveAt(callbacks, i)
          /\ reloadCh' \in {reloadCh \o callbacks[i], reloadCh}
    BY DEF CallbackSends
  <1>2. UNCHANGED <<file, conf>>
    BY DEF CallbackSends, fileVars, mainVars
  <1>3. /\ callbacks \in Seq(Reads(Versions)) /\ Len(callbacks) <= 1
        /\ reloadCh \in Seq(Versions)
    BY DEF RotationTypeOK, TypeOK, ReloadTyped, InOrder, OneCallback
  <1>4. callbacks' = <<>>
    BY <1>1, <1>3, RemoveOnly
  <1>5. OneCallback' /\ ReadLast' /\ ConfOldest'
    BY <1>2, <1>4 DEF InOrder, OneCallback, ReadLast, ConfOldest
  <1>6. CASE reloadCh' = reloadCh
    BY <1>2, <1>5, <1>6 DEF InOrder, QueueBetween, QueueSorted
  <1>7. CASE reloadCh' = reloadCh \o callbacks[i]
    <2> DEFINE v == callbacks[i][1]
    <2>1. callbacks[i] \in Seq(Versions) /\ Len(callbacks[i]) = 1 /\ v \in Versions
      BY <1>1, <1>3, CallbacksType
    <2>2. /\ reloadCh' \in Seq(Versions)
          /\ Len(reloadCh') = Len(reloadCh) + 1
          /\ \A k \in 1..Len(reloadCh) : reloadCh'[k] = reloadCh[k]
          /\ reloadCh'[Len(reloadCh) + 1] = v
      BY <1>3, <1>7, <2>1, SentType
    <2>3. DOMAIN reloadCh' = 1..Len(reloadCh')
      BY <2>2, LenProperties
    <2>4. /\ \A k \in 1..Len(reloadCh) : reloadCh[k].edit \in Nat /\ reloadCh[k].edit <= v.edit
          /\ conf.edit <= v.edit /\ v.edit <= file.edit /\ v.edit \in Nat
          /\ Len(reloadCh) \in Nat /\ DOMAIN reloadCh = 1..Len(reloadCh)
      BY <1>1, EditsAreNat DEF InOrder, ReadLast
    <2> HIDE DEF v
    <2>5. ASSUME NEW k \in DOMAIN reloadCh'
          PROVE  k \in 1..Len(reloadCh) \/ k = Len(reloadCh) + 1
      BY <2>2, <2>3, <2>4
    <2>6. QueueBetween'
      BY <1>2, <2>2, <2>4, <2>5 DEF InOrder, QueueBetween
    <2>7. QueueSorted'
      <3> SUFFICES ASSUME NEW k \in DOMAIN reloadCh', NEW j \in DOMAIN reloadCh', k < j
                   PROVE  reloadCh'[k].edit <= reloadCh'[j].edit
        BY DEF QueueSorted
      <3>1. k \in 1..Len(reloadCh)
        BY <2>4, <2>5
      <3>2. CASE j = Len(reloadCh) + 1
        BY <2>2, <2>4, <3>1, <3>2
      <3>3. CASE j \in 1..Len(reloadCh)
        BY <2>2, <2>4, <3>1, <3>3 DEF InOrder, QueueSorted
      <3> QED
        BY <2>5, <3>2, <3>3
    <2> QED
      BY <1>5, <2>6, <2>7 DEF InOrder
  <1> QED
    BY <1>1, <1>6, <1>7

\* The main loop takes the oldest of the versions that wait.
LEMMA InOrderReload ==
    ASSUME RotationTypeOK, InOrder, Reload
    PROVE  InOrder' /\ conf.edit <= conf'.edit
  <1>1. /\ conf' = reloadCh[1] /\ Len(reloadCh) \in Nat \ {0}
        /\ reloadCh' = Tail(reloadCh) /\ reloadCh \in Seq(Versions) /\ reloadCh # <<>>
        /\ UNCHANGED <<file, callbacks>>
    BY ReloadEffect DEF fileVars, Reload, RotationTypeOK, TypeOK, ReloadTyped
  <1>2. /\ reloadCh' \in Seq(Versions)
        /\ Len(reloadCh') = Len(reloadCh) - 1
        /\ \A k \in 1..Len(reloadCh') : reloadCh'[k] = reloadCh[k + 1]
    BY <1>1, HeadTailProperties
  <1>3. DOMAIN reloadCh' = 1..Len(reloadCh') /\ DOMAIN reloadCh = 1..Len(reloadCh)
    BY <1>1, <1>2, LenProperties
  <1>4. ASSUME NEW k \in DOMAIN reloadCh'
        PROVE  k \in Nat /\ 1 < k + 1 /\ k + 1 \in DOMAIN reloadCh /\ reloadCh'[k] = reloadCh[k + 1]
    BY <1>1, <1>2, <1>3
  <1>5. 1 \in DOMAIN reloadCh
    BY <1>1, <1>3
  <1>6. conf.edit <= conf'.edit /\ ConfOldest'
    BY <1>1, <1>5 DEF InOrder, QueueBetween, ConfOldest
  <1>7. QueueBetween'
    BY <1>1, <1>4, <1>5 DEF InOrder, QueueBetween, QueueSorted
  <1>8. QueueSorted'
    <2> SUFFICES ASSUME NEW k \in DOMAIN reloadCh', NEW j \in DOMAIN reloadCh', k < j
                 PROVE  reloadCh'[k].edit <= reloadCh'[j].edit
      BY DEF QueueSorted
    <2>1. k \in Nat /\ j \in Nat /\ k + 1 \in DOMAIN reloadCh /\ j + 1 \in DOMAIN reloadCh
      BY <1>4
    <2>2. k + 1 < j + 1
      BY <2>1
    <2> QED
      BY <1>4, <2>1, <2>2 DEF InOrder, QueueSorted
  <1>9. ReadLast'
    BY <1>1, <1>4, <1>5 DEF InOrder, ReadLast
  <1>10. OneCallback'
    BY <1>1 DEF InOrder, OneCallback
  <1> QED
    BY <1>6, <1>7, <1>8, <1>9, <1>10 DEF InOrder

LEMMA InOrderStep ==
    ASSUME SlowReads = FALSE, RotationTypeOK, InOrder, [RotationNext]_allVars
    PROVE  InOrder' /\ conf.edit <= conf'.edit
  <1>1. CASE UNCHANGED <<file, callbacks, reloadCh, conf>>
    BY <1>1, EditsAreNat
    DEF InOrder, OneCallback, ConfOldest, QueueBetween, QueueSorted, ReadLast
  <1>2. CASE UNCHANGED <<callbacks, reloadCh, conf>> /\ file'.edit = file.edit + 1
    BY <1>2, InOrderWrite, EditsAreNat
  <1>3. CASE (TimerFires \/ CallbackReads \/ CallbackSends) /\ conf' = conf
    <2>1. InOrder'
      BY <1>3, InOrderTimer, InOrderRead, InOrderSend
    <2>2. conf.edit <= conf.edit
      BY EditsAreNat
    <2> QED
      BY <1>3, <2>1, <2>2
  <1>4. CASE Reload
    BY <1>4, InOrderReload
  <1>5. Edit \/ Retarget \/ SedRemote =>
          UNCHANGED <<callbacks, reloadCh, conf>> /\ file'.edit = file.edit + 1
    BY DEF Edit, Retarget, SedRemote, Write, reloadVars, mainVars
  <1>6. Next => \/ (TimerFires \/ CallbackReads \/ CallbackSends) /\ conf' = conf
                \/ Reload \/ Edit \/ Retarget
                \/ UNCHANGED <<file, callbacks, reloadCh, conf>>
    BY DEF Next, Reloader, Main, TimerFires, CallbackReads, CallbackSends, WatchEvent, Connect,
       AttemptFails, AttemptSucceeds, SetTunnelMaps, Watch, LinkComesUp, OnConnect, fileVars,
       reloadVars, mainVars
  <1>7. Rotate => SedRemote \/ UNCHANGED <<file, callbacks, reloadCh, conf>>
    BY DEF Rotate, Compare, SshFails, SedLocal, SedLocalFails, vars, fileVars, reloadVars, mainVars
  <1>8. UNCHANGED allVars => UNCHANGED <<file, callbacks, reloadCh, conf>>
    BY DEF allVars, vars, fileVars, reloadVars, mainVars
  <1> QED
    BY <1>1, <1>2, <1>3, <1>4, <1>5, <1>6, <1>7, <1>8 DEF RotationNext

\* As long as a reload callback is done before the next debounce time is over,
\* no reload brings an older config back (reloader.go:96-154,
\* mqtunnel.go:184-207).
THEOREM NeverBackCorrect == SlowReads = FALSE => (RotationSpec => NeverGoesBack)
  <1> SUFFICES ASSUME SlowReads = FALSE PROVE RotationSpec => NeverGoesBack
    OBVIOUS
  <1>1. RotationInit => InOrder
    BY InOrderInit
  <1>2. RotationTypeOK /\ InOrder /\ [RotationNext]_allVars => InOrder'
    BY InOrderStep
  <1>3. RotationTypeOK /\ InOrder /\ [RotationNext]_allVars => [conf'.edit >= conf.edit]_vars
    <2> SUFFICES ASSUME RotationTypeOK, InOrder, [RotationNext]_allVars
                 PROVE  conf'.edit >= conf.edit
      OBVIOUS
    <2> QED
      BY InOrderStep
  <1> QED
    BY <1>1, <1>2, <1>3, RotationTypeCorrect, PTL DEF RotationSpec, NeverGoesBack
=============================================================================
