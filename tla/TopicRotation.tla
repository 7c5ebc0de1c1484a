--------------------------- MODULE TopicRotation ---------------------------
(***************************************************************************)
(* The script rotate-topic, which gives the client's and the server's      *)
(* config file a new topic, against a server that watches its file: the    *)
(* file of ConfigReload is the remote one, changed over ssh, usually       *)
(* through a tunnel of that very server.                                   *)
(*                                                                         *)
(* As in TunnelProtocol, an operator used nowhere is a faulty variant of   *)
(* the one that follows it.                                                *)
(***************************************************************************)
EXTENDS ConfigReload

VARIABLES
    local,          \* the topic in the client's file
    script,         \* "idle", "remote": about to change the server's file,
                    \* "local": about to change the client's, "done", "failed"
    compared        \* the edit of the server's file the script has compared

rotationVars == <<local, script, compared>>
allVars == <<vars, rotationVars>>

RotationTypeOK ==
    /\ TypeOK
    /\ local \in Seq(Letters \cup {"/"})
    /\ script \in {"idle", "remote", "local", "done", "failed"}
    /\ compared \in 0..file.edit

RotationInit ==
    /\ Init
    /\ local = file.content.topic
    /\ script = "idle" /\ compared = 0

NewTopic == IF local = <<"a">> THEN <<"b">> ELSE <<"a">>

\* The script reads both topics and refuses to go on when they differ.
TopicsUnread(remote) == remote = <<>>
TopicsDiffer(remote) == local # remote
Compare ==
    /\ script \in {"idle", "done", "failed"}
    /\ script' = IF TopicsDiffer(file.content.topic) THEN "failed" ELSE "remote"
    /\ compared' = file.edit
    /\ UNCHANGED <<vars, local>>

\* sed -i over ssh: it writes the file whether or not it finds the old topic.
\* The script only learns the exit status, which is lost with the connection.
SedRemote ==
    /\ script = "remote"
    /\ Write([file.content EXCEPT !.topic = IF @ = local THEN NewTopic ELSE @])
    /\ script' \in {"local", "failed"}
    /\ UNCHANGED <<reloadVars, mainVars, linkVars, local, compared>>

SshFails ==
    /\ script = "remote"
    /\ script' = "failed"
    /\ UNCHANGED <<vars, local, compared>>

\* The local file, once the remote one is changed.
SedLocal ==
    /\ script = "local"
    /\ local' = NewTopic
    /\ script' = "done"
    /\ UNCHANGED <<vars, compared>>

SedLocalFails ==
    /\ script = "local"
    /\ script' = "failed"
    /\ UNCHANGED <<vars, local, compared>>

Rotate == Compare \/ SedRemote \/ SshFails \/ SedLocal \/ SedLocalFails

RotationNext == (Next /\ UNCHANGED rotationVars) \/ Rotate

RotationSpec == RotationInit /\ [][RotationNext]_allVars /\ Fairness

-----------------------------------------------------------------------------
\* After a rotation that reports success, client and server meet again: the
\* server goes on to the topic the script has put into the client's file, if the
\* script was the only one to change the server's file since it compared the
\* topics.  Exempt are a new rotation, a file nobody watched, a config that is
\* refused for another reason than its topic, and the end of the process.
RotationMeets ==
    (script = "done" /\ file.edit = compared + 1) ~>
        \/ conf.content.topic = local
        \/ script # "done" \/ file.edit > compared + 1
        \/ unseen \/ ~ReloadAccepts([file.content EXCEPT !.topic = local]) \/ main = "ended"

\* A rotation that reports "Remote update failed" (rotate-topic:137) has not
\* changed the remote file.
RemoteFailureHarmless ==
    [][script = "remote" /\ script' = "failed" => file' = file]_allVars
=============================================================================
