-------------------------- MODULE MCTopicRotation --------------------------
(* Instances of TopicRotation and ConfigReload for TLC. *)
EXTENDS TopicRotation

MCAway == {"away"}

Good(t) ==
    [json |-> TRUE, broker |-> [scheme |-> "mqtt", host |-> "here", port |-> NoPort],
     topic |-> t, server |-> TRUE, mqttKeepalive |-> 0, manualKeepalive |-> 0]

\* Configs that work, with either topic, and the same half-written; topics that
\* are refused, and the example topic, which only main() refuses; a broker that
\* does not answer, a mistyped URL scheme, no URL, no server; and the keepalive
\* settings around the edges of the two sets of defaults.
MCContents ==
    UNION {{Good(t), [Good(t) EXCEPT !.json = FALSE]} : t \in {<<"a">>, <<"b">>}}
    \cup {Good(t) : t \in {<<>>, <<"a", "/">>, <<"a", "+">>, <<"gFAftaCLyD">>}}
    \cup {[Good(<<"b">>) EXCEPT !.broker.host = "away"], [Good(<<"b">>) EXCEPT !.broker.scheme = "mqt"],
          [Good(<<"b">>) EXCEPT !.broker = EmptyURL], [Good(<<"b">>) EXCEPT !.server = FALSE]}
    \cup {[Good(<<"a", "/", "b">>) EXCEPT !.mqttKeepalive = k[1], !.manualKeepalive = k[2]]
          : k \in {<<30, 0>>, <<30, 5>>, <<3600, -1>>, <<-1, 0>>, <<3599, -1>>}}
=============================================================================
