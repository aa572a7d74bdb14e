------------------------------ MODULE MCGateway ------------------------------
EXTENDS Gateway
Plain == [route |-> "ack", id |-> FALSE, reason |-> FALSE, filters |-> "f1", window |-> TRUE, consent |-> FALSE]
Ask(r) == [Plain EXCEPT !.route = r]
\* Every route, with and without what it may be given, beside a publish with a
\* message id or the creation of the consumer.
AllKinds ==
    {Ask(r) : r \in Routes}
    \cup {[Ask("publish_message") EXCEPT !.id = TRUE], [Ask("delete_consumer") EXCEPT !.consent = TRUE],
          [Ask("delete_stream") EXCEPT !.consent = TRUE],
          [Ask("create_stream") EXCEPT !.window = FALSE], [Ask("update_stream") EXCEPT !.window = FALSE],
          [Ask("update_consumer") EXCEPT !.filters = "f2"],
          [Ask("update_consumer") EXCEPT !.filters = None],
          [Ask("update_consumer") EXCEPT !.filters = "f2", !.consent = TRUE],
          [Ask("create_consumer") EXCEPT !.filters = "f2"],
          [Ask("nak") EXCEPT !.reason = TRUE]}
SomeKinds ==
    {[Ask("publish_message") EXCEPT !.id = TRUE], [Ask("create_consumer") EXCEPT !.filters = "f2"]}
TwoCalls == [c \in {"c1", "c2"} |-> IF c = "c1" THEN AllKinds ELSE SomeKinds]
=============================================================================
