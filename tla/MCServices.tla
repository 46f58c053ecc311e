------------------------------ MODULE MCServices -----------------------------
\* Two streams and three events for the broker of Services.
EXTENDS Services

\* Every stream is of a device of its own.  The first event is for all, the second one
\* is from the first device, the third one is from no client.
StreamDevice == [c \in Streams |-> c]
StreamUser == [c \in Streams |-> "user"]
EventOrigin ==
  LET one == CHOOSE c \in Streams : TRUE IN
  [e \in Events |-> [all |-> e = "first", device |-> IF e = "second" THEN one ELSE Nobody,
                     user |-> IF e = "second" THEN "user" ELSE Nobody]]
=============================================================================
