------------------------------- MODULE MCARQ -------------------------------
(***************************************************************************)
(* Instances of the sliding-window protocol for TLC.                       *)
(***************************************************************************)
EXTENDS ARQProps

Streams(host, hicann) == [n \in Endpoint |-> IF n[1] = "host" THEN host ELSE hicann]

\* Both directions: the sequence numbers wrap round in mid-stream, and data
\* packets carry the acknowledgements of the other direction.
Duplex == Streams(5, 1)
\* The stream whose liveness is checked.
Live   == Streams(5, 0)

NoTimeouts    == {}
OtherTimeouts == {<<0, 1>>}
=============================================================================
