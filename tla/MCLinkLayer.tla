---------------------------- MODULE MCLinkLayer ----------------------------
(***************************************************************************)
(* Instances of the JTAG link layer for TLC.                               *)
(***************************************************************************)
EXTENDS LinkLayerProps

NoTimeouts == {}
\* Bounds on the commands of the two tags.
Commands(a, b) == [t \in Tags |-> IF t = 0 THEN a ELSE b]
\* The chip may answer each command.
Answers == [n \in Endpoint |-> Commands(7, 4)[n[2]]]

User(calls, commands) == [calls |-> calls, commands |-> commands]
\* A program that only issues commands, and one that makes every call but
\* recvData.
Prompt == {User({"write", "read"}, Commands(7, 4)),
           User({"write", "read", "Flush", "Clear", "reset_hicann_arq"}, Commands(2, 1))}
\* One that fetches its answers.
Slow   == {User({"write", "read", "recvData"}, Commands(2, 1))}
=============================================================================
