--------------------------- MODULE ReliableStream ---------------------------
(***************************************************************************)
(* What an ARQ link promises to the layers above it: between each sender   *)
(* n and its peer a bounded FIFO that loses, repeats and reorders nothing. *)
(* Payloads are numbered 1, 2, ... in the order the sender handed them     *)
(* over, so a stream is two counters and the payload read last.            *)
(***************************************************************************)
EXTENDS Naturals

CONSTANTS Endpoint,     \* the two ends of the link
          Peer(_),      \* the end that reads what an endpoint sends
          Capacity,     \* payloads the link can hold in one direction
          MaxSend,      \* bound: payloads an endpoint hands over
          MaxResets     \* bound: resets of the link

VARIABLES sent,         \* sent[n]: payloads n handed over since the reset
          rcvd,         \* rcvd[n]: payloads n has read since the reset
          got,          \* got[n]: the payload n has read last
          resets

vars == <<sent, rcvd, got, resets>>

Init == /\ sent = [n \in Endpoint |-> 0]
        /\ rcvd = [n \in Endpoint |-> 0]
        /\ got  = [n \in Endpoint |-> 0]
        /\ resets = 0

Put(n) == /\ sent[n] < MaxSend[n]
          /\ sent[n] - rcvd[Peer(n)] < Capacity
          /\ sent' = [sent EXCEPT ![n] = @ + 1]
          /\ UNCHANGED <<rcvd, got, resets>>

Get(n) == /\ rcvd[n] < sent[Peer(n)]
          /\ rcvd' = [rcvd EXCEPT ![n] = @ + 1]
          /\ got'  = [got EXCEPT ![n] = rcvd[n] + 1]
          /\ UNCHANGED <<sent, resets>>

ResetStream == /\ resets < MaxResets
               /\ resets' = resets + 1
               /\ sent' = [n \in Endpoint |-> 0]
               /\ rcvd' = [n \in Endpoint |-> 0]
               /\ got'  = [n \in Endpoint |-> 0]

Next == \/ \E n \in Endpoint : Put(n) \/ Get(n)
        \/ ResetStream

Spec == Init /\ [][Next]_vars

=============================================================================
