------------------------------ MODULE ARQProps ------------------------------
(***************************************************************************)
(* What the sliding-window protocol of module ARQ has to guarantee.        *)
(***************************************************************************)
EXTENDS ARQ

\* Every member stays in its range: positions are sequence numbers, each
\* buffer has WND_S slots, channels hold packets (arq.h:78-96).
TypeOK ==
  /\ seqpos \in [Endpoint -> SeqNo]
  /\ wndpos \in [Endpoint -> SeqNo]
  /\ sendpos \in [Endpoint -> SeqNo]
  /\ sendbuf \in [Endpoint -> [Slot -> Nat]]
  /\ SendTimer \in [Endpoint -> T!TimerType]
  /\ recwndpos \in [Endpoint -> SeqNo]
  /\ recackpos \in [Endpoint -> SeqNo]
  /\ recbuf \in [Endpoint -> [Slot -> Nat]]
  /\ recvalids \in [Endpoint -> [Slot -> BOOLEAN]]
  /\ RecvTimer \in [Endpoint -> T!TimerType]
  /\ chan \in [Endpoint -> Seq(Packet)]
  /\ sent \in [Endpoint -> Nat]
  /\ rcvd \in [Endpoint -> Nat]
  /\ got \in [Endpoint -> Nat]
  /\ resets \in Nat
-----------------------------------------------------------------------------
\* The send window is a window: going round the ring from the oldest
\* unacknowledged number one meets sendpos, then seqpos, at most WND_S later.
\* A stale acknowledgement taken for a new one, or a position moved past
\* another, breaks it (arq.h:223, 270, 365-384).
SendWindow ==
  \A n \in Endpoint :
    /\ Ofs(sendpos[n], wndpos[n]) <= Ofs(seqpos[n], wndpos[n])
    /\ Ofs(seqpos[n], wndpos[n]) <= WND_S

\* The retransmission timer runs, or its timeout waits to be served, exactly
\* while a transmitted packet is unacknowledged (arq.h:258-275, 376-383).  If
\* it were idle a lost packet would never be repeated; if it could expire with
\* nothing outstanding, GetSendData would return 0 although HasSendData was
\* true, and LinkLayer::Exec, which ignores that result, would write an
\* uninitialised packet to the chip (linklayer.h:85-89).
RetransmitArmed ==
  \A n \in Endpoint : T!Armed(SendTimer[n]) <=> wndpos[n] # sendpos[n]

\* A slot only becomes free for new data when its payload is safe: what n has
\* dropped from its send buffer, its peer has read or holds in order.
AckedIsReceived ==
  \A n \in Endpoint :
    LET m == Peer(n)
    IN  sent[n] - send_valids(n)
          <= rcvd[m] + Ofs(Inc(recackpos[m]), recwndpos[m])

\* The receive window holds the right payloads: the slot k places ahead of
\* recwndpos is either free or holds the payload the user reads k Reads later,
\* although numbers wrap round and old packets are still arriving.
WindowHoldsStream ==
  \A n \in Endpoint : \A k \in 0 .. WND_S - 1 :
    LET s == ((recwndpos[n] + k) % SEQ_S) % WND_S
    IN  recvalids[n][s] => recbuf[n][s] = rcvd[n] + 1 + k

\* Exactly the packets up to recackpos are acknowledged: every slot from
\* recwndpos up to it is valid and the next one is not (arq.h:346-348).
AckPosition ==
  \A n \in Endpoint :
    LET acked == Ofs(Inc(recackpos[n]), recwndpos[n])
    IN  /\ acked <= WND_S
        /\ \A k \in 0 .. acked - 1 :
             recvalids[n][((recwndpos[n] + k) % SEQ_S) % WND_S]
        /\ acked < WND_S =>
             ~recvalids[n][Inc(recackpos[n]) % WND_S]

\* The acknowledgement n would learn once its incoming channel is drained.
LastAckSentTo(n) ==
  IF chan[n] = <<>> THEN (wndpos[n] + SEQ_S - 1) % SEQ_S
                    ELSE chan[n][Len(chan[n])].ack

\* An acknowledgement is never forgotten on a faithful channel: as
\* long as the peer has not been told recackpos, the timer that makes
\* GetSendData tell it is armed (arq.h:277-287, 351).
AckNotForgotten ==
  \A n \in (Side \ (Lossy \cup Repeating)) \X Tags :
    LastAckSentTo(n) # recackpos[Peer(n)] => T!Armed(RecvTimer[Peer(n)])
-----------------------------------------------------------------------------
Stream == INSTANCE ReliableStream WITH Capacity <- 2 * WND_S

\* The protocol implements a loss-free bounded FIFO in each direction: one
\* window of unacknowledged payloads and one of acknowledged, unread ones.
ImplementsStream == Stream!Spec

\* Every payload handed over is read by the other side in the end.
AllDelivered ==
  \A n \in Endpoint : \A k \in 1 .. MaxSend[n] :
    sent[n] >= k ~> rcvd[Peer(n)] >= k

\* SendFlush ("wait for incoming ack", linklayer.h:193-196) comes to an end:
\* a sender with unacknowledged packets has none left eventually.
SendFlushEnds == \A n \in Endpoint : ~SendDone(n) ~> SendDone(n)
=============================================================================
