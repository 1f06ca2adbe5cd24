-------------------------------- MODULE ARQ --------------------------------
(***************************************************************************)
(* The sliding-window protocol of units/arq/source/arq.h: for every tag    *)
(* two objects of class ARQ, one in the host process and one standing for  *)
(* the HICANN chip (arq.h is the "software-implementation of the VHDL-ARQ  *)
(* protocol" the chip runs), joined by two FIFO channels.                  *)
(*                                                                         *)
(* Every member of the class is a variable, a function of the endpoint.    *)
(* A member function is one action.  Payloads are numbered 1, 2, ... in    *)
(* the order Send accepted them, which is all a payload is here; 0 is the  *)
(* payload a buffer slot holds before it is used.                          *)
(***************************************************************************)
EXTENDS Integers, Sequences

CONSTANTS Tags,          \* link layer addresses, one ARQ connection each
          SEQ_S,         \* number of sequence numbers
          WND_S,         \* number of buffer slots, the window size
          SEND_TIMEOUT,  \* ticks until a packet is sent again
          RECV_TIMEOUT,  \* ticks until a stand-alone acknowledgement is sent
          Lossy,         \* sides whose incoming channel loses packets
          Repeating,     \* sides whose incoming channel repeats packets
          TimeoutVals,   \* argument pairs SetTimeouts may be called with
          MaxSend,       \* bound: payloads each endpoint sends
          MaxInFlight,   \* bound: packets in one channel
          MaxResets      \* bound: resets of the link

Side     == {"host", "hicann"}
Endpoint == Side \X Tags
Peer(n)  == <<IF n[1] = "host" THEN "hicann" ELSE "host", n[2]>>

\* The comment on SEQ_S, arq.h:81.
ASSUME WindowAssumption ==
  /\ WND_S \in Nat \ {0}
  /\ SEQ_S \in Nat
  /\ SEQ_S >= 2 * WND_S

ASSUME ParameterAssumption ==
  /\ SEND_TIMEOUT \in Nat
  /\ RECV_TIMEOUT \in Nat
  /\ Lossy \subseteq Side
  /\ Repeating \subseteq Side
  /\ TimeoutVals \subseteq Nat \X Nat
  /\ MaxSend \in [Endpoint -> Nat]
  /\ MaxInFlight \in Nat
  /\ MaxResets \in Nat

VARIABLES
  seqpos, wndpos, sendpos,      \* next number to assign, oldest unacknowledged, next to transmit
  sendbuf, SendTimer,
  recwndpos, recackpos,         \* next number to read, last number in order
  recbuf, recvalids, RecvTimer,
  chan,                         \* chan[n]: the packets in flight towards n
  sent, rcvd, got,              \* history: Sends accepted, Reads done, payload of the last Read
  resets

sendVars == <<seqpos, wndpos, sendpos, sendbuf, SendTimer>>
recvVars == <<recwndpos, recackpos, recbuf, recvalids, RecvTimer>>
history  == <<sent, rcvd, got, resets>>
vars     == <<sendVars, recvVars, chan, history>>

T == INSTANCE Timer

SeqNo == 0 .. SEQ_S - 1
Slot  == 0 .. WND_S - 1

\* The next sequence number, and how far a lies ahead of b on the ring: the
\* two expressions all index arithmetic of the class is made of.
Inc(a)    == (a + 1) % SEQ_S
Ofs(a, b) == (SEQ_S + a - b) % SEQ_S

Packet == [seqvalid : BOOLEAN, seq : SeqNo, ack : SeqNo, data : Nat]
-----------------------------------------------------------------------------
(* What Reset (arq.h:167) leaves, whatever the buffers held before.        *)
\* Mutant of ResetSlots: valid slots of the old stream survive.
ResetSlotsNot == UNCHANGED recvalids
ResetSlots == recvalids' = [n \in Endpoint |-> [s \in Slot |-> FALSE]]

ResetPositions ==
  /\ seqpos'    = [n \in Endpoint |-> 0]
  /\ wndpos'    = [n \in Endpoint |-> 0]
  /\ sendpos'   = [n \in Endpoint |-> 0]
  /\ recwndpos' = [n \in Endpoint |-> 0]
  /\ recackpos' = [n \in Endpoint |-> SEQ_S - 1]
  /\ ResetSlots

Init ==
  /\ seqpos    = [n \in Endpoint |-> 0]
  /\ wndpos    = [n \in Endpoint |-> 0]
  /\ sendpos   = [n \in Endpoint |-> 0]
  /\ sendbuf   = [n \in Endpoint |-> [s \in Slot |-> 0]]
  /\ SendTimer \in [Endpoint -> T!NewTimers(SEND_TIMEOUT)]
  /\ recwndpos = [n \in Endpoint |-> 0]
  /\ recackpos = [n \in Endpoint |-> SEQ_S - 1]
  /\ recbuf    = [n \in Endpoint |-> [s \in Slot |-> 0]]
  /\ recvalids = [n \in Endpoint |-> [s \in Slot |-> FALSE]]
  /\ RecvTimer \in [Endpoint -> T!NewTimers(RECV_TIMEOUT)]
  /\ chan = [n \in Endpoint |-> <<>>]
  /\ sent = [n \in Endpoint |-> 0]
  /\ rcvd = [n \in Endpoint |-> 0]
  /\ got  = [n \in Endpoint |-> 0]
  /\ resets = 0
-----------------------------------------------------------------------------
send_valids(n) == Ofs(seqpos[n], wndpos[n])
\* Mutant of WindowFull: one payload more than the window holds.
WindowOverfull(n) == send_valids(n) > WND_S
WindowFull(n)  == send_valids(n) = WND_S
CanSend(n)     == send_valids(n) < WND_S
SendDone(n)    == send_valids(n) = 0
HasUnsent(n)   == Ofs(seqpos[n], sendpos[n]) > 0
HasReadData(n) == recvalids[n][recwndpos[n] % WND_S]

HasSendData(n) == SendTimer[n].timeout \/ RecvTimer[n].timeout \/ HasUnsent(n)

\* Send accepts a payload unless the window is full; then it returns 0 and
\* changes nothing.
Send(n) ==
  /\ sent[n] < MaxSend[n]
  /\ ~WindowFull(n)
  /\ sendbuf' = [sendbuf EXCEPT ![n][seqpos[n] % WND_S] = sent[n] + 1]
  /\ seqpos'  = [seqpos EXCEPT ![n] = Inc(@)]
  /\ sent'    = [sent EXCEPT ![n] = @ + 1]
  /\ UNCHANGED <<wndpos, sendpos, SendTimer, recvVars, chan, rcvd, got, resets>>

\* The lower layer takes the packet GetSendData filled in.  Every packet
\* carries an acknowledgement, so the receive timer is stopped.
Transmit(n, p) ==
  /\ chan' = [chan EXCEPT ![Peer(n)] = Append(@, p)]
  /\ RecvTimer' = [RecvTimer EXCEPT ![n] = T!Stop(@)]

\* Mutant of DataPacket: acknowledges the number expected next.
DataPacketAcksNext(n, pos) ==
  [seqvalid |-> TRUE, seq |-> pos, ack |-> Inc(recackpos[n]),
   data |-> sendbuf[n][pos % WND_S]]

DataPacket(n, pos) ==
  [seqvalid |-> TRUE, seq |-> pos, ack |-> recackpos[n],
   data |-> sendbuf[n][pos % WND_S]]

AckPacket(n) ==
  [seqvalid |-> FALSE, seq |-> 0, ack |-> recackpos[n], data |-> sendbuf[n][0]]

\* Mutants of ResendPos and ResendTimer: the newest packet is repeated in place
\* of the oldest; the timer is not started again; the timeout is left pending.
NewestPos(n) == (sendpos[n] + SEQ_S - 1) % SEQ_S
ResendPos(n) == wndpos[n]
ResendTimerOff(t) == T!Ack(t)
ResendTimerUnacked(t) == T!Continue(t)
ResendTimer(t) == T!Continue(T!Ack(t))

\* The three cases of GetSendData that its if-else chain tries in this order.
\* The oldest packet is repeated, unless nothing is left to acknowledge:
\* GetSendData then returns 0 and only the timeout is gone.
Resend(n) ==
  /\ SendTimer[n].timeout
  /\ IF seqpos[n] = wndpos[n]
       THEN /\ SendTimer' = [SendTimer EXCEPT ![n] = T!Ack(@)]
            /\ UNCHANGED <<chan, RecvTimer>>
       ELSE /\ SendTimer' = [SendTimer EXCEPT ![n] = ResendTimer(@)]
            /\ Transmit(n, DataPacket(n, ResendPos(n)))
  /\ UNCHANGED sendpos

SendNew(n) ==
  /\ ~SendTimer[n].timeout
  /\ HasUnsent(n)
  /\ Transmit(n, DataPacket(n, sendpos[n]))
  /\ sendpos'   = [sendpos EXCEPT ![n] = Inc(@)]
  /\ SendTimer' = [SendTimer EXCEPT ![n] = T!Continue(@)]

SendAck(n) ==
  /\ ~SendTimer[n].timeout
  /\ ~HasUnsent(n)
  /\ RecvTimer[n].timeout
  /\ Transmit(n, AckPacket(n))
  /\ UNCHANGED <<sendpos, SendTimer>>

\* Called by the lower layer while HasSendData and while it CanSend.
GetSendData(n) ==
  /\ Len(chan[Peer(n)]) < MaxInFlight
  /\ Resend(n) \/ SendNew(n) \/ SendAck(n)
  /\ UNCHANGED <<seqpos, wndpos, sendbuf,
                 recwndpos, recackpos, recbuf, recvalids, history>>
-----------------------------------------------------------------------------
\* Mutant of Accepts: a packet outside the window is taken.
AcceptsAnywhere(n, p) ==
  /\ p.seqvalid
  /\ ~recvalids[n][p.seq % WND_S]

\* Receive accepts a packet inside the window whose slot is free.
Accepts(n, p) ==
  /\ p.seqvalid
  /\ Ofs(p.seq, recwndpos[n]) < WND_S
  /\ ~recvalids[n][p.seq % WND_S]

\* The loop at arq.h:346 moves the acknowledge position over the slots that
\* are valid and inside the window; it ends after k steps.
AckStep(valids, ackpos, wpos, i) ==
  /\ valids[((ackpos + i) % SEQ_S) % WND_S]
  /\ Ofs(ackpos + i, wpos) < WND_S

\* Mutant of AckLoop: an `if` in place of the loop.
AckOnce(valids, ackpos, wpos, k) ==
  k = IF AckStep(valids, ackpos, wpos, 1) THEN 1 ELSE 0

AckLoop(valids, ackpos, wpos, k) ==
  /\ \A i \in 1 .. k : AckStep(valids, ackpos, wpos, i)
  /\ ~AckStep(valids, ackpos, wpos, k + 1)

\* Mutant of AckDue: the receive timer is not started.
AckNotDue(t) == t
AckDue(t) == T!Continue(t)

ReceiveData(n, p) ==
  IF Accepts(n, p)
  THEN LET valids == [recvalids[n] EXCEPT ![p.seq % WND_S] = TRUE]
       IN  /\ recbuf'    = [recbuf EXCEPT ![n][p.seq % WND_S] = p.data]
           /\ recvalids' = [recvalids EXCEPT ![n] = valids]
           /\ \E k \in 0 .. WND_S :
                /\ AckLoop(valids, recackpos[n], recwndpos[n], k)
                /\ recackpos' = [recackpos EXCEPT ![n] = (@ + k) % SEQ_S]
           /\ RecvTimer' = [RecvTimer EXCEPT ![n] = AckDue(@)]
  ELSE UNCHANGED <<recbuf, recvalids, recackpos, RecvTimer>>

\* Mutant of TimerAfterAck: every acknowledgement stops the timer.
TimerStopped(t, last) == T!Stop(t)
TimerAfterAck(t, last) == IF last THEN T!Stop(t) ELSE T!Start(t)

\* An acknowledgement of a transmitted packet moves the window behind it.
ReceiveAck(n, p) ==
  LET ackofs == Ofs(p.ack, wndpos[n])
      wpos   == (wndpos[n] + ackofs + 1) % SEQ_S
  IN  IF ackofs < Ofs(sendpos[n], wndpos[n])
      THEN /\ wndpos' = [wndpos EXCEPT ![n] = wpos]
           /\ SendTimer' = [SendTimer EXCEPT
                ![n] = TimerAfterAck(@, wpos = sendpos[n])]
      ELSE UNCHANGED <<wndpos, SendTimer>>

\* What receiving p does to the object; the caller says where p comes from.
ReceivePacket(n, p) ==
  /\ ReceiveData(n, p)
  /\ ReceiveAck(n, p)
  /\ UNCHANGED <<seqpos, sendpos, sendbuf, recwndpos, history>>

Receive(n) ==
  /\ chan[n] # <<>>
  /\ chan' = [chan EXCEPT ![n] = Tail(@)]
  /\ ReceivePacket(n, Head(chan[n]))

\* Read blocks while there is no data, then frees the slot.
Read(n) ==
  /\ HasReadData(n)
  /\ got'  = [got EXCEPT ![n] = recbuf[n][recwndpos[n] % WND_S]]
  /\ rcvd' = [rcvd EXCEPT ![n] = @ + 1]
  /\ recvalids' = [recvalids EXCEPT ![n][recwndpos[n] % WND_S] = FALSE]
  /\ recwndpos' = [recwndpos EXCEPT ![n] = Inc(@)]
  /\ UNCHANGED <<sendVars, recackpos, recbuf, RecvTimer, chan, sent, resets>>
-----------------------------------------------------------------------------
\* The external time reference ticks both timers of an object.
Tick(n) ==
  /\ SendTimer' = [SendTimer EXCEPT ![n] = T!Tick(@)]
  /\ RecvTimer' = [RecvTimer EXCEPT ![n] = T!Tick(@)]
  /\ UNCHANGED <<seqpos, wndpos, sendpos, sendbuf,
                 recwndpos, recackpos, recbuf, recvalids, chan, history>>

SetTimeouts(n, txtimeout, rxtimeout) ==
  /\ SendTimer' = [SendTimer EXCEPT ![n] = T!SetTimeoutVal(@, txtimeout)]
  /\ RecvTimer' = [RecvTimer EXCEPT ![n] = T!SetTimeoutVal(@, rxtimeout)]
  /\ UNCHANGED <<seqpos, wndpos, sendpos, sendbuf,
                 recwndpos, recackpos, recbuf, recvalids, chan, history>>

\* Stage2Comm::reset_hicann_arq holds both ends in reset together; nothing in
\* flight survives it.  Buffers and timer values are left as they are.
Reset ==
  /\ resets < MaxResets
  /\ resets' = resets + 1
  /\ ResetPositions
  /\ SendTimer' = [n \in Endpoint |-> T!Stop(SendTimer[n])]
  /\ RecvTimer' = [n \in Endpoint |-> T!Stop(RecvTimer[n])]
  /\ chan' = [n \in Endpoint |-> <<>>]
  /\ sent' = [n \in Endpoint |-> 0]
  /\ rcvd' = [n \in Endpoint |-> 0]
  /\ got'  = [n \in Endpoint |-> 0]
  /\ UNCHANGED <<sendbuf, recbuf>>

\* The channels: a packet that is lost never arrives, one that is read twice
\* from the chip's result register arrives twice.
Lose(n) ==
  /\ n[1] \in Lossy /\ chan[n] # <<>>
  /\ chan' = [chan EXCEPT ![n] = Tail(@)]
  /\ UNCHANGED <<sendVars, recvVars, history>>

Repeat(n) ==
  /\ n[1] \in Repeating /\ chan[n] # <<>>
  /\ Len(chan[n]) < MaxInFlight
  /\ chan' = [chan EXCEPT ![n] = <<Head(@)>> \o @]
  /\ UNCHANGED <<sendVars, recvVars, history>>

Next ==
  \/ \E n \in Endpoint :
       \/ Send(n) \/ GetSendData(n) \/ Receive(n) \/ Read(n)
       \/ Tick(n)
       \/ \E t \in TimeoutVals : SetTimeouts(n, t[1], t[2])
       \/ Lose(n) \/ Repeat(n)
  \/ Reset

Spec == Init /\ [][Next]_vars

\* The time reference keeps ticking, the lower layer keeps asking for packets
\* and keeps delivering those that get through, the user keeps reading.
Fairness ==
  \A n \in Endpoint :
    /\ WF_vars(Tick(n)) /\ WF_vars(GetSendData(n)) /\ WF_vars(Read(n))
    /\ SF_vars(Receive(n))

FairSpec == Spec /\ Fairness
=============================================================================
