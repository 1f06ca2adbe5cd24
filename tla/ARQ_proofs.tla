----------------------------- MODULE ARQ_proofs -----------------------------
(***************************************************************************)
(* Proofs about the sliding-window protocol, for every window size, every  *)
(* number of sequence numbers that is at least twice as large, every       *)
(* timeout and every loss.                                                 *)
(***************************************************************************)
EXTENDS ARQProps, TLAPS

\* Remainders of what the class divides: sums of two positions and a window
\* never reach three times SEQ_S.
LEMMA ModRange ==
  ASSUME NEW x \in Int, NEW N \in Nat \ {0}
  PROVE  x % N \in 0 .. N - 1
  OBVIOUS

LEMMA ModSmall ==
  ASSUME NEW x \in Nat, NEW N \in Nat \ {0}, x < N
  PROVE  x % N = x
  OBVIOUS

LEMMA ModOnce ==
  ASSUME NEW x \in Nat, NEW N \in Nat \ {0}, N <= x, x < 2 * N
  PROVE  x % N = x - N
  OBVIOUS

LEMMA SizeFacts ==
  /\ WND_S \in Nat \ {0}
  /\ SEQ_S \in Nat \ {0}
  /\ SEQ_S >= 2 * WND_S
  BY WindowAssumption

LEMMA SeqModulo ==
  ASSUME NEW x \in Nat, x < 2 * SEQ_S
  PROVE  x % SEQ_S = IF x < SEQ_S THEN x ELSE x - SEQ_S
<1>1. SEQ_S \in Nat \ {0}
  BY SizeFacts
<1>2. CASE x < SEQ_S
  <2>1. x % SEQ_S = x
    BY <1>1, <1>2, ModSmall
  <2> QED BY <1>2, <2>1
<1>3. CASE ~(x < SEQ_S)
  <2>1. SEQ_S <= x
    BY <1>1, <1>3
  <2>2. x % SEQ_S = x - SEQ_S
    BY <1>1, <2>1, ModOnce
  <2> QED BY <1>3, <2>2
<1> QED BY <1>2, <1>3

LEMMA IncValue ==
  ASSUME NEW a \in SeqNo
  PROVE  Inc(a) = IF a = SEQ_S - 1 THEN 0 ELSE a + 1
<1>1. a + 1 \in Nat /\ a + 1 <= SEQ_S
  BY SizeFacts DEF SeqNo
<1>2. CASE a = SEQ_S - 1
  <2>1. (a + 1) % SEQ_S = a + 1 - SEQ_S
    BY <1>1, <1>2, SizeFacts, ModOnce
  <2> QED BY <1>2, <2>1, SizeFacts DEF Inc
<1>3. CASE a # SEQ_S - 1
  <2>1. a + 1 < SEQ_S
    BY <1>1, <1>3, SizeFacts DEF SeqNo
  <2>2. (a + 1) % SEQ_S = a + 1
    BY <1>1, <2>1, SizeFacts, ModSmall
  <2> QED BY <1>3, <2>2 DEF Inc
<1> QED BY <1>2, <1>3

\* The distance ahead on the ring, without the remainder.
LEMMA OfsValue ==
  ASSUME NEW a \in SeqNo, NEW b \in SeqNo
  PROVE  Ofs(a, b) = IF a >= b THEN a - b ELSE SEQ_S + a - b
<1>1. SEQ_S + a - b \in Nat /\ SEQ_S + a - b < 2 * SEQ_S
  BY SizeFacts DEF SeqNo
<1>2. CASE a >= b
  BY <1>1, <1>2, SizeFacts, ModOnce DEF Ofs, SeqNo
<1>3. CASE ~(a >= b)
  BY <1>1, <1>3, SizeFacts, ModSmall DEF Ofs, SeqNo
<1> QED BY <1>2, <1>3

\* The distance grows by one with the front position, as long as it does not
\* go all the way round.
LEMMA OfsInc ==
  ASSUME NEW a \in SeqNo, NEW b \in SeqNo, Ofs(a, b) < SEQ_S - 1
  PROVE  Inc(a) \in SeqNo /\ Ofs(Inc(a), b) = Ofs(a, b) + 1
<1>1. Inc(a) \in SeqNo
  BY IncValue, SizeFacts DEF SeqNo
<1>2. /\ Ofs(a, b) = IF a >= b THEN a - b ELSE SEQ_S + a - b
      /\ Ofs(Inc(a), b) = IF Inc(a) >= b THEN Inc(a) - b ELSE SEQ_S + Inc(a) - b
      /\ Inc(a) = IF a = SEQ_S - 1 THEN 0 ELSE a + 1
  BY <1>1, IncValue, OfsValue
<1> HIDE DEF Inc, Ofs
<1>3. CASE a = SEQ_S - 1
  BY <1>1, <1>2, <1>3, SizeFacts DEF SeqNo
<1>4. CASE a # SEQ_S - 1
  BY <1>1, <1>2, <1>4, SizeFacts DEF SeqNo
<1> QED BY <1>3, <1>4

\* Distances from a common position add up.
LEMMA OfsDifference ==
  ASSUME NEW a \in SeqNo, NEW b \in SeqNo, NEW c \in SeqNo, Ofs(b, c) <= Ofs(a, c)
  PROVE  Ofs(a, b) = Ofs(a, c) - Ofs(b, c)
  BY OfsValue, SizeFacts DEF SeqNo

\* Moving the rear position up to k places towards the front.
LEMMA OfsShift ==
  ASSUME NEW a \in SeqNo, NEW b \in SeqNo, NEW k \in Nat, k <= Ofs(a, b)
  PROVE  /\ (b + k) % SEQ_S \in SeqNo
         /\ Ofs(a, (b + k) % SEQ_S) = Ofs(a, b) - k
<1>1. b + k \in Nat /\ b + k < 2 * SEQ_S
  BY OfsValue, SizeFacts DEF SeqNo
<1>2. (b + k) % SEQ_S \in SeqNo
  BY <1>1, ModRange, SizeFacts DEF SeqNo
<1>3. (b + k) % SEQ_S = IF b + k < SEQ_S THEN b + k ELSE b + k - SEQ_S
  <2>1. b \in Nat /\ k \in Nat /\ SEQ_S \in Nat
    BY SizeFacts DEF SeqNo
  <2> QED BY <1>1, <2>1, SeqModulo
<1>4. Ofs(a, (b + k) % SEQ_S) = Ofs(a, b) - k
  <2> DEFINE c == (b + k) % SEQ_S
  <2>1. Ofs(a, b) = IF a >= b THEN a - b ELSE SEQ_S + a - b
    BY OfsValue
  <2>2. Ofs(a, c) = IF a >= c THEN a - c ELSE SEQ_S + a - c
    BY <1>2, OfsValue
  <2>3. a \in 0 .. SEQ_S - 1 /\ b \in 0 .. SEQ_S - 1 /\ SEQ_S \in Nat
    BY SizeFacts DEF SeqNo
  <2>4. c = IF b + k < SEQ_S THEN b + k ELSE b + k - SEQ_S
    BY <1>3
  <2> SUFFICES Ofs(a, c) = Ofs(a, b) - k
    OBVIOUS
  <2> HIDE DEF c
  <2>5. CASE a >= b
    BY <2>1, <2>2, <2>3, <2>4, <2>5
  <2>6. CASE ~(a >= b)
    <3>1. Ofs(a, b) = SEQ_S + a - b /\ b + k <= SEQ_S + a
      BY <2>1, <2>3, <2>6
    <3>2. CASE b + k < SEQ_S
      <4>1. c = b + k /\ ~(a >= c)
        BY <2>3, <2>4, <2>6, <3>2
      <4> QED BY <2>2, <2>3, <3>1, <4>1
    <3>3. CASE ~(b + k < SEQ_S)
      <4>1. c = b + k - SEQ_S /\ a >= c
        BY <2>3, <2>4, <3>1, <3>3
      <4> QED BY <2>2, <2>3, <3>1, <4>1
    <3> QED BY <3>2, <3>3
  <2> QED BY <2>5, <2>6
<1> QED BY <1>2, <1>4

LEMMA OfsZero ==
  ASSUME NEW a \in SeqNo, NEW b \in SeqNo
  PROVE  Ofs(a, b) \in Nat /\ Ofs(a, b) < SEQ_S /\ (Ofs(a, b) = 0 <=> a = b)
  BY OfsValue, SizeFacts DEF SeqNo

LEMMA PositionTypes ==
  /\ \A a \in SeqNo : Inc(a) \in SeqNo
  /\ \A a, b \in SeqNo : Ofs(a, b) \in SeqNo
  /\ \A a \in SeqNo : a % WND_S \in Slot
  /\ 0 \in Slot
  /\ 0 \in SeqNo
  /\ SEQ_S - 1 \in SeqNo
  /\ \A a \in SeqNo, k \in Nat : (a + k) % SEQ_S \in SeqNo
  BY SizeFacts, ModRange DEF Inc, Ofs, SeqNo, Slot

LEMMA PeerType == \A n \in Endpoint : Peer(n) \in Endpoint
<1> TAKE n \in Endpoint
<1>1. n[2] \in Tags
  BY DEF Endpoint
<1>2. (IF n[1] = "host" THEN "hicann" ELSE "host") \in Side
  BY DEF Side
<1> QED BY <1>1, <1>2 DEF Endpoint, Peer
-----------------------------------------------------------------------------
(* Timers *)

\* Every method leaves a timer.
LEMMA TimerTypes ==
  ASSUME NEW t \in T!TimerType
  PROVE  /\ T!Start(t) \in T!TimerType
         /\ T!Continue(t) \in T!TimerType
         /\ T!Stop(t) \in T!TimerType
         /\ T!Ack(t) \in T!TimerType
         /\ T!Tick(t) \in T!TimerType
         /\ \A m \in Nat : T!SetTimeoutVal(t, m) \in T!TimerType
<1> USE DEF T!TimerType
<1>1. T!Start(t) \in T!TimerType
  BY DEF T!Start
<1>2. T!Continue(t) \in T!TimerType
  BY <1>1 DEF T!Continue
<1>3. T!Stop(t) \in T!TimerType
  BY DEF T!Stop
<1>4. T!Ack(t) \in T!TimerType
  BY DEF T!Ack
<1>5. T!Tick(t) \in T!TimerType
  <2>1. CASE ~t.enabled
    BY <2>1 DEF T!Tick
  <2>2. CASE t.enabled /\ t.value = 0
    BY <2>2 DEF T!Tick, T!Stop, T!SetTimeout
  <2>3. CASE t.enabled /\ t.value # 0
    <3>1. t.value - 1 \in Nat
      BY <2>3
    <3> QED BY <2>3, <3>1 DEF T!Tick
  <2> QED BY <2>1, <2>2, <2>3
<1>6. \A m \in Nat : T!SetTimeoutVal(t, m) \in T!TimerType
  BY DEF T!SetTimeoutVal
<1> QED BY <1>1, <1>2, <1>3, <1>4, <1>5, <1>6

\* Only Stop and Ack disarm; Start and Continue arm.
LEMMA TimerArmed ==
  ASSUME NEW t \in T!TimerType
  PROVE  /\ T!Armed(T!Start(t))
         /\ T!Armed(T!Continue(t))
         /\ ~T!Armed(T!Stop(t))
         /\ T!Armed(T!Tick(t)) <=> T!Armed(t)
         /\ \A m \in Nat : T!Armed(T!SetTimeoutVal(t, m)) <=> T!Armed(t)
  BY DEF T!Armed, T!TimerType, T!Start, T!Continue, T!Stop, T!Tick,
         T!SetTimeout, T!SetTimeoutVal
-----------------------------------------------------------------------------
(* Types *)

LEMMA PacketTypes ==
  ASSUME TypeOK, NEW n \in Endpoint
  PROVE  /\ \A pos \in SeqNo : DataPacket(n, pos) \in Packet
         /\ AckPacket(n) \in Packet
<1>1. ASSUME NEW pos \in SeqNo
      PROVE  DataPacket(n, pos) \in Packet
  <2>1. pos % WND_S \in Slot
    BY PositionTypes
  <2>2. sendbuf[n][pos % WND_S] \in Nat /\ recackpos[n] \in SeqNo
    BY <2>1 DEF TypeOK
  <2> QED BY <2>2 DEF DataPacket, Packet
<1>2. AckPacket(n) \in Packet
  <2>1. sendbuf[n][0] \in Nat /\ recackpos[n] \in SeqNo
    BY PositionTypes DEF TypeOK
  <2> QED BY <2>1, PositionTypes DEF AckPacket, Packet
<1> QED BY <1>1, <1>2

LEMMA TypeInit == Init => TypeOK
<1> SUFFICES ASSUME Init PROVE TypeOK
  OBVIOUS
<1>1. ASSUME NEW m \in Nat, NEW t \in T!NewTimers(m)
      PROVE  t \in T!TimerType
  <2>1. /\ t = [enabled |-> t.enabled, value |-> t.value,
                timeout |-> t.timeout, max |-> t.max]
        /\ t.enabled = FALSE /\ t.timeout = FALSE
        /\ t.value \in 0 .. m /\ t.max = m
    BY DEF T!NewTimers
  <2>2. t.enabled \in BOOLEAN /\ t.timeout \in BOOLEAN /\ t.value \in Nat /\ t.max \in Nat
    <3>1. t.enabled \in BOOLEAN /\ t.timeout \in BOOLEAN
      BY <2>1, Zenon
    <3>2. t.value \in Nat /\ t.max \in Nat
      BY <2>1
    <3> QED BY <3>1, <3>2
  <2> QED BY <2>1, <2>2 DEF T!TimerType
<1>2. /\ SendTimer \in [Endpoint -> T!TimerType]
      /\ RecvTimer \in [Endpoint -> T!TimerType]
  <2>1. /\ SendTimer \in [Endpoint -> T!NewTimers(SEND_TIMEOUT)]
        /\ RecvTimer \in [Endpoint -> T!NewTimers(RECV_TIMEOUT)]
    BY DEF Init
  <2>2. /\ \A t \in T!NewTimers(SEND_TIMEOUT) : t \in T!TimerType
        /\ \A t \in T!NewTimers(RECV_TIMEOUT) : t \in T!TimerType
    BY <1>1, ParameterAssumption
  <2> QED BY <2>1, <2>2
<1> QED BY <1>2, PositionTypes DEF Init, TypeOK

LEMMA TypeSend ==
  ASSUME TypeOK, NEW n \in Endpoint, Send(n)
  PROVE  TypeOK'
<1>1. seqpos[n] % WND_S \in Slot /\ Inc(seqpos[n]) \in SeqNo /\ sent[n] + 1 \in Nat
  <2>1. seqpos[n] \in SeqNo /\ sent[n] \in Nat
    BY DEF TypeOK
  <2>2. sent[n] + 1 \in Nat
    BY <2>1
  <2> QED BY <2>1, <2>2, PositionTypes
<1>2. sendbuf' \in [Endpoint -> [Slot -> Nat]]
  BY <1>1 DEF TypeOK, Send
<1> QED BY <1>1, <1>2 DEF TypeOK, Send, recvVars

LEMMA TypeTransmit ==
  ASSUME TypeOK, NEW n \in Endpoint, NEW p \in Packet, Transmit(n, p)
  PROVE  /\ chan' \in [Endpoint -> Seq(Packet)]
         /\ RecvTimer' \in [Endpoint -> T!TimerType]
<1>1. Append(chan[Peer(n)], p) \in Seq(Packet)
  BY PeerType DEF TypeOK
<1>2. T!Stop(RecvTimer[n]) \in T!TimerType
  BY TimerTypes DEF TypeOK
<1> QED BY <1>1, <1>2 DEF TypeOK, Transmit

LEMMA TypeGetSendData ==
  ASSUME TypeOK, NEW n \in Endpoint, GetSendData(n)
  PROVE  TypeOK'
<1>1. SendTimer[n] \in T!TimerType /\ wndpos[n] \in SeqNo /\ sendpos[n] \in SeqNo
  BY DEF TypeOK
<1>2. /\ chan' \in [Endpoint -> Seq(Packet)]
      /\ RecvTimer' \in [Endpoint -> T!TimerType]
      /\ SendTimer' \in [Endpoint -> T!TimerType]
      /\ sendpos' \in [Endpoint -> SeqNo]
  <2>1. CASE Resend(n)
    <3>1. /\ T!Ack(SendTimer[n]) \in T!TimerType
          /\ ResendTimer(SendTimer[n]) \in T!TimerType
      BY <1>1, TimerTypes DEF ResendTimer
    <3>2. CASE seqpos[n] = wndpos[n]
      BY <2>1, <3>1, <3>2 DEF Resend, TypeOK
    <3>3. CASE seqpos[n] # wndpos[n]
      <4>1. Transmit(n, DataPacket(n, ResendPos(n))) /\ DataPacket(n, ResendPos(n)) \in Packet
        BY <1>1, <2>1, <3>3, PacketTypes DEF Resend, ResendPos
      <4> QED BY <2>1, <3>1, <3>3, <4>1, TypeTransmit DEF Resend, TypeOK
    <3> QED BY <3>2, <3>3
  <2>2. CASE SendNew(n)
    <3>1. Transmit(n, DataPacket(n, sendpos[n])) /\ DataPacket(n, sendpos[n]) \in Packet
      BY <1>1, <2>2, PacketTypes DEF SendNew
    <3>2. T!Continue(SendTimer[n]) \in T!TimerType /\ Inc(sendpos[n]) \in SeqNo
      BY <1>1, TimerTypes, PositionTypes
    <3> QED BY <2>2, <3>1, <3>2, TypeTransmit DEF SendNew, TypeOK
  <2>3. CASE SendAck(n)
    <3>1. Transmit(n, AckPacket(n)) /\ AckPacket(n) \in Packet
      BY <2>3, PacketTypes DEF SendAck
    <3> QED BY <2>3, <3>1, TypeTransmit DEF SendAck, TypeOK
  <2> QED BY <2>1, <2>2, <2>3 DEF GetSendData
<1> QED BY <1>2 DEF TypeOK, GetSendData, history

LEMMA TypeReceiveData ==
  ASSUME TypeOK, NEW n \in Endpoint, NEW p \in Packet, ReceiveData(n, p)
  PROVE  /\ recbuf' \in [Endpoint -> [Slot -> Nat]]
         /\ recvalids' \in [Endpoint -> [Slot -> BOOLEAN]]
         /\ recackpos' \in [Endpoint -> SeqNo]
         /\ RecvTimer' \in [Endpoint -> T!TimerType]
<1>1. CASE Accepts(n, p)
  <2> DEFINE valids == [recvalids[n] EXCEPT ![p.seq % WND_S] = TRUE]
  <2>1. p.seq \in SeqNo /\ p.data \in Nat
    BY DEF Packet
  <2>2. p.seq % WND_S \in Slot
    BY <2>1, PositionTypes
  <2>3. valids \in [Slot -> BOOLEAN]
    BY <2>2 DEF TypeOK
  <2>4. PICK k \in 0 .. WND_S : recackpos' = [recackpos EXCEPT ![n] = (@ + k) % SEQ_S]
    BY <1>1 DEF ReceiveData
  <2>5. (recackpos[n] + k) % SEQ_S \in SeqNo
    <3>1. recackpos[n] \in SeqNo /\ k \in Nat
      BY SizeFacts DEF TypeOK
    <3> QED BY <3>1, PositionTypes
  <2>6. AckDue(RecvTimer[n]) \in T!TimerType
    BY TimerTypes DEF TypeOK, AckDue
  <2>7. /\ recbuf'    = [recbuf EXCEPT ![n][p.seq % WND_S] = p.data]
        /\ recvalids' = [recvalids EXCEPT ![n] = valids]
        /\ RecvTimer' = [RecvTimer EXCEPT ![n] = AckDue(@)]
    BY <1>1 DEF ReceiveData
  <2> HIDE DEF valids
  <2>8. recbuf' \in [Endpoint -> [Slot -> Nat]]
    BY <2>1, <2>2, <2>7 DEF TypeOK
  <2>9. recvalids' \in [Endpoint -> [Slot -> BOOLEAN]]
    BY <2>3, <2>7 DEF TypeOK
  <2> QED BY <2>4, <2>5, <2>6, <2>7, <2>8, <2>9 DEF TypeOK
<1>2. CASE ~Accepts(n, p)
  BY <1>2 DEF ReceiveData, TypeOK
<1> QED BY <1>1, <1>2

LEMMA TypeReceiveAck ==
  ASSUME TypeOK, NEW n \in Endpoint, NEW p \in Packet, ReceiveAck(n, p)
  PROVE  /\ wndpos' \in [Endpoint -> SeqNo]
         /\ SendTimer' \in [Endpoint -> T!TimerType]
<1> DEFINE ackofs == Ofs(p.ack, wndpos[n])
           wpos   == (wndpos[n] + ackofs + 1) % SEQ_S
<1>1. wpos \in SeqNo
  <2>1. p.ack \in SeqNo /\ wndpos[n] \in SeqNo
    BY DEF TypeOK, Packet
  <2>2. ackofs \in SeqNo
    BY <2>1, PositionTypes
  <2>3. wndpos[n] + ackofs + 1 \in Int
    BY <2>1, <2>2 DEF SeqNo
  <2> QED BY <2>3, ModRange, SizeFacts DEF SeqNo
<1>2. TimerAfterAck(SendTimer[n], wpos = sendpos[n]) \in T!TimerType
  BY TimerTypes DEF TypeOK, TimerAfterAck
<1>3. CASE ackofs < Ofs(sendpos[n], wndpos[n])
  <2>1. /\ wndpos' = [wndpos EXCEPT ![n] = wpos]
        /\ SendTimer' = [SendTimer EXCEPT
             ![n] = TimerAfterAck(@, wpos = sendpos[n])]
    BY <1>3 DEF ReceiveAck
  <2> QED BY <1>1, <1>2, <2>1 DEF TypeOK
<1>4. CASE ~(ackofs < Ofs(sendpos[n], wndpos[n]))
  BY <1>4 DEF ReceiveAck, TypeOK
<1> QED BY <1>3, <1>4

LEMMA TypeReceive ==
  ASSUME TypeOK, NEW n \in Endpoint, Receive(n)
  PROVE  TypeOK'
<1>1. chan[n] \in Seq(Packet) /\ chan[n] # <<>>
  BY DEF TypeOK, Receive
<1>2. Head(chan[n]) \in Packet /\ Tail(chan[n]) \in Seq(Packet)
  BY <1>1
<1>3. /\ ReceiveData(n, Head(chan[n]))
      /\ ReceiveAck(n, Head(chan[n]))
      /\ UNCHANGED <<seqpos, sendpos, sendbuf, recwndpos, history>>
      /\ chan' = [chan EXCEPT ![n] = Tail(@)]
  BY DEF Receive, ReceivePacket
<1> QED BY <1>2, <1>3, TypeReceiveData, TypeReceiveAck DEF TypeOK, history

LEMMA TypeRead ==
  ASSUME TypeOK, NEW n \in Endpoint, Read(n)
  PROVE  TypeOK'
<1>1. recwndpos[n] \in SeqNo /\ rcvd[n] \in Nat
  BY DEF TypeOK
<1>2. recwndpos[n] % WND_S \in Slot /\ Inc(recwndpos[n]) \in SeqNo /\ rcvd[n] + 1 \in Nat
  <2>1. rcvd[n] + 1 \in Nat
    BY <1>1
  <2> QED BY <1>1, <2>1, PositionTypes
<1>3. recbuf[n][recwndpos[n] % WND_S] \in Nat
  BY <1>2 DEF TypeOK
<1>4. recvalids' \in [Endpoint -> [Slot -> BOOLEAN]]
  BY <1>2 DEF TypeOK, Read
<1> QED BY <1>2, <1>3, <1>4 DEF TypeOK, Read, sendVars

LEMMA TypeTick ==
  ASSUME TypeOK, NEW n \in Endpoint, Tick(n)
  PROVE  TypeOK'
<1>1. T!Tick(SendTimer[n]) \in T!TimerType /\ T!Tick(RecvTimer[n]) \in T!TimerType
  BY TimerTypes DEF TypeOK
<1> QED BY <1>1 DEF TypeOK, Tick, history

LEMMA TypeSetTimeouts ==
  ASSUME TypeOK, NEW n \in Endpoint, NEW t \in TimeoutVals, SetTimeouts(n, t[1], t[2])
  PROVE  TypeOK'
<1>1. t[1] \in Nat /\ t[2] \in Nat
  BY ParameterAssumption
<1>2. /\ T!SetTimeoutVal(SendTimer[n], t[1]) \in T!TimerType
      /\ T!SetTimeoutVal(RecvTimer[n], t[2]) \in T!TimerType
  BY <1>1, TimerTypes DEF TypeOK
<1> QED BY <1>2 DEF TypeOK, SetTimeouts, history

LEMMA TypeReset == TypeOK /\ Reset => TypeOK'
<1> SUFFICES ASSUME TypeOK, Reset PROVE TypeOK'
  OBVIOUS
<1>1. \A n \in Endpoint : /\ T!Stop(SendTimer[n]) \in T!TimerType
                           /\ T!Stop(RecvTimer[n]) \in T!TimerType
  BY TimerTypes DEF TypeOK
<1>2. resets + 1 \in Nat /\ <<>> \in Seq(Packet)
  BY DEF TypeOK
<1> QED BY <1>1, <1>2, PositionTypes DEF TypeOK, Reset, ResetPositions, ResetSlots

LEMMA TypeChannel ==
  ASSUME TypeOK, NEW n \in Endpoint, Lose(n) \/ Repeat(n)
  PROVE  TypeOK'
<1>1. chan[n] \in Seq(Packet) /\ chan[n] # <<>>
  BY DEF TypeOK, Lose, Repeat
<1>2. Tail(chan[n]) \in Seq(Packet) /\ <<Head(chan[n])>> \o chan[n] \in Seq(Packet)
  BY <1>1
<1>3. chan' \in [Endpoint -> Seq(Packet)]
  BY <1>2 DEF TypeOK, Lose, Repeat
<1> QED BY <1>3 DEF TypeOK, Lose, Repeat, sendVars, recvVars, history

LEMMA TypeNext == TypeOK /\ [Next]_vars => TypeOK'
<1> SUFFICES ASSUME TypeOK, [Next]_vars PROVE TypeOK'
  OBVIOUS
<1>1. CASE UNCHANGED vars
  BY <1>1 DEF TypeOK, vars, sendVars, recvVars, history
<1>2. CASE Next
  BY <1>2, TypeSend, TypeGetSendData, TypeReceive, TypeRead, TypeTick,
     TypeSetTimeouts, TypeReset, TypeChannel DEF Next
<1> QED BY <1>1, <1>2

\* Every reachable state is well-typed: positions stay sequence numbers and
\* buffers keep their WND_S slots whatever packets get lost or repeated.
THEOREM TypeCorrect == Spec => []TypeOK
  BY TypeInit, TypeNext, PTL DEF Spec
-----------------------------------------------------------------------------
(* The send window and its timer.  Both are invariant whatever arrives: they *)
(* need nothing of the packets but that they are packets.                    *)

SendSide(n) ==
  /\ Ofs(sendpos[n], wndpos[n]) <= Ofs(seqpos[n], wndpos[n])
  /\ Ofs(seqpos[n], wndpos[n]) <= WND_S
  /\ T!Armed(SendTimer[n]) <=> wndpos[n] # sendpos[n]

SendInv == TypeOK /\ \A n \in Endpoint : SendSide(n)

LEMMA SendSideTypes ==
  ASSUME TypeOK, NEW n \in Endpoint
  PROVE  /\ seqpos[n] \in SeqNo /\ wndpos[n] \in SeqNo /\ sendpos[n] \in SeqNo
         /\ SendTimer[n] \in T!TimerType
  BY DEF TypeOK

LEMMA SendSideInit == Init => \A n \in Endpoint : SendSide(n)
<1> SUFFICES ASSUME Init, NEW n \in Endpoint PROVE SendSide(n)
  OBVIOUS
<1>1. seqpos[n] = 0 /\ wndpos[n] = 0 /\ sendpos[n] = 0
  BY DEF Init
<1>2. Ofs(0, 0) = 0
  BY OfsZero, PositionTypes
<1>3. ~T!Armed(SendTimer[n])
  <2>1. SendTimer[n] \in T!NewTimers(SEND_TIMEOUT)
    BY DEF Init
  <2> QED BY <2>1 DEF T!NewTimers, T!Armed
<1> QED BY <1>1, <1>2, <1>3, SizeFacts DEF SendSide

\* A step that leaves the send side of m alone.
LEMMA SendSideFrame ==
  ASSUME NEW m \in Endpoint, SendSide(m),
         seqpos'[m] = seqpos[m], wndpos'[m] = wndpos[m],
         sendpos'[m] = sendpos[m], SendTimer'[m] = SendTimer[m]
  PROVE  SendSide(m)'
  BY DEF SendSide

LEMMA SendSideSend ==
  ASSUME SendInv, NEW n \in Endpoint, Send(n), NEW m \in Endpoint
  PROVE  SendSide(m)'
<1>1. TypeOK /\ SendSide(n) /\ SendSide(m)
  BY DEF SendInv
<1>2. CASE m # n
  BY <1>1, <1>2, SendSideFrame DEF Send, TypeOK
<1>3. CASE m = n
  <2>1. Ofs(seqpos[n], wndpos[n]) < WND_S
    BY <1>1, SendSideTypes, OfsZero, SizeFacts DEF SendSide, Send, WindowFull, send_valids
  <2>2. Ofs(Inc(seqpos[n]), wndpos[n]) = Ofs(seqpos[n], wndpos[n]) + 1
    BY <1>1, <2>1, SendSideTypes, OfsInc, OfsZero, SizeFacts
  <2>3. /\ seqpos'[n] = Inc(seqpos[n]) /\ wndpos'[n] = wndpos[n]
        /\ sendpos'[n] = sendpos[n] /\ SendTimer'[n] = SendTimer[n]
    BY <1>1 DEF Send, TypeOK
  <2>4. Ofs(seqpos[n], wndpos[n]) \in Nat /\ Ofs(sendpos[n], wndpos[n]) \in Nat
    BY <1>1, SendSideTypes, OfsZero
  <2> QED BY <1>1, <1>3, <2>1, <2>2, <2>3, <2>4, SizeFacts DEF SendSide
<1> QED BY <1>2, <1>3

LEMMA SendSideGetSendData ==
  ASSUME SendInv, NEW n \in Endpoint, GetSendData(n), NEW m \in Endpoint
  PROVE  SendSide(m)'
<1>1. TypeOK /\ SendSide(n) /\ SendSide(m)
  BY DEF SendInv
<1>2. CASE m # n
  <2>1. /\ seqpos'[m] = seqpos[m] /\ wndpos'[m] = wndpos[m]
        /\ sendpos'[m] = sendpos[m] /\ SendTimer'[m] = SendTimer[m]
    BY <1>1, <1>2 DEF GetSendData, Resend, SendNew, SendAck, TypeOK
  <2> QED BY <1>1, <2>1, SendSideFrame
<1>3. CASE m = n
  <2>1. seqpos'[n] = seqpos[n] /\ wndpos'[n] = wndpos[n]
    BY DEF GetSendData
  <2>2. /\ SendTimer[n] \in T!TimerType /\ T!Ack(SendTimer[n]) \in T!TimerType
        /\ Ofs(seqpos[n], wndpos[n]) \in Nat /\ Ofs(sendpos[n], wndpos[n]) \in Nat
    BY <1>1, SendSideTypes, TimerTypes, OfsZero
  <2>3. CASE Resend(n)
    \* An expired timer means something is unacknowledged.
    <3>1. wndpos[n] # sendpos[n]
      BY <1>1, <2>3 DEF Resend, SendSide, T!Armed
    <3>2. seqpos[n] # wndpos[n]
      <4>1. Ofs(sendpos[n], wndpos[n]) > 0
        BY <1>1, <2>2, <3>1, SendSideTypes, OfsZero
      <4>2. Ofs(seqpos[n], wndpos[n]) > 0
        BY <1>1, <2>2, <4>1 DEF SendSide
      <4> QED BY <1>1, <4>2, SendSideTypes, OfsZero
    <3>3. SendTimer'[n] = T!Continue(T!Ack(SendTimer[n])) /\ sendpos'[n] = sendpos[n]
      BY <1>1, <2>3, <3>2 DEF Resend, ResendTimer, TypeOK
    <3>4. T!Armed(SendTimer'[n])
      BY <2>2, <3>3, TimerArmed
    <3> QED BY <1>1, <1>3, <2>1, <3>1, <3>3, <3>4 DEF SendSide
  <2>4. CASE SendNew(n)
    <3>1. Ofs(seqpos[n], sendpos[n]) = Ofs(seqpos[n], wndpos[n]) - Ofs(sendpos[n], wndpos[n])
      BY <1>1, SendSideTypes, OfsDifference DEF SendSide
    <3>2. Ofs(sendpos[n], wndpos[n]) < Ofs(seqpos[n], wndpos[n])
      BY <2>2, <2>4, <3>1 DEF SendNew, HasUnsent
    <3>3. /\ Inc(sendpos[n]) \in SeqNo
          /\ Ofs(Inc(sendpos[n]), wndpos[n]) = Ofs(sendpos[n], wndpos[n]) + 1
      BY <1>1, <2>2, <3>2, SendSideTypes, OfsInc, OfsZero, SizeFacts
    <3>4. sendpos'[n] = Inc(sendpos[n]) /\ SendTimer'[n] = T!Continue(SendTimer[n])
      BY <1>1, <2>4 DEF SendNew, TypeOK
    <3>5. T!Armed(SendTimer'[n])
      BY <2>2, <3>4, TimerArmed
    <3>6. wndpos[n] # Inc(sendpos[n])
      BY <1>1, <2>2, <3>3, SendSideTypes, OfsZero
    <3> QED BY <1>1, <1>3, <2>1, <2>2, <3>2, <3>3, <3>4, <3>5, <3>6 DEF SendSide
  <2>5. CASE SendAck(n)
    BY <1>1, <1>3, <2>1, <2>5, SendSideFrame DEF SendAck
  <2> QED BY <2>3, <2>4, <2>5 DEF GetSendData
<1> QED BY <1>2, <1>3

\* Whatever acknowledgement a packet carries: outside the transmitted part of
\* the window it is ignored, inside it the window moves behind it.
LEMMA SendSideReceiveAck ==
  ASSUME TypeOK, NEW n \in Endpoint, SendSide(n), NEW p \in Packet, ReceiveAck(n, p),
         seqpos'[n] = seqpos[n], sendpos'[n] = sendpos[n]
  PROVE  SendSide(n)'
<1> DEFINE ackofs == Ofs(p.ack, wndpos[n])
           wpos   == (wndpos[n] + ackofs + 1) % SEQ_S
<1>1. /\ seqpos[n] \in SeqNo /\ wndpos[n] \in SeqNo /\ sendpos[n] \in SeqNo
      /\ SendTimer[n] \in T!TimerType
      /\ p.ack \in SeqNo
  BY SendSideTypes DEF Packet
<1>2. /\ ackofs \in Nat
      /\ Ofs(sendpos[n], wndpos[n]) \in Nat /\ Ofs(seqpos[n], wndpos[n]) \in Nat
  BY <1>1, OfsZero
<1>3. CASE ackofs < Ofs(sendpos[n], wndpos[n])
  <2>1. /\ wndpos'[n] = wpos
        /\ SendTimer'[n] = IF wpos = sendpos[n] THEN T!Stop(SendTimer[n])
                                                ELSE T!Start(SendTimer[n])
    BY <1>3 DEF ReceiveAck, TimerAfterAck, TypeOK
  <2>2. /\ ackofs + 1 \in Nat
        /\ ackofs + 1 <= Ofs(sendpos[n], wndpos[n])
        /\ ackofs + 1 <= Ofs(seqpos[n], wndpos[n])
    BY <1>2, <1>3 DEF SendSide
  <2>3. wpos = (wndpos[n] + (ackofs + 1)) % SEQ_S
    <3>1. wndpos[n] \in Nat
      BY <1>1 DEF SeqNo
    <3>2. wndpos[n] + ackofs + 1 = wndpos[n] + (ackofs + 1)
      BY <1>2, <3>1
    <3> QED BY <3>2
  <2>4. /\ Ofs(sendpos[n], wpos) = Ofs(sendpos[n], wndpos[n]) - (ackofs + 1)
        /\ Ofs(seqpos[n], wpos) = Ofs(seqpos[n], wndpos[n]) - (ackofs + 1)
    BY <1>1, <2>2, <2>3, OfsShift
  <2>5. T!Armed(SendTimer'[n]) <=> wpos # sendpos[n]
    BY <1>1, <2>1, TimerArmed
  <2> HIDE DEF ackofs, wpos
  <2>6. /\ Ofs(sendpos[n], wpos) <= Ofs(seqpos[n], wpos)
        /\ Ofs(seqpos[n], wpos) <= WND_S
    BY <1>2, <2>2, <2>4, SizeFacts DEF SendSide
  <2> QED BY <2>1, <2>5, <2>6 DEF SendSide
<1>4. CASE ~(ackofs < Ofs(sendpos[n], wndpos[n]))
  BY <1>4, SendSideFrame DEF ReceiveAck
<1> QED BY <1>3, <1>4

LEMMA SendSideReceive ==
  ASSUME SendInv, NEW n \in Endpoint, Receive(n), NEW m \in Endpoint
  PROVE  SendSide(m)'
<1>1. TypeOK /\ SendSide(n) /\ SendSide(m)
  BY DEF SendInv
<1>2. ReceiveAck(n, Head(chan[n])) /\ seqpos' = seqpos /\ sendpos' = sendpos
  BY DEF Receive, ReceivePacket
<1>3. CASE m # n
  <2>1. wndpos'[m] = wndpos[m] /\ SendTimer'[m] = SendTimer[m]
    BY <1>1, <1>2, <1>3 DEF ReceiveAck, TypeOK
  <2> QED BY <1>1, <1>2, <2>1, SendSideFrame
<1>4. CASE m = n
  <2>1. Head(chan[n]) \in Packet
    BY <1>1 DEF Receive, TypeOK
  <2> QED BY <1>1, <1>2, <1>4, <2>1, SendSideReceiveAck
<1> QED BY <1>3, <1>4

\* Ticking or re-parametrising a timer neither arms nor disarms it.
LEMMA SendSideTimers ==
  ASSUME SendInv, NEW n \in Endpoint, NEW m \in Endpoint,
         Tick(n) \/ \E t \in TimeoutVals : SetTimeouts(n, t[1], t[2])
  PROVE  SendSide(m)'
<1>1. TypeOK /\ SendSide(m) /\ SendTimer[n] \in T!TimerType
  BY SendSideTypes DEF SendInv
<1>2. seqpos' = seqpos /\ wndpos' = wndpos /\ sendpos' = sendpos
  BY DEF Tick, SetTimeouts
<1>3. T!Armed(SendTimer'[m]) <=> T!Armed(SendTimer[m])
  <2>1. CASE Tick(n)
    <3>1. SendTimer'[m] = IF m = n THEN T!Tick(SendTimer[n]) ELSE SendTimer[m]
      BY <1>1, <2>1 DEF Tick, TypeOK
    <3> QED BY <1>1, <3>1, TimerArmed
  <2>2. CASE \E t \in TimeoutVals : SetTimeouts(n, t[1], t[2])
    <3>1. PICK t \in TimeoutVals : SetTimeouts(n, t[1], t[2])
      BY <2>2
    <3>2. t[1] \in Nat
      BY ParameterAssumption
    <3>3. SendTimer'[m] = IF m = n THEN T!SetTimeoutVal(SendTimer[n], t[1]) ELSE SendTimer[m]
      BY <1>1, <3>1 DEF SetTimeouts, TypeOK
    <3> QED BY <1>1, <3>2, <3>3, TimerArmed
  <2> QED BY <2>1, <2>2
<1> QED BY <1>1, <1>2, <1>3 DEF SendSide

LEMMA SendSideReset ==
  ASSUME SendInv, Reset, NEW m \in Endpoint
  PROVE  SendSide(m)'
<1>1. SendTimer[m] \in T!TimerType
  BY SendSideTypes DEF SendInv
<1>2. seqpos'[m] = 0 /\ wndpos'[m] = 0 /\ sendpos'[m] = 0 /\ SendTimer'[m] = T!Stop(SendTimer[m])
  BY DEF Reset, ResetPositions
<1>3. Ofs(0, 0) = 0
  BY OfsZero, PositionTypes
<1>4. ~T!Armed(T!Stop(SendTimer[m]))
  BY <1>1, TimerArmed
<1> QED BY <1>2, <1>3, <1>4, SizeFacts DEF SendSide

LEMMA SendInvNext == SendInv /\ [Next]_vars => SendInv'
<1> SUFFICES ASSUME SendInv, [Next]_vars, NEW m \in Endpoint PROVE SendSide(m)'
  BY TypeNext DEF SendInv
<1>1. CASE UNCHANGED vars
  BY <1>1, SendSideFrame DEF SendInv, vars, sendVars
<1>2. ASSUME NEW n \in Endpoint, Read(n) \/ Lose(n) \/ Repeat(n)
      PROVE  SendSide(m)'
  BY <1>2, SendSideFrame DEF SendInv, Read, Lose, Repeat, sendVars
<1>3. CASE Next
  BY <1>2, <1>3, SendSideSend, SendSideGetSendData, SendSideReceive,
     SendSideTimers, SendSideReset DEF Next
<1> QED BY <1>1, <1>3

LEMMA SendInvAlways == Spec => []SendInv
<1>1. Init => SendInv
  BY TypeInit, SendSideInit DEF SendInv
<1> QED BY <1>1, SendInvNext, PTL DEF Spec

\* The positions of the send window keep their order and the window its size,
\* for every SEQ_S >= 2 * WND_S and whatever acknowledgements arrive.
THEOREM SendWindowHolds == Spec => []SendWindow
<1>1. SendInv => SendWindow
  BY DEF SendInv, SendSide, SendWindow
<1> QED BY <1>1, SendInvAlways, PTL

\* The retransmission timer is armed exactly while a packet is unacknowledged.
THEOREM RetransmitArmedHolds == Spec => []RetransmitArmed
<1>1. SendInv => RetransmitArmed
  BY DEF SendInv, SendSide, RetransmitArmed
<1> QED BY <1>1, SendInvAlways, PTL
-----------------------------------------------------------------------------
(***************************************************************************)
(* The protocol implements the reliable stream: what is read is what was   *)
(* sent, in order and once, for every window size, every loss, repetition  *)
(* and timeout.  Slots are addressed modulo WND_S and numbers modulo       *)
(* SEQ_S, so that the first has to divide the second, as 16 divides 64.    *)
(*                                                                         *)
(* The argument counts payloads from the last reset on.  A position is the *)
(* remainder of a count; all counts a packet or a window refers to lie     *)
(* within two windows of each other, so that remainders tell them apart.   *)
(***************************************************************************)

(* Remainders.                                                             *)

LEMMA Times ==
  ASSUME NEW a \in Int, NEW N \in Nat \ {0}
  PROVE  (a >= 1 => a * N >= N) /\ (a <= -1 => a * N <= -N)
  BY Z3

LEMMA DivMod ==
  ASSUME NEW x \in Int, NEW N \in Nat \ {0}
  PROVE  x \div N \in Int /\ x = (x \div N) * N + (x % N) /\ x % N \in 0 .. N - 1
  BY Z3

LEMMA ModIs ==
  ASSUME NEW x \in Int, NEW N \in Nat \ {0}, NEW q \in Int, NEW r \in 0 .. N - 1, x = q * N + r
  PROVE  x % N = r
<1> DEFINE d == x \div N
           m == x % N
<1>1. d \in Int /\ x = d * N + m /\ m \in 0 .. N - 1
  BY DivMod
<1> HIDE DEF d, m
<1>2. (q - d) * N = m - r
  BY <1>1
<1>3. q - d >= 1 \/ q - d <= -1 \/ q - d = 0
  BY <1>1
<1>4. CASE q - d = 0
  BY <1>1, <1>2, <1>4 DEF m
<1>5. CASE q - d # 0
  BY <1>1, <1>2, <1>3, <1>5, Times
<1> QED BY <1>4, <1>5

LEMMA ModAdd ==
  ASSUME NEW x \in Int, NEW k \in Int, NEW N \in Nat \ {0}
  PROVE  ((x % N) + k) % N = (x + k) % N
<1> DEFINE d == x \div N
           m == x % N
           e == (m + k) \div N
           l == (m + k) % N
<1>1. d \in Int /\ x = d * N + m /\ m \in 0 .. N - 1
  BY DivMod
<1>2. e \in Int /\ m + k = e * N + l /\ l \in 0 .. N - 1
  BY <1>1, DivMod
<1> HIDE DEF d, m, e, l
<1>3. x + k = (d + e) * N + l
  BY <1>1, <1>2
<1>4. (x + k) % N = l
  <2>1. x + k \in Int /\ d + e \in Int
    BY <1>1, <1>2
  <2> QED BY <1>2, <1>3, <2>1, ModIs
<1> QED BY <1>4 DEF l, m

LEMMA ModMod ==
  ASSUME NEW x \in Int, NEW N \in Nat \ {0}, NEW W \in Nat \ {0}, N % W = 0
  PROVE  (x % N) % W = x % W
<1> DEFINE d == x \div N
           m == x % N
           c == N \div W
           e == m \div W
           l == m % W
<1>1. d \in Int /\ x = d * N + m /\ m \in 0 .. N - 1
  BY DivMod
<1>2. c \in Int /\ N = c * W
  <2>1. c \in Int /\ N = c * W + (N % W)
    BY DivMod
  <2> HIDE DEF c
  <2> QED BY <2>1
<1>3. e \in Int /\ m = e * W + l /\ l \in 0 .. W - 1
  BY <1>1, DivMod
<1> HIDE DEF d, m, c, e, l
<1>4. x = (d * c + e) * W + l
  <2>1. d * N = (d * c) * W
    BY <1>1, <1>2, Z3
  <2> QED BY <1>1, <1>2, <1>3, <2>1
<1>5. x % W = l
  BY <1>1, <1>2, <1>3, <1>4, ModIs
<1> QED BY <1>5 DEF l, m

LEMMA ModApart ==
  ASSUME NEW x \in Int, NEW y \in Int, NEW W \in Nat \ {0}, x < y, y < x + W
  PROVE  x % W # y % W
<1> SUFFICES ASSUME x % W = y % W PROVE FALSE
  OBVIOUS
<1> DEFINE d == x \div W
           e == y \div W
           m == x % W
<1>1. d \in Int /\ e \in Int /\ x = d * W + m /\ y = e * W + m /\ m \in 0 .. W - 1
  BY DivMod
<1> HIDE DEF d, e, m
<1>2. (e - d) * W = y - x
  BY <1>1
<1> QED BY <1>1, <1>2, Times
-----------------------------------------------------------------------------
(* Positions and slots of counts.                                          *)

Divides == SEQ_S % WND_S = 0

LEMMA CountTypes ==
  ASSUME NEW x \in Int
  PROVE  x % SEQ_S \in SeqNo /\ x % WND_S \in Slot
BY SizeFacts, ModRange DEF SeqNo, Slot

LEMMA CountInc == ASSUME NEW x \in Int PROVE Inc(x % SEQ_S) = (x + 1) % SEQ_S
<1>1. SEQ_S \in Nat \ {0} /\ 1 \in Int
  BY SizeFacts
<1>2. ((x % SEQ_S) + 1) % SEQ_S = (x + 1) % SEQ_S
  BY <1>1, ModAdd
<1> QED BY <1>2 DEF Inc

LEMMA CountOfs ==
  ASSUME NEW x \in Int, NEW y \in Int
  PROVE  /\ y - x \in 0 .. SEQ_S - 1 => Ofs(y % SEQ_S, x % SEQ_S) = y - x
         /\ x - y \in 1 .. SEQ_S => Ofs(y % SEQ_S, x % SEQ_S) = SEQ_S + y - x
<1> DEFINE d == x \div SEQ_S
           e == y \div SEQ_S
           m == x % SEQ_S
           l == y % SEQ_S
<1>1. /\ SEQ_S \in Nat \ {0}
      /\ d \in Int /\ e \in Int /\ m \in 0 .. SEQ_S - 1 /\ l \in 0 .. SEQ_S - 1
      /\ x = d * SEQ_S + m /\ y = e * SEQ_S + l
  BY SizeFacts, DivMod
<1> HIDE DEF d, e, m, l
<1>2. CASE y - x \in 0 .. SEQ_S - 1
  <2>1. SEQ_S + l - m = (1 - e + d) * SEQ_S + (y - x)
    BY <1>1
  <2>2. (SEQ_S + l - m) % SEQ_S = y - x
    <3> DEFINE n == SEQ_S + l - m
               q == 1 - e + d
               b == y - x
    <3>1. n \in Int /\ q \in Int /\ b \in 0 .. SEQ_S - 1 /\ SEQ_S \in Nat \ {0}
      BY <1>1, <1>2
    <3>2. n = q * SEQ_S + b
      BY <2>1
    <3> SUFFICES n % SEQ_S = b
      OBVIOUS
    <3> HIDE DEF n, q, b
    <3> QED BY <3>1, <3>2, ModIs
  <2>3. Ofs(l, m) = y - x
    BY <2>2 DEF Ofs
  <2>4. ~(x - y \in 1 .. SEQ_S)
    BY <1>1, <1>2
  <2> QED BY <2>3, <2>4 DEF l, m
<1>3. CASE x - y \in 1 .. SEQ_S
  <2>1. SEQ_S + l - m = (0 - e + d) * SEQ_S + (SEQ_S + y - x)
    BY <1>1
  <2>2. (SEQ_S + l - m) % SEQ_S = SEQ_S + y - x
    <3>1. SEQ_S + l - m \in Int /\ 0 - e + d \in Int /\ SEQ_S + y - x \in 0 .. SEQ_S - 1
      BY <1>1, <1>3
    <3> QED BY <1>1, <2>1, <3>1, ModIs
  <2> QED BY <1>1, <1>3, <2>2 DEF Ofs, l, m
<1> QED BY <1>1, <1>2, <1>3

\* The position that lies a known distance ahead of a count's.
LEMMA PositionAhead ==
  ASSUME NEW a \in SeqNo, NEW x \in Int
  PROVE  a = (x + Ofs(a, x % SEQ_S)) % SEQ_S
<1> DEFINE d == x \div SEQ_S
           m == x % SEQ_S
<1>1. /\ SEQ_S \in Nat \ {0} /\ d \in Int /\ m \in 0 .. SEQ_S - 1 /\ x = d * SEQ_S + m
  BY SizeFacts, DivMod
<1>2. m \in SeqNo
  BY <1>1 DEF SeqNo
<1> HIDE DEF d, m
<1>3. Ofs(a, m) = IF a >= m THEN a - m ELSE SEQ_S + a - m
  BY <1>2, OfsValue
<1>4. CASE a >= m
  <2>1. x + Ofs(a, m) = d * SEQ_S + a
    BY <1>1, <1>3, <1>4 DEF SeqNo
  <2>2. x + Ofs(a, m) \in Int /\ a \in 0 .. SEQ_S - 1
    BY <1>1, <1>3, <1>4 DEF SeqNo
  <2>3. (x + Ofs(a, m)) % SEQ_S = a
    BY <1>1, <2>1, <2>2, ModIs
  <2> QED BY <2>3 DEF m
<1>5. CASE ~(a >= m)
  <2>1. x + Ofs(a, m) = (d + 1) * SEQ_S + a
    BY <1>1, <1>3, <1>5 DEF SeqNo
  <2>2. x + Ofs(a, m) \in Int /\ a \in 0 .. SEQ_S - 1 /\ d + 1 \in Int
    BY <1>1, <1>3, <1>5 DEF SeqNo
  <2>3. (x + Ofs(a, m)) % SEQ_S = a
    BY <1>1, <2>1, <2>2, ModIs
  <2> QED BY <2>3 DEF m
<1> QED BY <1>4, <1>5

LEMMA SlotOf ==
  ASSUME Divides, NEW x \in Int
  PROVE  (x % SEQ_S) % WND_S = x % WND_S
BY SizeFacts, ModMod DEF Divides

LEMMA SlotsApart ==
  ASSUME NEW x \in Int, NEW y \in Int
  PROVE  /\ x # y /\ x < y + WND_S /\ y < x + WND_S => x % WND_S # y % WND_S
         /\ (x + WND_S) % WND_S = x % WND_S
<1>1. WND_S \in Nat \ {0}
  BY SizeFacts
<1>2. x # y /\ x < y + WND_S /\ y < x + WND_S => x % WND_S # y % WND_S
  <2>1. CASE x < y
    BY <1>1, <2>1, ModApart
  <2>2. CASE y < x
    BY <1>1, <2>2, ModApart
  <2> QED BY <2>1, <2>2
<1>3. (x + WND_S) % WND_S = x % WND_S
  <2>1. x \div WND_S \in Int /\ x = (x \div WND_S) * WND_S + (x % WND_S) /\ x % WND_S \in 0 .. WND_S - 1
    BY <1>1, DivMod
  <2> DEFINE d == x \div WND_S
             m == x % WND_S
  <2> HIDE DEF d, m
  <2>2. d \in Int /\ m \in 0 .. WND_S - 1 /\ x + WND_S = (d + 1) * WND_S + m
    BY <1>1, <2>1 DEF d, m
  <2>3. (x + WND_S) % WND_S = m
    <3>1. x + WND_S \in Int /\ d + 1 \in Int
      BY <1>1, <2>2
    <3> QED BY <1>1, <2>2, <3>1, ModIs
  <2> QED BY <2>3 DEF m
<1> QED BY <1>2, <1>3
LEMMA PositionBehind ==
  ASSUME NEW a \in SeqNo, NEW x \in Int
  PROVE  a = (x - Ofs(x % SEQ_S, a)) % SEQ_S
<1> DEFINE d == x \div SEQ_S
           m == x % SEQ_S
<1>1. /\ SEQ_S \in Nat \ {0} /\ d \in Int /\ m \in 0 .. SEQ_S - 1 /\ x = d * SEQ_S + m
  BY SizeFacts, DivMod
<1>2. m \in SeqNo
  BY <1>1 DEF SeqNo
<1> HIDE DEF d, m
<1>3. Ofs(m, a) = IF m >= a THEN m - a ELSE SEQ_S + m - a
  BY <1>2, OfsValue
<1>4. CASE m >= a
  <2>1. x - Ofs(m, a) = d * SEQ_S + a
    BY <1>1, <1>3, <1>4 DEF SeqNo
  <2>2. x - Ofs(m, a) \in Int /\ a \in 0 .. SEQ_S - 1
    BY <1>1, <1>3, <1>4 DEF SeqNo
  <2>3. (x - Ofs(m, a)) % SEQ_S = a
    BY <1>1, <2>1, <2>2, ModIs
  <2> QED BY <2>3 DEF m
<1>5. CASE ~(m >= a)
  <2>1. x - Ofs(m, a) = (d - 1) * SEQ_S + a
    BY <1>1, <1>3, <1>5 DEF SeqNo
  <2>2. x - Ofs(m, a) \in Int /\ a \in 0 .. SEQ_S - 1 /\ d - 1 \in Int
    BY <1>1, <1>3, <1>5 DEF SeqNo
  <2>3. (x - Ofs(m, a)) % SEQ_S = a
    BY <1>1, <2>1, <2>2, ModIs
  <2> QED BY <2>3 DEF m
<1> QED BY <1>4, <1>5
-----------------------------------------------------------------------------
(* The invariant. *)

\* Payloads of n that are acknowledged, and that were transmitted; payloads n
\* has read or holds in order.
Acked(n)       == sent[n] - Ofs(seqpos[n], wndpos[n])
Transmitted(n) == Acked(n) + Ofs(sendpos[n], wndpos[n])
InOrder(n)     == rcvd[n] + Ofs(Inc(recackpos[n]), recwndpos[n])

\* Payloads in the receive window of n, counted from 0, and those it holds.
Window(n) == rcvd[n] .. rcvd[n] + WND_S - 1
Holds(n, x) == recvalids[n][x % WND_S]

Sending(n) ==
  /\ Acked(n) >= 0
  /\ seqpos[n] = sent[n] % SEQ_S
  /\ \A x \in Acked(n) .. sent[n] - 1 : sendbuf[n][x % WND_S] = x + 1

Receiving(n) ==
  /\ recwndpos[n] = rcvd[n] % SEQ_S
  /\ rcvd[n] <= Transmitted(Peer(n)) /\ Acked(Peer(n)) <= InOrder(n)
  /\ InOrder(n) <= rcvd[n] + WND_S
  /\ \A x \in Window(n) :
       /\ Holds(n, x) => recbuf[n][x % WND_S] = x + 1 /\ x < Transmitted(Peer(n))
       /\ x < InOrder(n) => Holds(n, x)
       /\ x = InOrder(n) => ~Holds(n, x)

\* A data packet is one of those that were transmitted.  Nothing that arrived
\* before it is a window ahead of it: when it was sent, it was in the window.
Fits(c, n, i) ==
  c[n][i].seqvalid =>
    /\ c[n][i].data >= 1 /\ c[n][i].data <= Transmitted(Peer(n))
    /\ c[n][i].seq = (c[n][i].data - 1) % SEQ_S
    /\ rcvd[n] < c[n][i].data + WND_S
    /\ \A y \in Window(n) : Holds(n, y) => y + 1 < c[n][i].data + WND_S

InReach(c, n, j, i) ==
  c[n][j].seqvalid /\ c[n][i].seqvalid => c[n][j].data < c[n][i].data + WND_S

DataPackets(c, n) == \A i \in DOMAIN c[n] : Fits(c, n, i) /\ \A j \in 1 .. i : InReach(c, n, j, i)

\* Acknowledgements on their way to n lie between what n knows and what its
\* peer holds, and do not overtake each other.
Told(c, n, i) == Ofs(Inc(c[n][i].ack), wndpos[n])

Acknowledgements(c, n) ==
  \A i \in DOMAIN c[n] :
    /\ Told(c, n, i) <= InOrder(Peer(n)) - Acked(n)
    /\ \A j \in 1 .. i : Told(c, n, j) <= Told(c, n, i)

StreamOf(c, n) == Sending(n) /\ Receiving(n) /\ DataPackets(c, n) /\ Acknowledgements(c, n)

StreamInv(c) ==
  SendInv /\ c \in [Endpoint -> Seq(Packet)] /\ \A n \in Endpoint : StreamOf(c, n)
-----------------------------------------------------------------------------
(* What the invariant says of counts and positions. *)

LEMMA PeerFacts ==
  ASSUME NEW n \in Endpoint
  PROVE  Peer(n) \in Endpoint /\ Peer(Peer(n)) = n /\ Peer(n) # n
<1>1. n = <<n[1], n[2]>> /\ n[1] \in {"host", "hicann"} /\ n[2] \in Tags
  BY DEF Endpoint, Side
<1>2. CASE n[1] = "host"
  <2>1. Peer(n) = <<"hicann", n[2]>>
    BY <1>2 DEF Peer
  <2>2. Peer(Peer(n)) = <<"host", n[2]>>
    BY <2>1 DEF Peer
  <2> QED BY <1>1, <1>2, <2>1, <2>2 DEF Endpoint, Side
<1>3. CASE n[1] = "hicann"
  <2>1. Peer(n) = <<"host", n[2]>>
    BY <1>3 DEF Peer
  <2>2. Peer(Peer(n)) = <<"hicann", n[2]>>
    BY <2>1 DEF Peer
  <2> QED BY <1>1, <1>3, <2>1, <2>2 DEF Endpoint, Side
<1> QED BY <1>1, <1>2, <1>3

LEMMA CountFacts ==
  ASSUME NEW c, StreamInv(c), NEW n \in Endpoint
  PROVE  /\ sent[n] \in Nat /\ rcvd[n] \in Nat
         /\ Acked(n) \in Nat /\ Transmitted(n) \in Nat /\ InOrder(n) \in Nat
         /\ Acked(n) <= Transmitted(n) /\ Transmitted(n) <= sent[n]
         /\ sent[n] <= Acked(n) + WND_S
         /\ rcvd[n] <= InOrder(n) /\ InOrder(n) <= rcvd[n] + WND_S
<1>1. /\ TypeOK /\ SendSide(n) /\ Sending(n) /\ Receiving(n)
      /\ sent[n] \in Nat /\ rcvd[n] \in Nat
  BY DEF StreamInv, SendInv, StreamOf, TypeOK
<1>2. /\ seqpos[n] \in SeqNo /\ wndpos[n] \in SeqNo /\ sendpos[n] \in SeqNo
      /\ recwndpos[n] \in SeqNo /\ Inc(recackpos[n]) \in SeqNo
  BY <1>1, PositionTypes DEF TypeOK
<1>3. /\ Ofs(seqpos[n], wndpos[n]) \in Nat /\ Ofs(sendpos[n], wndpos[n]) \in Nat
      /\ Ofs(Inc(recackpos[n]), recwndpos[n]) \in Nat
  BY <1>2, OfsZero
<1> QED BY <1>1, <1>3, SizeFacts DEF SendSide, Sending, Receiving, Acked, Transmitted, InOrder

LEMMA PositionFacts ==
  ASSUME NEW c, StreamInv(c), NEW n \in Endpoint
  PROVE  /\ seqpos[n] = sent[n] % SEQ_S
         /\ wndpos[n] = Acked(n) % SEQ_S
         /\ sendpos[n] = Transmitted(n) % SEQ_S
         /\ recwndpos[n] = rcvd[n] % SEQ_S
         /\ Inc(recackpos[n]) = InOrder(n) % SEQ_S
<1>1. /\ TypeOK /\ Sending(n) /\ Receiving(n) /\ sent[n] \in Int /\ rcvd[n] \in Int
  BY CountFacts DEF StreamInv, SendInv, StreamOf
<1>2. /\ wndpos[n] \in SeqNo /\ sendpos[n] \in SeqNo /\ Inc(recackpos[n]) \in SeqNo
  BY <1>1, PositionTypes DEF TypeOK
<1>3. seqpos[n] = sent[n] % SEQ_S /\ recwndpos[n] = rcvd[n] % SEQ_S
  BY <1>1 DEF Sending, Receiving
<1>4. wndpos[n] = Acked(n) % SEQ_S
  BY <1>1, <1>2, <1>3, PositionBehind DEF Acked
<1>5. sendpos[n] = Transmitted(n) % SEQ_S
  <2>1. Acked(n) \in Int
    BY CountFacts
  <2> QED BY <1>2, <1>4, <2>1, PositionAhead DEF Transmitted
<1>6. Inc(recackpos[n]) = InOrder(n) % SEQ_S
  BY <1>1, <1>2, <1>3, PositionAhead DEF InOrder
<1> QED BY <1>3, <1>4, <1>5, <1>6

\* How the counts of the two ends lie to each other.
LEMMA EndFacts ==
  ASSUME NEW c, StreamInv(c), NEW n \in Endpoint
  PROVE  /\ rcvd[n] <= Transmitted(Peer(n))
         /\ Acked(Peer(n)) <= InOrder(n)
         /\ InOrder(n) <= Transmitted(Peer(n))
         /\ InOrder(n) - Acked(Peer(n)) \in 0 .. WND_S
         /\ Ofs(Inc(recackpos[n]), wndpos[Peer(n)]) = InOrder(n) - Acked(Peer(n))
<1>1. Receiving(n) /\ Peer(n) \in Endpoint
  BY PeerFacts DEF StreamInv, StreamOf
<1>2. /\ rcvd[n] \in Nat /\ InOrder(n) \in Nat /\ rcvd[n] <= InOrder(n) /\ InOrder(n) <= rcvd[n] + WND_S
      /\ Acked(Peer(n)) \in Nat /\ Transmitted(Peer(n)) \in Nat /\ sent[Peer(n)] \in Nat
      /\ Transmitted(Peer(n)) <= sent[Peer(n)] /\ sent[Peer(n)] <= Acked(Peer(n)) + WND_S
  BY <1>1, CountFacts
<1>3. rcvd[n] <= Transmitted(Peer(n)) /\ Acked(Peer(n)) <= InOrder(n)
  BY <1>1 DEF Receiving
<1>4. InOrder(n) <= Transmitted(Peer(n))
  <2>1. CASE InOrder(n) = rcvd[n]
    BY <1>3, <2>1
  <2>2. CASE InOrder(n) # rcvd[n]
    <3>1. InOrder(n) - 1 \in Window(n) /\ InOrder(n) - 1 < InOrder(n)
      BY <1>2, <2>2, SizeFacts DEF Window
    <3>2. Holds(n, InOrder(n) - 1)
      BY <1>1, <3>1 DEF Receiving
    <3>3. InOrder(n) - 1 < Transmitted(Peer(n))
      BY <1>1, <3>1, <3>2 DEF Receiving
    <3> QED BY <1>2, <3>3
  <2> QED BY <2>1, <2>2
<1>5. InOrder(n) - Acked(Peer(n)) \in 0 .. WND_S
  BY <1>2, <1>3, <1>4, SizeFacts
<1>6. Ofs(Inc(recackpos[n]), wndpos[Peer(n)]) = InOrder(n) - Acked(Peer(n))
  <2>1. Inc(recackpos[n]) = InOrder(n) % SEQ_S /\ wndpos[Peer(n)] = Acked(Peer(n)) % SEQ_S
    BY <1>1, PositionFacts
  <2>2. InOrder(n) - Acked(Peer(n)) \in 0 .. SEQ_S - 1 /\ InOrder(n) \in Int /\ Acked(Peer(n)) \in Int
    BY <1>2, <1>5, SizeFacts
  <2> QED BY <2>1, <2>2, CountOfs
<1> QED BY <1>3, <1>4, <1>5, <1>6
-----------------------------------------------------------------------------
(* What a step leaves alone. *)

\* The packets of d are packets of c in the same order; some may be missing,
\* some may be there again.
Drawn(d, c) ==
  \E f \in [DOMAIN d -> DOMAIN c] :
    \A i \in DOMAIN d : d[i] = c[f[i]] /\ \A j \in 1 .. i : f[j] \in 1 .. f[i]

LEMMA DrawnSame == ASSUME NEW c \in Seq(Packet) PROVE Drawn(c, c)
<1> DEFINE f == [i \in DOMAIN c |-> i]
<1>1. DOMAIN c = 1 .. Len(c) /\ Len(c) \in Nat
  OBVIOUS
<1>2. \A i \in DOMAIN c : f[i] = i
  OBVIOUS
<1>3. f \in [DOMAIN c -> DOMAIN c]
  OBVIOUS
<1> HIDE DEF f
<1>4. \A i \in DOMAIN c : c[i] = c[f[i]] /\ \A j \in 1 .. i : f[j] \in 1 .. f[i]
  BY <1>1, <1>2
<1> QED BY <1>3, <1>4 DEF Drawn

LEMMA DrawnTail == ASSUME NEW c \in Seq(Packet), c # <<>> PROVE Drawn(Tail(c), c)
<1> DEFINE f == [i \in DOMAIN Tail(c) |-> i + 1]
<1>1. /\ DOMAIN c = 1 .. Len(c) /\ Len(c) \in Nat \ {0}
      /\ DOMAIN Tail(c) = 1 .. Len(c) - 1
      /\ \A i \in DOMAIN Tail(c) : Tail(c)[i] = c[i + 1]
  OBVIOUS
<1>2. f \in [DOMAIN Tail(c) -> DOMAIN c]
  BY <1>1
<1>3. \A i \in DOMAIN Tail(c) : Tail(c)[i] = c[f[i]] /\ \A j \in 1 .. i : f[j] \in 1 .. f[i]
  BY <1>1
<1> QED BY <1>2, <1>3 DEF Drawn

LEMMA DrawnRepeat == ASSUME NEW c \in Seq(Packet), c # <<>> PROVE Drawn(<<Head(c)>> \o c, c)
<1> DEFINE d == <<Head(c)>> \o c
           f == [i \in DOMAIN d |-> IF i = 1 THEN 1 ELSE i - 1]
<1>1. DOMAIN c = 1 .. Len(c) /\ Len(c) \in Nat \ {0} /\ Head(c) = c[1] /\ Head(c) \in Packet
  OBVIOUS
<1>2. /\ DOMAIN d = 1 .. Len(c) + 1
      /\ \A i \in DOMAIN d : d[i] = IF i = 1 THEN c[1] ELSE c[i - 1]
  <2>1. <<Head(c)>> \in Seq(Packet) /\ Len(<<Head(c)>>) = 1 /\ <<Head(c)>>[1] = c[1]
    BY <1>1
  <2>2. Len(d) = 1 + Len(c) /\ d \in Seq(Packet)
    BY <2>1
  <2> QED BY <1>1, <2>1, <2>2
<1> HIDE DEF d
<1>3. f \in [DOMAIN d -> DOMAIN c]
  BY <1>1, <1>2
<1>4. \A i \in DOMAIN d : d[i] = c[f[i]] /\ \A j \in 1 .. i : f[j] \in 1 .. f[i]
  BY <1>1, <1>2
<1> QED BY <1>3, <1>4 DEF Drawn, d

LEMMA KeepSending ==
  ASSUME NEW m \in Endpoint, Sending(m), sent'[m] = sent[m], seqpos'[m] = seqpos[m],
         wndpos'[m] = wndpos[m], sendbuf'[m] = sendbuf[m]
  PROVE  Sending(m)'
  BY DEF Sending, Acked

LEMMA KeepReceiving ==
  ASSUME NEW c, StreamInv(c), NEW m \in Endpoint,
         rcvd'[m] = rcvd[m], recwndpos'[m] = recwndpos[m], recackpos'[m] = recackpos[m],
         recbuf'[m] = recbuf[m], recvalids'[m] = recvalids[m],
         Transmitted(Peer(m))' \in Int, Transmitted(Peer(m)) <= Transmitted(Peer(m))',
         Acked(Peer(m))' <= InOrder(m)
  PROVE  Receiving(m)'
<1>1. Receiving(m) /\ rcvd[m] \in Int /\ WND_S \in Int /\ Transmitted(Peer(m)) \in Int
  <2>1. Receiving(m)
    BY DEF StreamInv, StreamOf
  <2> QED BY <2>1, CountFacts, PeerFacts, SizeFacts
<1>2. InOrder(m)' = InOrder(m)
  BY DEF InOrder
<1>3. \A x \in Window(m) : x \in Int /\ (Holds(m, x) <=> recvalids'[m][x % WND_S])
  BY <1>1 DEF Window, Holds
<1>4. Window(m)' = Window(m)
  BY DEF Window
<1>5. /\ recwndpos'[m] = rcvd'[m] % SEQ_S
      /\ rcvd'[m] <= Transmitted(Peer(m))' /\ InOrder(m)' <= rcvd'[m] + WND_S
  BY <1>1, <1>2 DEF Receiving
<1>6. ASSUME NEW x \in Window(m)
      PROVE  /\ recvalids'[m][x % WND_S] =>
                  recbuf'[m][x % WND_S] = x + 1 /\ x < Transmitted(Peer(m))'
             /\ x < InOrder(m)' => recvalids'[m][x % WND_S]
             /\ x = InOrder(m)' => ~recvalids'[m][x % WND_S]
  BY <1>1, <1>2, <1>3, <1>6 DEF Receiving
<1> QED BY <1>2, <1>4, <1>5, <1>6 DEF Receiving, Holds

LEMMA KeepDataPackets ==
  ASSUME NEW c, NEW d, StreamInv(c), NEW m \in Endpoint, d[m] \in Seq(Packet), Drawn(d[m], c[m]),
         rcvd'[m] = rcvd[m], recvalids'[m] = recvalids[m],
         Transmitted(Peer(m))' \in Int, Transmitted(Peer(m)) <= Transmitted(Peer(m))'
  PROVE  DataPackets(d, m)'
<1>1. DataPackets(c, m) /\ Transmitted(Peer(m)) \in Int
  <2>1. DataPackets(c, m)
    BY DEF StreamInv, StreamOf
  <2> QED BY <2>1, CountFacts, PeerFacts
<1>2. c[m] \in Seq(Packet)
  BY DEF StreamInv, SendInv, TypeOK
<1>3. Window(m)' = Window(m)
  BY DEF Window
<1>4. PICK f \in [DOMAIN d[m] -> DOMAIN c[m]] :
        \A i \in DOMAIN d[m] :
          d[m][i] = c[m][f[i]] /\ \A j \in 1 .. i : f[j] \in 1 .. f[i]
  BY DEF Drawn
<1>5. ASSUME NEW i \in DOMAIN d[m]
      PROVE  Fits(d, m, i)' /\ \A j \in 1 .. i : InReach(d, m, j, i)'
  <2>1. /\ f[i] \in DOMAIN c[m] /\ d[m][i] = c[m][f[i]]
        /\ c[m][f[i]].data \in Int
    <3>1. f[i] \in DOMAIN c[m] /\ d[m][i] = c[m][f[i]]
      BY <1>4
    <3>2. c[m][f[i]] \in Packet
      BY <1>2, <3>1
    <3> QED BY <3>1, <3>2 DEF Packet
  <2>2. Fits(c, m, f[i])
    BY <1>1, <2>1 DEF DataPackets
  <2>3. Fits(d, m, i)'
    BY <1>1, <1>3, <2>1, <2>2 DEF Fits, Holds
  <2>4. ASSUME NEW j \in 1 .. i PROVE InReach(d, m, j, i)'
    <3>1. j \in DOMAIN d[m]
      BY <1>5
    <3>2. d[m][j] = c[m][f[j]] /\ f[j] \in 1 .. f[i]
      BY <1>4, <3>1
    <3>3. InReach(c, m, f[j], f[i])
      BY <1>1, <2>1, <3>2 DEF DataPackets
    <3> QED BY <2>1, <3>2, <3>3 DEF InReach
  <2> QED BY <2>3, <2>4
<1> QED BY <1>5 DEF DataPackets

LEMMA KeepAcknowledgements ==
  ASSUME NEW c, NEW d, StreamInv(c), NEW m \in Endpoint, d[m] \in Seq(Packet), Drawn(d[m], c[m]),
         wndpos'[m] = wndpos[m], Acked(m)' = Acked(m),
         InOrder(Peer(m))' \in Int, InOrder(Peer(m)) <= InOrder(Peer(m))'
  PROVE  Acknowledgements(d, m)'
<1>1. Acknowledgements(c, m) /\ InOrder(Peer(m)) \in Int /\ Acked(m) \in Int
  BY CountFacts, PeerFacts DEF StreamInv, StreamOf
<1>2. c[m] \in Seq(Packet) /\ wndpos[m] \in SeqNo
  BY DEF StreamInv, SendInv, TypeOK
<1>3. PICK f \in [DOMAIN d[m] -> DOMAIN c[m]] :
        \A i \in DOMAIN d[m] :
          d[m][i] = c[m][f[i]] /\ \A j \in 1 .. i : f[j] \in 1 .. f[i]
  BY DEF Drawn
<1>4. ASSUME NEW i \in DOMAIN d[m]
      PROVE  /\ f[i] \in DOMAIN c[m]
             /\ Told(d, m, i)' = Told(c, m, f[i]) /\ Told(c, m, f[i]) \in Int
  <2>1. f[i] \in DOMAIN c[m] /\ d[m][i] = c[m][f[i]] /\ c[m][f[i]] \in Packet
    <3>1. f[i] \in DOMAIN c[m] /\ d[m][i] = c[m][f[i]]
      BY <1>3
    <3> QED BY <1>2, <3>1
  <2>2. Told(c, m, f[i]) \in Int
    <3>1. Inc(c[m][f[i]].ack) \in SeqNo
      BY <2>1, PositionTypes DEF Packet
    <3>2. Ofs(Inc(c[m][f[i]].ack), wndpos[m]) \in SeqNo
      BY <1>2, <3>1, PositionTypes
    <3> QED BY <3>2 DEF Told, SeqNo
  <2> QED BY <2>1, <2>2 DEF Told
<1>5. ASSUME NEW i \in DOMAIN d[m]
      PROVE  /\ Told(d, m, i)' <= InOrder(Peer(m))' - Acked(m)'
             /\ \A j \in 1 .. i : Told(d, m, j)' <= Told(d, m, i)'
  <2>1. f[i] \in DOMAIN c[m] /\ Told(d, m, i)' = Told(c, m, f[i]) /\ Told(c, m, f[i]) \in Int
    BY <1>4
  <2>2. Told(d, m, i)' <= InOrder(Peer(m))' - Acked(m)'
    <3>1. Told(c, m, f[i]) <= InOrder(Peer(m)) - Acked(m)
      BY <1>1, <2>1 DEF Acknowledgements
    <3> QED BY <1>1, <2>1, <3>1
  <2>3. ASSUME NEW j \in 1 .. i PROVE Told(d, m, j)' <= Told(d, m, i)'
    <3>1. j \in DOMAIN d[m]
      BY <1>5
    <3>2. Told(d, m, j)' = Told(c, m, f[j]) /\ f[j] \in 1 .. f[i]
      BY <1>3, <1>4, <3>1
    <3>3. Told(c, m, f[j]) <= Told(c, m, f[i])
      BY <1>1, <2>1, <3>2 DEF Acknowledgements
    <3> QED BY <2>1, <3>2, <3>3
  <2> QED BY <2>2, <2>3
<1> QED BY <1>5 DEF Acknowledgements

LEMMA KeepCounts ==
  ASSUME NEW m \in Endpoint
  PROVE  /\ sent'[m] = sent[m] /\ seqpos'[m] = seqpos[m] /\ wndpos'[m] = wndpos[m]
              => Acked(m)' = Acked(m)
         /\ sent'[m] = sent[m] /\ seqpos'[m] = seqpos[m] /\ wndpos'[m] = wndpos[m]
              /\ sendpos'[m] = sendpos[m]
              => Transmitted(m)' = Transmitted(m)
         /\ rcvd'[m] = rcvd[m] /\ recwndpos'[m] = recwndpos[m] /\ recackpos'[m] = recackpos[m]
              => InOrder(m)' = InOrder(m)
  BY DEF Acked, Transmitted, InOrder

LEMMA WindowRange ==
  ASSUME NEW n \in Endpoint, rcvd[n] \in Nat, NEW x \in Window(n)
  PROVE  x \in Int /\ rcvd[n] <= x /\ x < rcvd[n] + WND_S /\ x % WND_S \in Slot
<1>1. x \in Int /\ rcvd[n] <= x /\ x < rcvd[n] + WND_S
  BY SizeFacts DEF Window
<1> QED BY <1>1, CountTypes

-----------------------------------------------------------------------------
(* The steps. *)

\* Nothing changes but what is under way, and the timers.
LEMMA StreamChannel ==
  ASSUME NEW c, NEW d, StreamInv(c), d \in [Endpoint -> Seq(Packet)],
         UNCHANGED <<seqpos, wndpos, sendpos, sendbuf, recwndpos, recackpos, recbuf, recvalids,
                     sent, rcvd>>,
         NEW m \in Endpoint, Drawn(d[m], c[m])
  PROVE  StreamOf(d, m)'
<1>1. Peer(m) \in Endpoint /\ StreamOf(c, m)
  BY PeerFacts DEF StreamInv
<1>2. /\ Acked(m)' = Acked(m) /\ Acked(Peer(m))' = Acked(Peer(m))
      /\ Transmitted(Peer(m))' = Transmitted(Peer(m)) /\ InOrder(Peer(m))' = InOrder(Peer(m))
  BY <1>1, KeepCounts
<1>3. /\ Transmitted(Peer(m)) \in Int /\ InOrder(Peer(m)) \in Int
      /\ Acked(Peer(m)) <= InOrder(m)
  BY <1>1, CountFacts, EndFacts
<1>4. d[m] \in Seq(Packet)
  OBVIOUS
<1>5. Sending(m)'
  BY <1>1, KeepSending DEF StreamOf
<1>6. Receiving(m)'
  BY <1>2, <1>3, KeepReceiving
<1>7. DataPackets(d, m)'
  BY <1>2, <1>3, <1>4, KeepDataPackets
<1>8. Acknowledgements(d, m)'
  BY <1>2, <1>3, <1>4, KeepAcknowledgements
<1> QED BY <1>5, <1>6, <1>7, <1>8 DEF StreamOf

LEMMA StreamInit == Init => \A n \in Endpoint : StreamOf(chan, n)
<1> SUFFICES ASSUME Init PROVE \A n \in Endpoint : StreamOf(chan, n)
  OBVIOUS
<1>1. 0 % SEQ_S = 0 /\ Inc(SEQ_S - 1) = 0 /\ Ofs(0, 0) = 0
  BY SizeFacts, PositionTypes, ModSmall, IncValue, OfsZero
<1>2. \A n \in Endpoint : Acked(n) = 0 /\ Transmitted(n) = 0 /\ InOrder(n) = 0
  BY <1>1 DEF Init, Acked, Transmitted, InOrder
<1> TAKE n \in Endpoint
<1>3. Peer(n) \in Endpoint
  BY PeerFacts
<1>4. Sending(n)
  BY <1>1, <1>2 DEF Init, Sending
<1>5. Receiving(n)
  <2>1. \A x \in Window(n) : ~Holds(n, x)
    <3> TAKE x \in Window(n)
    <3>1. x % WND_S \in Slot
      BY WindowRange DEF Init
    <3> QED BY <3>1 DEF Init, Holds
  <2>2. \A x \in Window(n) : x \in Int /\ x >= 0
    BY WindowRange DEF Init
  <2>3. recwndpos[n] = rcvd[n] % SEQ_S /\ rcvd[n] = 0
    BY <1>1 DEF Init
  <2> QED BY <1>2, <1>3, <2>1, <2>2, <2>3, SizeFacts DEF Receiving
<1>6. DataPackets(chan, n) /\ Acknowledgements(chan, n)
  BY DEF Init, DataPackets, Acknowledgements
<1> QED BY <1>4, <1>5, <1>6 DEF StreamOf

LEMMA StreamReset ==
  ASSUME NEW d, d = [n \in Endpoint |-> <<>>], Reset, NEW n \in Endpoint
  PROVE  StreamOf(d, n)'
<1> USE DEF Reset, ResetPositions, ResetSlots
<1>1. 0 % SEQ_S = 0 /\ Inc(SEQ_S - 1) = 0 /\ Ofs(0, 0) = 0
  BY SizeFacts, PositionTypes, ModSmall, IncValue, OfsZero
<1>2. ASSUME NEW m \in Endpoint
      PROVE  Acked(m)' = 0 /\ Transmitted(m)' = 0 /\ InOrder(m)' = 0
  BY <1>1 DEF Acked, Transmitted, InOrder
<1>3. Peer(n) \in Endpoint
  BY PeerFacts
<1>4. Sending(n)'
  <2>1. seqpos'[n] = 0 /\ sent'[n] = 0 /\ Acked(n)' = 0
    BY <1>2
  <2> QED BY <1>1, <2>1 DEF Sending
<1>5. Receiving(n)'
  <2>1. rcvd'[n] = 0 /\ recwndpos'[n] = 0
    OBVIOUS
  <2>2. /\ InOrder(n)' = 0
        /\ Transmitted(Peer(n))' = 0 /\ Acked(Peer(n))' = 0
    BY <1>2, <1>3
  <2>3. \A x \in 0 .. WND_S - 1 : ~recvalids'[n][x % WND_S] /\ x >= 0
    <3> TAKE x \in 0 .. WND_S - 1
    <3>1. x \in Int /\ x >= 0
      BY SizeFacts
    <3>2. x % WND_S \in Slot
      BY <3>1, CountTypes
    <3> QED BY <3>1, <3>2
  <2>4. Window(n)' = 0 .. WND_S - 1
    <3>1. 0 + WND_S - 1 = WND_S - 1
      BY SizeFacts
    <3> QED BY <2>1, <3>1 DEF Window
  <2>5. \A x \in 0 .. WND_S - 1 : x \in Int
    BY SizeFacts
  <2> HIDE DEF Reset
  <2> QED BY <1>1, <2>1, <2>2, <2>3, <2>4, <2>5, SizeFacts DEF Receiving, Holds
<1>6. DataPackets(d, n)' /\ Acknowledgements(d, n)'
  <2>1. DOMAIN d[n] = {}
    OBVIOUS
  <2> QED BY <2>1 DEF DataPackets, Acknowledgements
<1> QED BY <1>4, <1>5, <1>6 DEF StreamOf

\* A payload is stored in the slot behind the unacknowledged ones.
LEMMA StreamSend ==
  ASSUME Divides, NEW c, StreamInv(c), NEW e \in Endpoint, Send(e), NEW m \in Endpoint
  PROVE  StreamOf(c, m)'
<1> DEFINE s == sent[e]
<1>1. TypeOK /\ StreamOf(c, m) /\ Sending(e) /\ SendSide(e)
  BY DEF StreamInv, SendInv, StreamOf
<1>2. /\ UNCHANGED <<wndpos, sendpos, recwndpos, recackpos, recbuf, recvalids, rcvd>>
      /\ \A n \in Endpoint \ {e} : sent'[n] = sent[n] /\ seqpos'[n] = seqpos[n] /\ sendbuf'[n] = sendbuf[n]
      /\ sent'[e] = s + 1 /\ seqpos'[e] = Inc(seqpos[e])
      /\ sendbuf'[e] = [sendbuf[e] EXCEPT ![seqpos[e] % WND_S] = s + 1]
  BY <1>1 DEF Send, TypeOK, recvVars
<1>3. /\ s \in Nat /\ Acked(e) \in Nat /\ Transmitted(e) \in Nat
      /\ Acked(e) <= Transmitted(e) /\ Transmitted(e) <= s /\ s <= Acked(e) + WND_S
      /\ seqpos[e] = s % SEQ_S
  BY CountFacts, PositionFacts
<1> HIDE DEF s
<1>4. /\ Ofs(seqpos[e], wndpos[e]) < WND_S
      /\ Ofs(Inc(seqpos[e]), wndpos[e]) = Ofs(seqpos[e], wndpos[e]) + 1
      /\ Ofs(seqpos[e], wndpos[e]) \in Nat
  <2>1. seqpos[e] \in SeqNo /\ wndpos[e] \in SeqNo
    BY <1>1, SendSideTypes
  <2>2. Ofs(seqpos[e], wndpos[e]) \in Nat
    BY <2>1, OfsZero
  <2>3. Ofs(seqpos[e], wndpos[e]) < WND_S
    BY <1>1, <2>2, SizeFacts DEF SendSide, Send, WindowFull, send_valids
  <2>4. Ofs(seqpos[e], wndpos[e]) < SEQ_S - 1
    BY <2>2, <2>3, SizeFacts
  <2> QED BY <2>1, <2>2, <2>3, <2>4, OfsInc
<1>5. Acked(e)' = Acked(e) /\ s < Acked(e) + WND_S
  BY <1>2, <1>3, <1>4, SizeFacts DEF Acked, s
<1>6. \A n \in Endpoint : /\ Acked(n)' = Acked(n) /\ Transmitted(n)' = Transmitted(n)
                          /\ InOrder(n)' = InOrder(n)
  <2>1. Transmitted(e)' = Transmitted(e)
    BY <1>2, <1>5 DEF Transmitted
  <2>2. ASSUME NEW n \in Endpoint \ {e}
        PROVE  Acked(n)' = Acked(n) /\ Transmitted(n)' = Transmitted(n)
    BY <1>2, <2>2, KeepCounts
  <2>3. ASSUME NEW n \in Endpoint PROVE InOrder(n)' = InOrder(n)
    BY <1>2, KeepCounts
  <2> QED BY <1>5, <2>1, <2>2, <2>3
<1>7. Sending(m)'
  <2>1. CASE m # e
    BY <1>1, <1>2, <2>1, KeepSending DEF StreamOf
  <2>2. CASE m = e
    <3>1. seqpos'[e] = (s + 1) % SEQ_S
      BY <1>2, <1>3, CountInc
    <3>2. /\ seqpos[e] % WND_S = s % WND_S /\ s % WND_S \in Slot
          /\ sendbuf[e] \in [Slot -> Nat]
      BY <1>1, <1>3, SlotOf, CountTypes DEF TypeOK
    <3>3. ASSUME NEW x \in Acked(e) .. s
          PROVE  sendbuf'[e][x % WND_S] = x + 1
      <4>1. CASE x = s
        BY <1>2, <3>2, <4>1
      <4>2. CASE x # s
        <5>1. x \in Int /\ x \in Acked(e) .. s - 1 /\ x < s /\ s < x + WND_S /\ x < s + WND_S
          BY <1>3, <1>5, <4>2, SizeFacts
        <5>2. x % WND_S # s % WND_S /\ x % WND_S \in Slot
          BY <1>3, <5>1, SlotsApart, CountTypes
        <5>3. sendbuf[e][x % WND_S] = x + 1
          BY <1>1, <5>1 DEF Sending, s
        <5> QED BY <1>2, <3>2, <5>2, <5>3
      <4> QED BY <4>1, <4>2
    <3>4. Acked(e)' = Acked(e) /\ sent'[e] - 1 = s /\ Acked(e)' >= 0
      BY <1>2, <1>3, <1>5
    <3>5. seqpos'[e] = sent'[e] % SEQ_S
      BY <1>2, <3>1
    <3>6. \A x \in Acked(e)' .. sent'[e] - 1 : sendbuf'[e][x % WND_S] = x + 1
      BY <3>3, <3>4
    <3> QED BY <2>2, <3>4, <3>5, <3>6 DEF Sending
  <2> QED BY <2>1, <2>2
<1>8. /\ Peer(m) \in Endpoint
      /\ Transmitted(Peer(m)) \in Int /\ InOrder(Peer(m)) \in Int
      /\ Acked(Peer(m)) <= InOrder(m)
  BY PeerFacts, CountFacts, EndFacts
<1>9. c[m] \in Seq(Packet) /\ Drawn(c[m], c[m])
  BY DrawnSame DEF StreamInv
<1>10. Receiving(m)'
  BY <1>2, <1>6, <1>8, KeepReceiving
<1>11. DataPackets(c, m)'
  BY <1>2, <1>6, <1>8, <1>9, KeepDataPackets
<1>12. Acknowledgements(c, m)'
  BY <1>2, <1>6, <1>8, <1>9, KeepAcknowledgements
<1> QED BY <1>7, <1>10, <1>11, <1>12 DEF StreamOf

\* The payload at the rear of the receive window is handed over, and the
\* window moves on by one slot.
LEMMA StreamRead ==
  ASSUME Divides, NEW c, StreamInv(c), NEW e \in Endpoint, Read(e), NEW m \in Endpoint
  PROVE  StreamOf(c, m)'
<1> DEFINE r == rcvd[e]
<1>1. TypeOK /\ StreamOf(c, m) /\ Receiving(e) /\ DataPackets(c, e)
  BY DEF StreamInv, SendInv, StreamOf
<1>2. /\ UNCHANGED <<seqpos, wndpos, sendpos, sendbuf, recackpos, recbuf, sent>>
      /\ \A n \in Endpoint \ {e} : /\ rcvd'[n] = rcvd[n] /\ recwndpos'[n] = recwndpos[n]
                                    /\ recvalids'[n] = recvalids[n]
      /\ rcvd'[e] = r + 1 /\ recwndpos'[e] = Inc(recwndpos[e])
      /\ recvalids'[e] = [recvalids[e] EXCEPT ![recwndpos[e] % WND_S] = FALSE]
      /\ recvalids[e][recwndpos[e] % WND_S]
  BY <1>1 DEF Read, TypeOK, sendVars, HasReadData
<1>3. /\ r \in Nat /\ InOrder(e) \in Nat /\ r <= InOrder(e) /\ InOrder(e) <= r + WND_S
      /\ recwndpos[e] = r % SEQ_S /\ Inc(recackpos[e]) = InOrder(e) % SEQ_S
      /\ recwndpos[e] % WND_S = r % WND_S
      /\ Transmitted(Peer(e)) \in Nat /\ Acked(Peer(e)) \in Nat
      /\ Acked(Peer(e)) <= InOrder(e)
      /\ recvalids[e] \in [Slot -> BOOLEAN] /\ r % WND_S \in Slot
  <2>1. /\ r \in Nat /\ InOrder(e) \in Nat /\ r <= InOrder(e) /\ InOrder(e) <= r + WND_S
        /\ recwndpos[e] = r % SEQ_S /\ Inc(recackpos[e]) = InOrder(e) % SEQ_S
    BY CountFacts, PositionFacts
  <2>2. /\ Transmitted(Peer(e)) \in Nat /\ Acked(Peer(e)) \in Nat
        /\ Acked(Peer(e)) <= InOrder(e)
    BY CountFacts, EndFacts, PeerFacts
  <2>3. r \in Int
    BY <2>1
  <2>4. recwndpos[e] % WND_S = r % WND_S /\ r % WND_S \in Slot
    BY <2>1, <2>3, SlotOf, CountTypes
  <2> QED BY <1>1, <2>1, <2>2, <2>4 DEF TypeOK
<1>4. r \in Window(e) /\ Holds(e, r)
  BY <1>2, <1>3, SizeFacts DEF Window, Holds
<1>5. r < Transmitted(Peer(e)) /\ r < InOrder(e)
  BY <1>1, <1>3, <1>4 DEF Receiving
<1>6. InOrder(e)' = InOrder(e)
  <2>1. recwndpos'[e] = (r + 1) % SEQ_S /\ Inc(recackpos[e])' = InOrder(e) % SEQ_S
    BY <1>2, <1>3, CountInc DEF Inc
  <2>2. InOrder(e) - (r + 1) \in 0 .. SEQ_S - 1 /\ r + 1 \in Int
    BY <1>3, <1>5, SizeFacts
  <2>3. Ofs(InOrder(e) % SEQ_S, (r + 1) % SEQ_S) = InOrder(e) - (r + 1)
    BY <1>3, <2>2, CountOfs
  <2>4. InOrder(e)' = (r + 1) + (InOrder(e) - (r + 1))
    BY <1>2, <2>1, <2>3 DEF InOrder
  <2> QED BY <1>3, <2>4
<1>7. \A n \in Endpoint : /\ Acked(n)' = Acked(n) /\ Transmitted(n)' = Transmitted(n)
                          /\ InOrder(n)' = InOrder(n)
  <2>1. ASSUME NEW n \in Endpoint PROVE Acked(n)' = Acked(n) /\ Transmitted(n)' = Transmitted(n)
    BY <1>2, KeepCounts
  <2>2. ASSUME NEW n \in Endpoint \ {e} PROVE InOrder(n)' = InOrder(n)
    BY <1>2, KeepCounts
  <2> QED BY <1>6, <2>1, <2>2
<1>8. /\ Peer(m) \in Endpoint
      /\ Transmitted(Peer(m)) \in Int /\ InOrder(Peer(m)) \in Int
      /\ Acked(Peer(m)) <= InOrder(m)
      /\ c[m] \in Seq(Packet) /\ Drawn(c[m], c[m])
  <2>1. Peer(m) \in Endpoint /\ c[m] \in Seq(Packet)
    BY PeerFacts DEF StreamInv
  <2> QED BY <2>1, CountFacts, EndFacts, DrawnSame
\* What the window holds afterwards it held before.
<1>9. ASSUME NEW x \in r + 1 .. r + WND_S
      PROVE  /\ x \in Int /\ r < x /\ x <= r + WND_S
             /\ x # r + WND_S => /\ x \in Window(e)
                                 /\ recvalids'[e][x % WND_S] <=> Holds(e, x)
             /\ x = r + WND_S => ~recvalids'[e][x % WND_S]
  <2>1. x \in Int /\ r < x /\ x <= r + WND_S
    BY <1>3, SizeFacts
  <2>2. CASE x = r + WND_S
    BY <1>2, <1>3, <2>1, <2>2, SlotsApart
  <2>3. CASE x # r + WND_S
    <3>1. x < r + WND_S /\ r < x + WND_S /\ x # r
      BY <1>3, <2>1, <2>3, SizeFacts
    <3>2. x % WND_S # r % WND_S /\ x % WND_S \in Slot
      BY <1>3, <2>1, <3>1, SlotsApart, CountTypes
    <3>3. x \in Window(e)
      BY <1>3, <2>1, <3>1, SizeFacts DEF Window
    <3> QED BY <1>2, <1>3, <2>1, <2>3, <3>2, <3>3 DEF Holds
  <2> QED BY <2>1, <2>2, <2>3
<1>10. Window(e)' = r + 1 .. r + WND_S
  <2>1. r + 1 + WND_S - 1 = r + WND_S
    BY <1>3, SizeFacts
  <2> QED BY <1>2, <2>1 DEF Window
<1>11. Sending(m)'
  BY <1>1, <1>2, KeepSending DEF StreamOf
<1>12. Receiving(m)'
  <2>1. CASE m # e
    BY <1>2, <1>7, <1>8, <2>1, KeepReceiving
  <2>2. CASE m = e
    <3>1. recwndpos'[e] = rcvd'[e] % SEQ_S
      BY <1>2, <1>3, CountInc
    <3>2. /\ rcvd'[e] <= Transmitted(Peer(e))' /\ Acked(Peer(e))' <= InOrder(e)'
          /\ InOrder(e)' <= rcvd'[e] + WND_S
      BY <1>2, <1>3, <1>5, <1>7, PeerFacts, SizeFacts
    <3>3. ASSUME NEW x \in Window(e)'
          PROVE  /\ recvalids'[e][x % WND_S] =>
                      recbuf'[e][x % WND_S] = x + 1 /\ x < Transmitted(Peer(e))'
                 /\ x < InOrder(e)' => recvalids'[e][x % WND_S]
                 /\ x = InOrder(e)' => ~recvalids'[e][x % WND_S]
      <4>1. CASE x = r + WND_S
        BY <1>3, <1>6, <1>9, <1>10, <3>3, <4>1
      <4>2. CASE x # r + WND_S
        <5>1. x \in Window(e) /\ (recvalids'[e][x % WND_S] <=> Holds(e, x))
          BY <1>9, <1>10, <3>3, <4>2
        <5>2. recbuf' = recbuf /\ Transmitted(Peer(e))' = Transmitted(Peer(e))
          BY <1>2, <1>7, PeerFacts
        <5> QED BY <1>1, <1>6, <5>1, <5>2 DEF Receiving
      <4> QED BY <4>1, <4>2
    <3> QED BY <2>2, <3>1, <3>2, <3>3 DEF Receiving, Holds
  <2> QED BY <2>1, <2>2
<1>13. DataPackets(c, m)'
  <2>1. CASE m # e
    BY <1>2, <1>7, <1>8, <2>1, KeepDataPackets
  <2>2. CASE m = e
    <3>1. ASSUME NEW i \in DOMAIN c[e] PROVE Fits(c, e, i)'
      <4>1. SUFFICES ASSUME c[e][i].seqvalid PROVE Fits(c, e, i)'
        BY <1>2 DEF Fits
      <4>2. Fits(c, e, i)
        BY <1>1, <3>1 DEF DataPackets
      <4>3. c[e][i] \in Packet
        <5>1. c[e] \in Seq(Packet)
          BY DEF StreamInv
        <5> QED BY <3>1, <5>1
      <4>4. c[e][i].data \in Nat
        BY <4>3 DEF Packet
      <4>5. rcvd'[e] < c[e][i].data + WND_S
        BY <1>2, <1>4, <4>1, <4>2 DEF Fits
      <4>6. ASSUME NEW y \in Window(e)', recvalids'[e][y % WND_S]
            PROVE  y + 1 < c[e][i].data + WND_S
        BY <1>9, <1>10, <4>1, <4>2, <4>6 DEF Fits
      <4>7. Transmitted(Peer(e))' = Transmitted(Peer(e))
        BY <1>2, <1>7, PeerFacts
      <4> QED BY <4>1, <4>2, <4>5, <4>6, <4>7 DEF Fits, Holds
    <3>2. ASSUME NEW i \in DOMAIN c[e], NEW j \in 1 .. i PROVE InReach(c, e, j, i)'
      BY <1>1, <1>2, <3>2 DEF DataPackets, InReach
    <3> QED BY <1>2, <2>2, <3>1, <3>2 DEF DataPackets
  <2> QED BY <2>1, <2>2
<1>14. Acknowledgements(c, m)'
  BY <1>2, <1>7, <1>8, KeepAcknowledgements
<1> QED BY <1>11, <1>12, <1>13, <1>14 DEF StreamOf

\* The packet GetSendData makes: its acknowledgement is the newest there is,
\* its data a transmitted, unacknowledged payload.
LEMMA Transmits ==
  ASSUME Divides, NEW c, StreamInv(c), NEW e \in Endpoint, GetSendData(e)
  PROVE  /\ \A n \in Endpoint \ {e} : sendpos'[n] = sendpos[n]
         /\ Transmitted(e)' \in Nat /\ Transmitted(e) <= Transmitted(e)'
         /\ Transmitted(e)' <= sent[e]
         /\ \/ chan' = chan
            \/ \E p \in Packet :
                 /\ chan' = [chan EXCEPT ![Peer(e)] = Append(@, p)]
                 /\ p.ack = recackpos[e]
                 /\ p.seqvalid => /\ p.data - 1 \in Acked(e) .. Transmitted(e)' - 1
                                  /\ p.seq = (p.data - 1) % SEQ_S
<1>1. TypeOK /\ SendSide(e) /\ Sending(e)
  BY DEF StreamInv, SendInv, StreamOf
<1>2. /\ seqpos[e] \in SeqNo /\ wndpos[e] \in SeqNo /\ sendpos[e] \in SeqNo
      /\ sendbuf[e] \in [Slot -> Nat]
  BY <1>1 DEF TypeOK
<1>3. /\ sent[e] \in Nat /\ Acked(e) \in Nat /\ Transmitted(e) \in Nat
      /\ Acked(e) <= Transmitted(e) /\ Transmitted(e) <= sent[e] /\ sent[e] <= Acked(e) + WND_S
      /\ seqpos[e] = sent[e] % SEQ_S /\ wndpos[e] = Acked(e) % SEQ_S
      /\ sendpos[e] = Transmitted(e) % SEQ_S
  BY CountFacts, PositionFacts
<1>4. seqpos' = seqpos /\ wndpos' = wndpos /\ sent' = sent
  BY DEF GetSendData, history
\* A stored payload, packed at the position of its count.
<1>5. ASSUME NEW x \in Acked(e) .. sent[e] - 1, NEW pos \in SeqNo, pos = x % SEQ_S
      PROVE  /\ DataPacket(e, pos) \in Packet /\ DataPacket(e, pos).ack = recackpos[e]
             /\ DataPacket(e, pos).data - 1 = x /\ DataPacket(e, pos).seq = x % SEQ_S
  <2>1. x \in Int
    BY <1>3
  <2>2. pos % WND_S = x % WND_S
    BY <1>5, <2>1, SlotOf
  <2>3. sendbuf[e][pos % WND_S] = x + 1
    BY <1>1, <1>5, <2>2 DEF Sending
  <2>4. DataPacket(e, pos) \in Packet
    BY <1>1, PacketTypes
  <2> QED BY <1>5, <2>1, <2>3, <2>4 DEF DataPacket
<1>6. CASE Resend(e)
  <2>1. sendpos' = sendpos /\ Transmitted(e)' = Transmitted(e)
    BY <1>4, <1>6, KeepCounts DEF Resend
  <2>2. CASE seqpos[e] = wndpos[e]
    BY <1>3, <1>6, <2>1, <2>2 DEF Resend
  <2>3. CASE seqpos[e] # wndpos[e]
    <3>1. wndpos[e] # sendpos[e]
      BY <1>1, <1>6 DEF Resend, SendSide, T!Armed
    <3>2. Acked(e) # Transmitted(e)
      BY <1>3, <3>1
    <3>3. Acked(e) \in Acked(e) .. sent[e] - 1 /\ Acked(e) \in Acked(e) .. Transmitted(e) - 1
      BY <1>3, <3>2
    <3>4. chan' = [chan EXCEPT ![Peer(e)] = Append(@, DataPacket(e, wndpos[e]))]
      BY <1>6, <2>3 DEF Resend, Transmit, ResendPos
    <3>5. /\ DataPacket(e, wndpos[e]) \in Packet /\ DataPacket(e, wndpos[e]).ack = recackpos[e]
          /\ DataPacket(e, wndpos[e]).data - 1 = Acked(e)
          /\ DataPacket(e, wndpos[e]).seq = Acked(e) % SEQ_S
      BY <1>2, <1>3, <1>5, <3>3
    <3> DEFINE q == DataPacket(e, wndpos[e])
    <3>6. /\ q.data - 1 \in Acked(e) .. Transmitted(e)' - 1
          /\ q.seq = (q.data - 1) % SEQ_S
      BY <2>1, <3>3, <3>5
    <3>7. q \in Packet /\ q.ack = recackpos[e] /\ chan' = [chan EXCEPT ![Peer(e)] = Append(@, q)]
      BY <3>4, <3>5
    <3> HIDE DEF q
    <3>8. \E p \in Packet :
            /\ chan' = [chan EXCEPT ![Peer(e)] = Append(@, p)]
            /\ p.ack = recackpos[e]
            /\ p.seqvalid => /\ p.data - 1 \in Acked(e) .. Transmitted(e)' - 1
                             /\ p.seq = (p.data - 1) % SEQ_S
      BY <3>6, <3>7
    <3>9. /\ \A n \in Endpoint \ {e} : sendpos'[n] = sendpos[n]
          /\ Transmitted(e)' \in Nat /\ Transmitted(e) <= Transmitted(e)'
          /\ Transmitted(e)' <= sent[e]
      BY <1>3, <2>1
    <3> QED BY <3>8, <3>9
  <2> QED BY <2>2, <2>3
<1>7. CASE SendNew(e)
  <2>1. /\ sendpos' = [sendpos EXCEPT ![e] = Inc(@)]
        /\ chan' = [chan EXCEPT ![Peer(e)] = Append(@, DataPacket(e, sendpos[e]))]
        /\ Ofs(seqpos[e], sendpos[e]) > 0
    BY <1>7 DEF SendNew, Transmit, HasUnsent
  <2>2. Transmitted(e) < sent[e]
    <3>1. CASE Transmitted(e) = sent[e]
      <4>1. seqpos[e] = sendpos[e]
        BY <1>3, <3>1
      <4> QED BY <1>2, <2>1, <4>1, OfsZero
    <3> QED BY <1>3, <3>1
  <2>3. Ofs(sendpos[e], wndpos[e]) \in Nat /\ Ofs(sendpos[e], wndpos[e]) < SEQ_S - 1
    <3>1. Ofs(sendpos[e], wndpos[e]) = Transmitted(e) - Acked(e)
      <4>1. Ofs(sendpos[e], wndpos[e]) \in Nat
        BY <1>2, OfsZero
      <4> QED BY <1>3, <4>1 DEF Transmitted
    <3> QED BY <1>3, <2>2, <3>1, SizeFacts
  <2>4. Transmitted(e)' = Transmitted(e) + 1
    <3>1. sendpos'[e] = Inc(sendpos[e])
      BY <1>1, <2>1 DEF TypeOK
    <3>2. Ofs(Inc(sendpos[e]), wndpos[e]) = Ofs(sendpos[e], wndpos[e]) + 1
      BY <1>2, <2>3, OfsInc
    <3>3. Acked(e)' = Acked(e)
      BY <1>4, KeepCounts
    <3>4. Transmitted(e)' = Acked(e) + (Ofs(sendpos[e], wndpos[e]) + 1)
      BY <1>4, <3>1, <3>2, <3>3 DEF Transmitted
    <3> QED BY <1>3, <2>3, <3>4 DEF Transmitted
  <2>5. Transmitted(e) \in Acked(e) .. sent[e] - 1 /\ Transmitted(e) \in Acked(e) .. Transmitted(e)' - 1
    BY <1>3, <2>2, <2>4
  <2>6. /\ DataPacket(e, sendpos[e]) \in Packet /\ DataPacket(e, sendpos[e]).ack = recackpos[e]
        /\ DataPacket(e, sendpos[e]).data - 1 = Transmitted(e)
        /\ DataPacket(e, sendpos[e]).seq = Transmitted(e) % SEQ_S
    BY <1>2, <1>3, <1>5, <2>5
  <2>7. \A n \in Endpoint \ {e} : sendpos'[n] = sendpos[n]
    BY <1>1, <2>1 DEF TypeOK
  <2>8. Transmitted(e)' \in Nat /\ Transmitted(e) <= Transmitted(e)' /\ Transmitted(e)' <= sent[e]
    BY <1>3, <2>2, <2>4
  <2> QED BY <2>1, <2>5, <2>6, <2>7, <2>8
<1>8. CASE SendAck(e)
  <2>1. sendpos' = sendpos /\ Transmitted(e)' = Transmitted(e)
    BY <1>4, <1>8, KeepCounts DEF SendAck
  <2>2. chan' = [chan EXCEPT ![Peer(e)] = Append(@, AckPacket(e))]
    BY <1>8 DEF SendAck, Transmit
  <2>3. AckPacket(e) \in Packet /\ AckPacket(e).ack = recackpos[e] /\ ~AckPacket(e).seqvalid
    BY <1>1, PacketTypes DEF AckPacket
  <2> DEFINE q == AckPacket(e)
  <2>4. /\ q \in Packet /\ q.ack = recackpos[e] /\ ~q.seqvalid
        /\ chan' = [chan EXCEPT ![Peer(e)] = Append(@, q)]
    BY <2>2, <2>3
  <2> HIDE DEF q
  <2>5. \E p \in Packet :
          /\ chan' = [chan EXCEPT ![Peer(e)] = Append(@, p)]
          /\ p.ack = recackpos[e]
          /\ p.seqvalid => /\ p.data - 1 \in Acked(e) .. Transmitted(e)' - 1
                           /\ p.seq = (p.data - 1) % SEQ_S
    BY <2>4
  <2>6. /\ \A n \in Endpoint \ {e} : sendpos'[n] = sendpos[n]
        /\ Transmitted(e)' \in Nat /\ Transmitted(e) <= Transmitted(e)'
        /\ Transmitted(e)' <= sent[e]
    BY <1>3, <2>1
  <2> QED BY <2>5, <2>6
<1> QED BY <1>6, <1>7, <1>8 DEF GetSendData

\* c is sent what the channels are sent.
Follows(c, d) ==
  /\ chan' = chan => d = c
  /\ \A n \in Endpoint, p \in Packet :
       chan' = [chan EXCEPT ![n] = Append(@, p)] => d = [c EXCEPT ![n] = Append(@, p)]

LEMMA StreamGetSendData ==
  ASSUME Divides, NEW c, NEW d, StreamInv(c), d \in [Endpoint -> Seq(Packet)], NEW e \in Endpoint, GetSendData(e),
         Follows(c, d), NEW m \in Endpoint
  PROVE  StreamOf(d, m)'
<1>1. /\ TypeOK /\ StreamOf(c, m) /\ Receiving(m) /\ DataPackets(c, m) /\ Acknowledgements(c, m)
      /\ Peer(m) \in Endpoint /\ Peer(Peer(m)) = m
  BY PeerFacts DEF StreamInv, SendInv, StreamOf
<1>2. /\ UNCHANGED <<seqpos, wndpos, sendbuf, recwndpos, recackpos, recbuf, recvalids, sent, rcvd>>
      /\ \A n \in Endpoint \ {e} : sendpos'[n] = sendpos[n]
      /\ Transmitted(e)' \in Nat /\ Transmitted(e) <= Transmitted(e)'
  BY Transmits DEF GetSendData, history
<1>3. /\ \A n \in Endpoint : Acked(n)' = Acked(n) /\ InOrder(n)' = InOrder(n)
      /\ Transmitted(Peer(m))' \in Nat /\ Transmitted(Peer(m)) <= Transmitted(Peer(m))'
  <2>1. \A n \in Endpoint : Acked(n)' = Acked(n) /\ InOrder(n)' = InOrder(n)
    BY <1>2, KeepCounts
  <2>2. CASE Peer(m) = e
    BY <1>2, <2>1, <2>2
  <2>3. CASE Peer(m) # e
    <3>1. Transmitted(Peer(m))' = Transmitted(Peer(m)) /\ Transmitted(Peer(m)) \in Nat
      BY <1>1, <1>2, <2>3, KeepCounts, CountFacts
    <3> QED BY <2>1, <3>1
  <2> QED BY <2>2, <2>3
<1>4. /\ Transmitted(Peer(m)) \in Nat /\ InOrder(Peer(m)) \in Nat /\ Acked(m) \in Nat
      /\ Acked(Peer(m)) <= InOrder(m) /\ Acked(Peer(m)) \in Nat /\ InOrder(m) \in Nat
      /\ rcvd[m] \in Nat /\ c[m] \in Seq(Packet) /\ d[m] \in Seq(Packet)
      /\ WND_S \in Nat \ {0}
  BY <1>1, CountFacts, EndFacts, SizeFacts DEF StreamInv
<1>5. Sending(m)'
  BY <1>1, <1>2, KeepSending DEF StreamOf
<1>6. Receiving(m)'
  BY <1>2, <1>3, <1>4, <1>1, KeepReceiving
<1>7. CASE d[m] = c[m]
  <2>1. Drawn(d[m], c[m])
    BY <1>4, <1>7, DrawnSame
  <2>2. DataPackets(d, m)'
    BY <1>2, <1>3, <1>4, <2>1, KeepDataPackets
  <2>3. Acknowledgements(d, m)'
    BY <1>1, <1>2, <1>3, <1>4, <2>1, KeepAcknowledgements
  <2> QED BY <1>5, <1>6, <2>2, <2>3 DEF StreamOf
<1>8. CASE d[m] # c[m]
  <2>1. /\ e = Peer(m)
        /\ \E p \in Packet :
             /\ d[m] = Append(c[m], p)
             /\ p.ack = recackpos[e]
             /\ p.seqvalid => /\ p.data - 1 \in Acked(e) .. Transmitted(e)' - 1
                              /\ p.seq = (p.data - 1) % SEQ_S
    <3>1. d # c
      BY <1>8
    <3>2. PICK p \in Packet :
             /\ d = [c EXCEPT ![Peer(e)] = Append(@, p)]
             /\ p.ack = recackpos[e]
             /\ p.seqvalid => /\ p.data - 1 \in Acked(e) .. Transmitted(e)' - 1
                              /\ p.seq = (p.data - 1) % SEQ_S
      <4>1. chan' # chan
        BY <3>1 DEF Follows
      <4>2. PICK p \in Packet :
               /\ chan' = [chan EXCEPT ![Peer(e)] = Append(@, p)]
               /\ p.ack = recackpos[e]
               /\ p.seqvalid => /\ p.data - 1 \in Acked(e) .. Transmitted(e)' - 1
                                /\ p.seq = (p.data - 1) % SEQ_S
        BY <4>1, Transmits
      <4>3. d = [c EXCEPT ![Peer(e)] = Append(@, p)]
        BY <4>2, PeerFacts DEF Follows
      <4> QED BY <4>2, <4>3
    <3>3. m = Peer(e)
      BY <1>1, <1>8, <3>2, PeerFacts DEF StreamInv
    <3>4. e = Peer(m) /\ d[m] = Append(c[m], p)
      BY <1>1, <3>2, <3>3, PeerFacts DEF StreamInv
    <3> QED BY <3>2, <3>4
  <2>2. PICK p \in Packet :
             /\ d[m] = Append(c[m], p)
             /\ p.ack = recackpos[e]
             /\ p.seqvalid => /\ p.data - 1 \in Acked(e) .. Transmitted(e)' - 1
                              /\ p.seq = (p.data - 1) % SEQ_S
    BY <2>1
  <2>3. PICK l \in Nat :
          /\ DOMAIN c[m] = 1 .. l /\ DOMAIN d[m] = 1 .. l + 1
          /\ \A i \in 1 .. l : d[m][i] = c[m][i] /\ c[m][i] \in Packet
          /\ d[m][l + 1] = p
    <3>1. /\ Len(c[m]) \in Nat
          /\ DOMAIN c[m] = 1 .. Len(c[m]) /\ DOMAIN d[m] = 1 .. Len(c[m]) + 1
          /\ \A i \in 1 .. Len(c[m]) : d[m][i] = c[m][i] /\ c[m][i] \in Packet
          /\ d[m][Len(c[m]) + 1] = p
      BY <1>4, <2>2
    <3> QED BY <3>1
  \* The newest payload under way lies at most a window behind all others.
  <2>4. /\ Transmitted(e) \in Nat /\ Acked(e) \in Nat
        /\ Transmitted(e) <= Acked(e) + WND_S /\ rcvd[m] <= Transmitted(e)
        /\ Transmitted(Peer(m))' = Transmitted(e)'
    <3>1. /\ Transmitted(e) \in Nat /\ Acked(e) \in Nat /\ sent[e] \in Nat
          /\ Transmitted(e) <= sent[e] /\ sent[e] <= Acked(e) + WND_S
      BY CountFacts
    <3>2. rcvd[m] <= Transmitted(e)
      BY <2>1, EndFacts
    <3> QED BY <1>4, <2>1, <3>1, <3>2
  <2>5. /\ p.data \in Nat
        /\ p.seqvalid => /\ p.data >= 1 /\ p.data <= Transmitted(e)'
                         /\ Transmitted(e) < p.data + WND_S
    <3>1. p.data \in Nat
      BY DEF Packet
    <3>2. p.seqvalid => Acked(e) <= p.data - 1 /\ p.data - 1 <= Transmitted(e)' - 1
      BY <1>2, <2>2, <2>4
    <3>3. Transmitted(e)' \in Int /\ WND_S \in Int
      BY <1>2, <1>4, <2>4
    <3> QED BY <2>4, <3>1, <3>2, <3>3
  <2>6. ASSUME NEW i \in 1 .. l PROVE Fits(d, m, i)' /\ \A j \in 1 .. i : InReach(d, m, j, i)'
    <3>1. Fits(c, m, i) /\ c[m][i] \in Packet /\ d[m][i] = c[m][i]
      BY <1>1, <2>3, <2>6 DEF DataPackets
    <3>2. c[m][i].data \in Nat
      BY <3>1 DEF Packet
    <3>3. Window(m)' = Window(m)
      BY <1>2 DEF Window
    <3>4. c[m][i].seqvalid => c[m][i].data <= Transmitted(Peer(m))'
      <4>1. c[m][i].seqvalid => c[m][i].data <= Transmitted(Peer(m))
        BY <3>1 DEF Fits
      <4> QED BY <1>3, <1>4, <3>2, <4>1
    <3>5. Fits(d, m, i)'
      BY <1>2, <3>1, <3>3, <3>4 DEF Fits, Holds
    <3>6. ASSUME NEW j \in 1 .. i PROVE InReach(d, m, j, i)'
      <4>1. j \in 1 .. l
        BY <2>3, <2>6
      <4>2. InReach(c, m, j, i)
        BY <1>1, <2>3, <2>6 DEF DataPackets
      <4> QED BY <2>3, <4>1, <4>2 DEF InReach
    <3> QED BY <3>5, <3>6
  <2>7. Fits(d, m, l + 1)'
    <3>1. SUFFICES ASSUME p.seqvalid PROVE Fits(d, m, l + 1)'
      BY <2>3 DEF Fits
    <3>2. /\ p.data >= 1 /\ p.data <= Transmitted(Peer(m))'
          /\ p.seq = (p.data - 1) % SEQ_S
          /\ rcvd'[m] < p.data + WND_S
      <4>1. rcvd[m] <= Transmitted(e) /\ Transmitted(e) < p.data + WND_S /\ p.data + WND_S \in Int
        BY <1>4, <2>4, <2>5, <3>1
      <4>2. rcvd'[m] < p.data + WND_S
        BY <1>2, <1>4, <2>4, <4>1
      <4> QED BY <2>2, <2>4, <2>5, <3>1, <4>2
    <3>3. ASSUME NEW y \in Window(m), Holds(m, y) PROVE y + 1 < p.data + WND_S
      <4>1. y < Transmitted(e)
        BY <1>1, <2>1, <3>3 DEF Receiving
      <4>2. y \in Int
        BY <1>4, WindowRange
      <4> QED BY <1>4, <2>4, <2>5, <3>1, <4>1, <4>2
    <3>4. Window(m)' = Window(m)
      BY <1>2 DEF Window
    <3> QED BY <1>2, <2>3, <3>2, <3>3, <3>4 DEF Fits, Holds
  <2>8. ASSUME NEW j \in 1 .. l + 1 PROVE InReach(d, m, j, l + 1)'
    <3>1. SUFFICES ASSUME p.seqvalid, d[m][j].seqvalid
                   PROVE  d[m][j].data < p.data + WND_S
      BY <2>3 DEF InReach
    <3>2. CASE j = l + 1
      BY <1>4, <2>3, <2>5, <3>2
    <3>3. CASE j # l + 1
      <4>1. j \in 1 .. l
        BY <2>3, <3>3
      <4>2. Fits(c, m, j) /\ d[m][j] = c[m][j] /\ c[m][j] \in Packet
        BY <1>1, <2>3, <4>1 DEF DataPackets
      <4>3. c[m][j].data <= Transmitted(e) /\ c[m][j].data \in Nat
        BY <2>1, <3>1, <4>2 DEF Fits, Packet
      <4>4. Transmitted(e) < p.data + WND_S /\ p.data + WND_S \in Int
        BY <1>4, <2>5, <3>1
      <4> QED BY <2>4, <4>2, <4>3, <4>4
    <3> QED BY <3>2, <3>3
  <2>9. DataPackets(d, m)'
    <3>1. ASSUME NEW i \in 1 .. l + 1 PROVE Fits(d, m, i)' /\ \A j \in 1 .. i : InReach(d, m, j, i)'
      <4>1. CASE i \in 1 .. l
        BY <2>6, <4>1
      <4>2. CASE i = l + 1
        BY <2>7, <2>8, <4>2
      <4> QED BY <2>3, <4>1, <4>2
    <3> QED BY <2>3, <3>1 DEF DataPackets
  <2>10. /\ \A i \in 1 .. l : Told(d, m, i)' = Told(c, m, i) /\ Told(c, m, i) \in Int
         /\ Told(d, m, l + 1)' = InOrder(e) - Acked(m)
    <3>1. ASSUME NEW i \in 1 .. l PROVE Told(d, m, i)' = Told(c, m, i) /\ Told(c, m, i) \in Int
      <4>1. d[m][i] = c[m][i] /\ c[m][i].ack \in SeqNo
        BY <2>3 DEF Packet
      <4>2. Inc(c[m][i].ack) \in SeqNo /\ wndpos[m] \in SeqNo
        BY <1>1, <4>1, PositionTypes DEF TypeOK
      <4>3. Ofs(Inc(c[m][i].ack), wndpos[m]) \in Nat
        BY <4>2, OfsZero
      <4> QED BY <1>2, <4>1, <4>3 DEF Told
    <3>2. Told(d, m, l + 1)' = Ofs(Inc(recackpos[e]), wndpos[m])
      BY <1>2, <2>2, <2>3 DEF Told
    <3>3. Ofs(Inc(recackpos[e]), wndpos[m]) = InOrder(e) - Acked(m)
      BY <1>1, <2>1, EndFacts
    <3> QED BY <3>1, <3>2, <3>3
  <2>11. /\ \A i \in 1 .. l : /\ Told(c, m, i) <= InOrder(e) - Acked(m)
                              /\ \A j \in 1 .. i : Told(c, m, j) <= Told(c, m, i)
         /\ InOrder(Peer(m))' - Acked(m)' = InOrder(e) - Acked(m)
         /\ InOrder(e) - Acked(m) \in Int
    <3>1. \A i \in 1 .. l : /\ Told(c, m, i) <= InOrder(Peer(m)) - Acked(m)
                            /\ \A j \in 1 .. i : Told(c, m, j) <= Told(c, m, i)
      BY <1>1, <2>3 DEF Acknowledgements
    <3>2. InOrder(Peer(m))' = InOrder(Peer(m)) /\ Acked(m)' = Acked(m)
      BY <1>1, <1>3
    <3>3. InOrder(e) - Acked(m) \in Int
      BY <1>4, <2>1
    <3> QED BY <2>1, <3>1, <3>2, <3>3
  <2>12. Acknowledgements(d, m)'
    <3>1. ASSUME NEW i \in 1 .. l + 1
          PROVE  /\ Told(d, m, i)' <= InOrder(Peer(m))' - Acked(m)'
                 /\ \A j \in 1 .. i : Told(d, m, j)' <= Told(d, m, i)'
      <4>1. CASE i \in 1 .. l
        <5>1. \A j \in 1 .. i : j \in 1 .. l
          BY <2>3, <4>1
        <5> QED BY <2>10, <2>11, <4>1, <5>1
      <4>2. CASE i = l + 1
        <5>1. \A j \in 1 .. i : j \in 1 .. l \/ j = l + 1
          BY <2>3, <4>2
        <5> QED BY <2>10, <2>11, <4>2, <5>1
      <4> QED BY <2>3, <4>1, <4>2
    <3> QED BY <2>3, <3>1 DEF Acknowledgements
  <2> QED BY <1>5, <1>6, <2>9, <2>12 DEF StreamOf
<1> QED BY <1>7, <1>8

LEMMA OfsModulo ==
  ASSUME NEW y \in Int, NEW b \in SeqNo
  PROVE  Ofs(y, b) = Ofs(y % SEQ_S, b)
<1>1. SEQ_S \in Nat \ {0} /\ b \in Int /\ SEQ_S - b \in Int
  BY SizeFacts DEF SeqNo
<1>2. ((y % SEQ_S) + (SEQ_S - b)) % SEQ_S = (y + (SEQ_S - b)) % SEQ_S
  BY <1>1, ModAdd
<1>3. (y % SEQ_S) \in Int
  BY <1>1, ModRange
<1>4. /\ y + (SEQ_S - b) = SEQ_S + y - b
      /\ (y % SEQ_S) + (SEQ_S - b) = SEQ_S + (y % SEQ_S) - b
  BY <1>1, <1>3
<1> QED BY <1>2, <1>4 DEF Ofs

\* The first packet of c is received, and leaves it.
Arrives(c, e) == c[e] # <<>> /\ ReceivePacket(e, c[e][1])
Left(c, d, e) == d = [c EXCEPT ![e] = Tail(@)]

\* A data packet the window accepts is one of the payloads it waits for: those
\* under way lie less than a window behind it and less than two ahead.
LEMMA AcceptedInWindow ==
  ASSUME Divides, NEW c, StreamInv(c), NEW e \in Endpoint, c[e] # <<>>, Accepts(e, c[e][1])
  PROVE  /\ c[e][1].data - 1 \in Window(e)
         /\ c[e][1].seq % WND_S = (c[e][1].data - 1) % WND_S
         /\ c[e][1].data - 1 < Transmitted(Peer(e))
<1> DEFINE x == c[e][1].data - 1
           r == rcvd[e]
<1>1. /\ TypeOK /\ DataPackets(c, e) /\ Peer(e) \in Endpoint
      /\ c[e] \in Seq(Packet)
  BY PeerFacts DEF StreamInv, SendInv, StreamOf
<1>2. 1 \in DOMAIN c[e] /\ c[e][1] \in Packet
  BY <1>1
<1>3. Fits(c, e, 1) /\ c[e][1].seqvalid /\ c[e][1].data \in Nat
  BY <1>1, <1>2 DEF DataPackets, Accepts, Packet
<1>4. /\ r \in Nat /\ InOrder(e) \in Nat /\ InOrder(e) <= r + WND_S
      /\ recwndpos[e] = r % SEQ_S
      /\ Acked(Peer(e)) \in Nat /\ Transmitted(Peer(e)) \in Nat /\ sent[Peer(e)] \in Nat
      /\ Transmitted(Peer(e)) <= sent[Peer(e)] /\ sent[Peer(e)] <= Acked(Peer(e)) + WND_S
      /\ Acked(Peer(e)) <= InOrder(e)
      /\ WND_S \in Nat /\ SEQ_S \in Nat /\ SEQ_S >= 2 * WND_S
  BY <1>1, CountFacts, PositionFacts, EndFacts, SizeFacts
<1>5. /\ x \in Int /\ x < Transmitted(Peer(e)) /\ c[e][1].seq = x % SEQ_S
      /\ r <= x + WND_S
  <2>1. /\ c[e][1].data <= Transmitted(Peer(e))
        /\ c[e][1].seq = (c[e][1].data - 1) % SEQ_S
        /\ rcvd[e] < c[e][1].data + WND_S
    BY <1>3 DEF Fits
  <2>2. x \in Int /\ x < Transmitted(Peer(e)) /\ r <= x + WND_S
    <3> DEFINE d == c[e][1].data
    <3>1. d \in Nat /\ d <= Transmitted(Peer(e)) /\ r < d + WND_S /\ x = d - 1
      BY <1>3, <2>1
    <3> HIDE DEF d, x
    <3> QED BY <1>4, <3>1
  <2>3. c[e][1].seq = x % SEQ_S
    BY <2>1
  <2> QED BY <2>2, <2>3
<1>6. Ofs(x % SEQ_S, r % SEQ_S) < WND_S
  BY <1>4, <1>5 DEF Accepts
<1>7. c[e][1].seq % WND_S = x % WND_S
  BY <1>5, SlotOf
<1> HIDE DEF x, r
<1>8. x < r + 2 * WND_S
  BY <1>4, <1>5
<1>9. x \in r .. r + WND_S - 1
  <2>1. CASE x < r
    <3>1. r - x \in 1 .. SEQ_S /\ r \in Int
      <4>1. x \in Int /\ r \in Int /\ WND_S \in Int /\ SEQ_S \in Int /\ SEQ_S >= 2 * WND_S
            /\ r <= x + WND_S /\ WND_S >= 0
        BY <1>4, <1>5
      <4> QED BY <2>1, <4>1
    <3>2. Ofs(x % SEQ_S, r % SEQ_S) = SEQ_S + x - r
      BY <1>5, <3>1, CountOfs
    <3> QED BY <1>4, <1>5, <1>6, <3>2
  <2>2. CASE ~(x < r)
    <3>1. x - r \in 0 .. SEQ_S - 1 /\ r \in Int
      <4>1. x \in Int /\ r \in Int /\ WND_S \in Int /\ SEQ_S \in Int /\ SEQ_S >= 2 * WND_S
        BY <1>4, <1>5
      <4> QED BY <1>8, <2>2, <4>1
    <3>2. Ofs(x % SEQ_S, r % SEQ_S) = x - r
      BY <1>5, <3>1, CountOfs
    <3> QED BY <1>4, <1>5, <1>6, <2>2, <3>2
  <2> QED BY <2>1, <2>2
<1> QED BY <1>5, <1>7, <1>9 DEF Window, x, r

\* A step of the loop from the acknowledge position looks at the next count.
LEMMA AckStepAt ==
  ASSUME Divides, NEW c, StreamInv(c), NEW e \in Endpoint, NEW valids, NEW i \in Nat, i >= 1,
         InOrder(e) + i - 1 - rcvd[e] \in 0 .. SEQ_S - 1
  PROVE  AckStep(valids, recackpos[e], recwndpos[e], i)
           <=> /\ valids[(InOrder(e) + i - 1) % WND_S]
               /\ InOrder(e) + i - 1 < rcvd[e] + WND_S
<1> DEFINE y == InOrder(e) + i - 1
           a == recackpos[e]
<1>1. /\ InOrder(e) \in Nat /\ rcvd[e] \in Nat
      /\ (a + 1) % SEQ_S = InOrder(e) % SEQ_S /\ recwndpos[e] = rcvd[e] % SEQ_S
  BY CountFacts, PositionFacts DEF Inc
<1>2. a \in SeqNo /\ recwndpos[e] \in SeqNo /\ SEQ_S \in Nat \ {0} /\ WND_S \in Int
  BY SizeFacts DEF StreamInv, SendInv, TypeOK
<1>3. a \in Int /\ a + 1 \in Int /\ a + i \in Int /\ i - 1 \in Int /\ y \in Int
  BY <1>1, <1>2 DEF SeqNo
<1>4. (a + i) % SEQ_S = y % SEQ_S
  <2>1. (((a + 1) % SEQ_S) + (i - 1)) % SEQ_S = (a + 1 + (i - 1)) % SEQ_S
    BY <1>2, <1>3, ModAdd
  <2>2. InOrder(e) \in Int
    BY <1>1
  <2>3. ((InOrder(e) % SEQ_S) + (i - 1)) % SEQ_S = (InOrder(e) + (i - 1)) % SEQ_S
    BY <1>2, <1>3, <2>2, ModAdd
  <2>4. a + 1 + (i - 1) = a + i /\ InOrder(e) + (i - 1) = y
    BY <1>1, <1>3
  <2> QED BY <1>1, <2>1, <2>3, <2>4
<1>5. ((a + i) % SEQ_S) % WND_S = y % WND_S
  BY <1>3, <1>4, SlotOf
<1>6. Ofs(a + i, recwndpos[e]) = y - rcvd[e]
  <2>1. Ofs(a + i, recwndpos[e]) = Ofs(y % SEQ_S, rcvd[e] % SEQ_S)
    BY <1>1, <1>2, <1>3, <1>4, OfsModulo
  <2>2. rcvd[e] \in Int /\ y - rcvd[e] \in 0 .. SEQ_S - 1
    BY <1>1
  <2> QED BY <1>3, <2>1, <2>2, CountOfs
<1>7. Ofs(a + i, recwndpos[e]) < WND_S <=> y < rcvd[e] + WND_S
  BY <1>1, <1>2, <1>3, <1>6
<1> QED BY <1>5, <1>7 DEF AckStep

\* What the data of a packet does: afterwards the window holds what it held
\* and perhaps this payload, and the acknowledge position has moved over what
\* has come into order.
LEMMA Takes ==
  ASSUME Divides, NEW c, StreamInv(c), NEW e \in Endpoint, Arrives(c, e)
  PROVE  /\ \A n \in Endpoint \ {e} : /\ recbuf'[n] = recbuf[n] /\ recvalids'[n] = recvalids[n]
                                      /\ recackpos'[n] = recackpos[n]
         /\ InOrder(e)' \in Nat /\ InOrder(e) <= InOrder(e)' /\ InOrder(e)' <= rcvd[e] + WND_S
         /\ \A x \in Window(e) :
              /\ recvalids'[e][x % WND_S] =>
                   /\ recbuf'[e][x % WND_S] = x + 1 /\ x < Transmitted(Peer(e))
                   /\ Holds(e, x) \/ (c[e][1].seqvalid /\ x + 1 = c[e][1].data)
              /\ x < InOrder(e)' => recvalids'[e][x % WND_S]
              /\ x = InOrder(e)' => ~recvalids'[e][x % WND_S]
<1> DEFINE p == c[e][1]
           r == rcvd[e]
           I == InOrder(e)
<1>1. /\ TypeOK /\ Receiving(e) /\ c[e] \in Seq(Packet) /\ c[e] # <<>>
      /\ ReceiveData(e, p)
      /\ rcvd' = rcvd /\ recwndpos' = recwndpos
  BY DEF StreamInv, SendInv, StreamOf, Arrives, ReceivePacket, history
<1>2. /\ r \in Nat /\ I \in Nat /\ r <= I /\ I <= r + WND_S
      /\ Inc(recackpos[e]) = I % SEQ_S /\ recwndpos[e] = r % SEQ_S
      /\ WND_S \in Nat \ {0} /\ SEQ_S \in Nat /\ SEQ_S >= 2 * WND_S
      /\ p \in Packet
  BY <1>1, CountFacts, PositionFacts, SizeFacts
<1>3. CASE ~Accepts(e, p)
  <2>1. recbuf' = recbuf /\ recvalids' = recvalids /\ recackpos' = recackpos
    BY <1>1, <1>3 DEF ReceiveData
  <2>2. InOrder(e)' = InOrder(e)
    BY <1>1, <2>1, KeepCounts
  <2>3. \A x \in Window(e) :
          /\ recvalids'[e][x % WND_S] =>
               /\ recbuf'[e][x % WND_S] = x + 1 /\ x < Transmitted(Peer(e))
               /\ Holds(e, x)
          /\ x < InOrder(e)' => recvalids'[e][x % WND_S]
          /\ x = InOrder(e)' => ~recvalids'[e][x % WND_S]
    BY <1>1, <2>1, <2>2 DEF Receiving, Holds
  <2> QED BY <1>2, <2>1, <2>2, <2>3
<1>4. CASE Accepts(e, p)
  <2> DEFINE X == p.data - 1
             valids == [recvalids[e] EXCEPT ![p.seq % WND_S] = TRUE]
  <2>1. /\ X \in Window(e) /\ p.seq % WND_S = X % WND_S /\ X < Transmitted(Peer(e))
        /\ p.seqvalid
    BY <1>1, <1>4, AcceptedInWindow DEF Accepts
  <2>2. /\ recbuf' = [recbuf EXCEPT ![e][p.seq % WND_S] = p.data]
        /\ recvalids' = [recvalids EXCEPT ![e] = valids]
        /\ \E k \in 0 .. WND_S :
             /\ AckLoop(valids, recackpos[e], recwndpos[e], k)
             /\ recackpos' = [recackpos EXCEPT ![e] = (@ + k) % SEQ_S]
    BY <1>1, <1>4 DEF ReceiveData
  <2>3. PICK k \in 0 .. WND_S :
             /\ AckLoop(valids, recackpos[e], recwndpos[e], k)
             /\ recackpos' = [recackpos EXCEPT ![e] = (@ + k) % SEQ_S]
    BY <2>2
  <2>4. k \in Nat /\ k <= WND_S
    BY <1>2
  <2>5. /\ \A n \in Endpoint \ {e} : /\ recbuf'[n] = recbuf[n] /\ recvalids'[n] = recvalids[n]
                                     /\ recackpos'[n] = recackpos[n]
        /\ recvalids'[e] = valids
        /\ recbuf'[e] = [recbuf[e] EXCEPT ![X % WND_S] = p.data]
        /\ recackpos'[e] = (recackpos[e] + k) % SEQ_S
    BY <1>1, <2>1, <2>2, <2>3 DEF TypeOK
  <2>6. /\ recvalids[e] \in [Slot -> BOOLEAN] /\ recbuf[e] \in [Slot -> Nat]
        /\ valids = [recvalids[e] EXCEPT ![X % WND_S] = TRUE]
        /\ p.data \in Nat /\ X + 1 = p.data
    <3>1. recvalids[e] \in [Slot -> BOOLEAN] /\ recbuf[e] \in [Slot -> Nat]
      BY <1>1 DEF TypeOK
    <3>2. p.data \in Nat
      BY <1>2 DEF Packet
    <3>3. p.data - 1 + 1 = p.data
      BY <3>2
    <3> QED BY <2>1, <3>1, <3>2, <3>3
  <2> HIDE DEF valids, X
  \* The slots after the packet is stored.
  <2>7. ASSUME NEW x \in Window(e)
        PROVE  /\ x = X => valids[x % WND_S] /\ recbuf'[e][x % WND_S] = x + 1
               /\ x # X => /\ valids[x % WND_S] <=> Holds(e, x)
                           /\ recbuf'[e][x % WND_S] = recbuf[e][x % WND_S]
    <3>1. /\ x \in Int /\ r <= x /\ x < r + WND_S /\ x % WND_S \in Slot
          /\ X \in Int /\ r <= X /\ X < r + WND_S /\ X % WND_S \in Slot
      BY <1>2, <2>1, <2>7, WindowRange
    <3>2. CASE x = X
      BY <2>5, <2>6, <3>1, <3>2
    <3>3. CASE x # X
      <4>1. x < X + WND_S /\ X < x + WND_S
        <5>1. r \in Int /\ WND_S \in Int
          BY <1>2
        <5> HIDE DEF r
        <5> QED BY <3>1, <5>1
      <4>2. x % WND_S # X % WND_S
        BY <3>1, <3>3, <4>1, SlotsApart
      <4> QED BY <2>5, <2>6, <3>1, <3>3, <4>2 DEF Holds
    <3> QED BY <3>2, <3>3
  \* The loop ends at the first free slot, or at the end of the window.
  <2>8. ASSUME NEW i \in 1 .. k
        PROVE  valids[(I + i - 1) % WND_S] /\ I + i - 1 < r + WND_S
    <3>1. i \in Nat /\ i >= 1 /\ I + i - 1 - r \in 0 .. SEQ_S - 1
      BY <1>2, <2>4
    <3>2. AckStep(valids, recackpos[e], recwndpos[e], i)
      BY <2>3 DEF AckLoop
    <3> QED BY <3>1, <3>2, AckStepAt
  <2>9. I + k <= r + WND_S
    <3>1. CASE k = 0
      BY <1>2, <3>1
    <3>2. CASE k # 0
      <4>1. k \in 1 .. k
        BY <2>4, <3>2
      <4>2. I + k - 1 < r + WND_S
        BY <2>8, <4>1
      <4> QED BY <1>2, <2>4, <4>2
    <3> QED BY <3>1, <3>2
  <2>10. I + k < r + WND_S => ~valids[(I + k) % WND_S]
    <3>1. /\ k + 1 \in Nat /\ k + 1 >= 1 /\ I + (k + 1) - 1 = I + k
          /\ I + (k + 1) - 1 - r \in 0 .. SEQ_S - 1
      BY <1>2, <2>4, <2>9
    <3>2. ~AckStep(valids, recackpos[e], recwndpos[e], k + 1)
      BY <2>3 DEF AckLoop
    <3> QED BY <3>1, <3>2, AckStepAt
  <2>11. InOrder(e)' = I + k
    <3>1. recackpos[e] \in SeqNo /\ SEQ_S \in Nat \ {0} /\ k \in Int /\ 1 \in Int
      BY <1>1, <1>2, <2>4 DEF TypeOK
    <3>2. recackpos[e] \in Int /\ recackpos[e] + k \in Int /\ recackpos[e] + 1 \in Int
          /\ recackpos[e] + k + 1 = recackpos[e] + 1 + k
      BY <3>1 DEF SeqNo
    <3>3. Inc((recackpos[e] + k) % SEQ_S) = (recackpos[e] + k + 1) % SEQ_S
      BY <3>2, CountInc
    <3>4. (((recackpos[e] + 1) % SEQ_S) + k) % SEQ_S = (recackpos[e] + 1 + k) % SEQ_S
      BY <3>1, <3>2, ModAdd
    <3>5. ((I % SEQ_S) + k) % SEQ_S = (I + k) % SEQ_S
      BY <1>2, <3>1, ModAdd
    <3>6. Inc((recackpos[e] + k) % SEQ_S) = (I + k) % SEQ_S
      BY <1>2, <3>2, <3>3, <3>4, <3>5 DEF Inc
    <3>7. Ofs((I + k) % SEQ_S, r % SEQ_S) = I + k - r
      <4>1. I + k \in Int /\ r \in Int /\ (I + k) - r \in 0 .. SEQ_S - 1
        <5>1. k \in Int /\ I \in Int /\ r \in Int /\ SEQ_S \in Int /\ WND_S \in Int
          BY <1>2, <2>4
        <5>2. r <= I /\ k >= 0 /\ I + k <= r + WND_S /\ SEQ_S >= 2 * WND_S /\ WND_S >= 1
          BY <1>2, <2>4, <2>9
        <5> HIDE DEF r, I
        <5> QED BY <5>1, <5>2
      <4>2. Ofs((I + k) % SEQ_S, r % SEQ_S) = (I + k) - r
        BY <4>1, CountOfs
      <4> QED BY <1>2, <2>4, <4>2
    <3>8. InOrder(e)' = r + Ofs(Inc((recackpos[e] + k) % SEQ_S), r % SEQ_S)
      BY <1>1, <1>2, <2>5 DEF InOrder, Inc
    <3> QED BY <1>2, <2>4, <3>6, <3>7, <3>8
  <2>12. ASSUME NEW x \in Window(e)
         PROVE  /\ recvalids'[e][x % WND_S] =>
                     /\ recbuf'[e][x % WND_S] = x + 1 /\ x < Transmitted(Peer(e))
                     /\ Holds(e, x) \/ (p.seqvalid /\ x + 1 = p.data)
                /\ x < I + k => recvalids'[e][x % WND_S]
                /\ x = I + k => ~recvalids'[e][x % WND_S]
    <3>1. x \in Int /\ r <= x /\ x < r + WND_S
      BY <1>2, <2>12, WindowRange
    <3>2. recvalids'[e][x % WND_S] =>
             /\ recbuf'[e][x % WND_S] = x + 1 /\ x < Transmitted(Peer(e))
             /\ Holds(e, x) \/ (p.seqvalid /\ x + 1 = p.data)
      BY <1>1, <2>1, <2>5, <2>6, <2>7, <2>12 DEF Receiving
    <3>3. x < I => valids[x % WND_S]
      BY <1>1, <2>7, <2>12 DEF Receiving
    <3>4. ~(x < I) /\ x < I + k => valids[x % WND_S]
      <4>1. SUFFICES ASSUME ~(x < I), x < I + k PROVE valids[x % WND_S]
        OBVIOUS
      <4>2. x - I + 1 \in 1 .. k /\ I + (x - I + 1) - 1 = x
        BY <1>2, <2>4, <3>1, <4>1
      <4> QED BY <2>8, <4>2
    <3>5. x = I + k => ~valids[x % WND_S]
      BY <2>10, <3>1
    <3> QED BY <2>5, <3>2, <3>3, <3>4, <3>5
  <2>13. I + k \in Nat /\ I <= I + k
    BY <1>2, <2>4
  <2> QED BY <2>5, <2>9, <2>11, <2>12, <2>13
<1> QED BY <1>3, <1>4

\* What the acknowledgement of a packet does: the send window moves behind it
\* and the later ones on their way come nearer by as much.
LEMMA Learns ==
  ASSUME NEW c, StreamInv(c), NEW e \in Endpoint, Arrives(c, e)
  PROVE  /\ \A n \in Endpoint \ {e} : wndpos'[n] = wndpos[n]
         /\ Acked(e)' \in Nat /\ Acked(e) <= Acked(e)' /\ Acked(e)' <= InOrder(Peer(e))
         /\ Transmitted(e)' = Transmitted(e)
         /\ \A i \in DOMAIN c[e] \ {1} :
              /\ Told(c, e, i) \in Int
              /\ Ofs(Inc(c[e][i].ack), wndpos'[e]) = Told(c, e, i) - (Acked(e)' - Acked(e))
<1> DEFINE p == c[e][1]
           w == wndpos[e]
           k == Told(c, e, 1)
           wpos == (w + Ofs(p.ack, w) + 1) % SEQ_S
<1>1. /\ TypeOK /\ SendSide(e) /\ Acknowledgements(c, e) /\ c[e] \in Seq(Packet) /\ c[e] # <<>>
      /\ ReceiveAck(e, p)
      /\ seqpos' = seqpos /\ sendpos' = sendpos /\ sent' = sent
  BY DEF StreamInv, SendInv, StreamOf, Arrives, ReceivePacket, history
<1>2. /\ sent[e] \in Nat /\ Acked(e) \in Nat /\ InOrder(Peer(e)) \in Nat
      /\ Acked(e) <= InOrder(Peer(e)) /\ Transmitted(e) \in Nat
  BY CountFacts, EndFacts, PeerFacts
<1>3. /\ seqpos[e] \in SeqNo /\ w \in SeqNo /\ sendpos[e] \in SeqNo
      /\ p \in Packet /\ 1 \in DOMAIN c[e]
      /\ SEQ_S \in Nat
  BY <1>1, SizeFacts DEF TypeOK
<1>4. p.ack \in SeqNo /\ Inc(p.ack) \in SeqNo
  BY <1>3, PositionTypes DEF Packet
<1>5. /\ Ofs(p.ack, w) \in Nat /\ Ofs(seqpos[e], w) \in Nat
      /\ Ofs(sendpos[e], w) \in Nat /\ Ofs(sendpos[e], w) < SEQ_S
      /\ Ofs(sendpos[e], w) <= Ofs(seqpos[e], w)
  BY <1>1, <1>3, <1>4, OfsZero DEF SendSide
<1>6. ASSUME NEW i \in DOMAIN c[e]
      PROVE  Inc(c[e][i].ack) \in SeqNo /\ Told(c, e, i) \in Nat
  <2>1. c[e][i] \in Packet
    BY <1>1
  <2>2. Inc(c[e][i].ack) \in SeqNo
    BY <2>1, PositionTypes DEF Packet
  <2> QED BY <1>3, <2>2, OfsZero DEF Told
<1>7. CASE ~(Ofs(p.ack, w) < Ofs(sendpos[e], w))
  <2>1. wndpos' = wndpos
    BY <1>1, <1>7 DEF ReceiveAck
  <2>2. Acked(e)' = Acked(e) /\ Transmitted(e)' = Transmitted(e)
    BY <1>1, <2>1, KeepCounts
  <2>3. \A i \in DOMAIN c[e] :
          Ofs(Inc(c[e][i].ack), wndpos'[e]) = Told(c, e, i) - (Acked(e)' - Acked(e))
    BY <1>2, <1>6, <2>1, <2>2 DEF Told
  <2> QED BY <1>2, <1>6, <2>1, <2>2, <2>3
<1>8. CASE Ofs(p.ack, w) < Ofs(sendpos[e], w)
  <2>1. wndpos' = [wndpos EXCEPT ![e] = wpos]
    BY <1>1, <1>8 DEF ReceiveAck
  <2>2. Ofs(p.ack, w) < SEQ_S - 1
    BY <1>3, <1>5, <1>8
  <2>3. k = Ofs(p.ack, w) + 1 /\ k \in Nat
    BY <1>3, <1>4, <1>5, <2>2, OfsInc DEF Told
  <2>4. wpos = (w + k) % SEQ_S
    <3>1. w \in Nat /\ w + Ofs(p.ack, w) + 1 = w + (Ofs(p.ack, w) + 1)
      BY <1>3, <1>5 DEF SeqNo
    <3> QED BY <2>3, <3>1
  <2> HIDE DEF k, wpos
  <2>5. /\ Ofs(sendpos[e], wpos) = Ofs(sendpos[e], w) - k
        /\ Ofs(seqpos[e], wpos) = Ofs(seqpos[e], w) - k
    <3>1. k <= Ofs(sendpos[e], w) /\ k <= Ofs(seqpos[e], w)
      BY <1>5, <1>8, <2>3
    <3> QED BY <1>3, <2>3, <2>4, <3>1, OfsShift
  <2>6. wndpos'[e] = wpos /\ \A n \in Endpoint \ {e} : wndpos'[n] = wndpos[n]
    BY <1>1, <2>1 DEF TypeOK
  <2>7. Acked(e)' = Acked(e) + k
    <3>1. Acked(e)' = sent[e] - Ofs(seqpos[e], wpos)
      BY <1>1, <2>6 DEF Acked
    <3> QED BY <1>2, <1>5, <2>3, <2>5, <3>1 DEF Acked
  <2>8. Transmitted(e)' = Transmitted(e)
    <3>1. Transmitted(e)' = (Acked(e) + k) + (Ofs(sendpos[e], w) - k)
      BY <1>1, <2>5, <2>6, <2>7 DEF Transmitted
    <3> QED BY <1>2, <1>5, <2>3, <3>1 DEF Transmitted
  <2>9. k <= InOrder(Peer(e)) - Acked(e)
    BY <1>1, <1>3 DEF Acknowledgements, k
  <2>10. ASSUME NEW i \in DOMAIN c[e] \ {1}
         PROVE  Ofs(Inc(c[e][i].ack), wpos) = Told(c, e, i) - k
    <3>1. 1 \in 1 .. i
      BY <1>1
    <3>2. k <= Told(c, e, i)
      BY <1>1, <3>1 DEF Acknowledgements, k
    <3>3. Inc(c[e][i].ack) \in SeqNo /\ Told(c, e, i) = Ofs(Inc(c[e][i].ack), w)
      BY <1>6 DEF Told
    <3> QED BY <1>3, <2>3, <2>4, <3>2, <3>3, OfsShift
  <2>11. Acked(e)' \in Nat /\ Acked(e) <= Acked(e)' /\ Acked(e)' <= InOrder(Peer(e))
         /\ Acked(e)' - Acked(e) = k
    BY <1>2, <2>3, <2>7, <2>9
  <2>12. ASSUME NEW i \in DOMAIN c[e] \ {1}
         PROVE  /\ Told(c, e, i) \in Int
                /\ Ofs(Inc(c[e][i].ack), wndpos'[e]) = Told(c, e, i) - (Acked(e)' - Acked(e))
    BY <1>6, <2>6, <2>10, <2>11
  <2> QED BY <2>6, <2>8, <2>11, <2>12
<1> QED BY <1>7, <1>8

LEMMA StreamReceive ==
  ASSUME Divides, NEW c, NEW d, StreamInv(c), NEW e \in Endpoint, Arrives(c, e),
         Left(c, d, e), NEW m \in Endpoint
  PROVE  StreamOf(d, m)'
<1>1. /\ TypeOK /\ StreamOf(c, m) /\ Peer(m) \in Endpoint /\ Peer(Peer(m)) = m /\ Peer(m) # m
      /\ c[e] \in Seq(Packet) /\ c[e] # <<>>
  BY PeerFacts DEF StreamInv, SendInv, Arrives
<1>2. /\ UNCHANGED <<seqpos, sendpos, sendbuf, recwndpos, sent, rcvd>>
      /\ d = [c EXCEPT ![e] = Tail(@)]
  BY DEF Arrives, Left, ReceivePacket, history
<1>3. /\ \A n \in Endpoint \ {e} : /\ recbuf'[n] = recbuf[n] /\ recvalids'[n] = recvalids[n]
                                   /\ recackpos'[n] = recackpos[n] /\ wndpos'[n] = wndpos[n]
                                   /\ d[n] = c[n]
      /\ d[e] = Tail(c[e])
  <2>1. c \in [Endpoint -> Seq(Packet)]
    BY DEF StreamInv
  <2> QED BY <1>1, <1>2, <2>1, Takes, Learns
<1>4. ASSUME NEW n \in Endpoint
      PROVE  /\ Acked(n) \in Nat /\ Acked(n)' \in Nat /\ Acked(n) <= Acked(n)'
             /\ Transmitted(n) \in Nat /\ Transmitted(n)' = Transmitted(n)
             /\ InOrder(n) \in Nat /\ InOrder(n)' \in Nat /\ InOrder(n) <= InOrder(n)'
             /\ rcvd[n] \in Nat /\ sent[n] \in Nat
             /\ Acked(n)' <= InOrder(Peer(n))
             /\ n # e => Acked(n)' = Acked(n) /\ InOrder(n)' = InOrder(n)
  <2>1. /\ Acked(n) \in Nat /\ Transmitted(n) \in Nat /\ InOrder(n) \in Nat
        /\ rcvd[n] \in Nat /\ sent[n] \in Nat
        /\ Acked(n) <= InOrder(Peer(n))
    BY CountFacts, EndFacts, PeerFacts
  <2>2. CASE n = e
    BY <2>1, <2>2, Takes, Learns
  <2>3. CASE n # e
    <3>1. Acked(n)' = Acked(n) /\ Transmitted(n)' = Transmitted(n) /\ InOrder(n)' = InOrder(n)
      BY <1>2, <1>3, <2>3, KeepCounts
    <3> QED BY <2>1, <2>3, <3>1
  <2> QED BY <2>2, <2>3
<1>5. Acked(Peer(m))' <= InOrder(m)
  BY <1>1, <1>4
<1>6. Transmitted(Peer(m))' \in Int /\ Transmitted(Peer(m)) <= Transmitted(Peer(m))'
  BY <1>1, <1>4
<1>7. CASE m # e
  <2>1. d[m] \in Seq(Packet) /\ c[m] \in Seq(Packet) /\ d[m] = c[m]
    BY <1>1, <1>3, <1>7 DEF StreamInv
  <2>2. Drawn(d[m], c[m])
    BY <2>1, DrawnSame
  <2>3. Sending(m)'
    BY <1>1, <1>2, <1>3, <1>7, KeepSending DEF StreamOf
  <2>4. Receiving(m)'
    BY <1>2, <1>3, <1>5, <1>6, <1>7, KeepReceiving
  <2>5. DataPackets(d, m)'
    BY <1>2, <1>3, <1>6, <1>7, <2>1, <2>2, KeepDataPackets
  <2>6. InOrder(Peer(m))' \in Int /\ InOrder(Peer(m)) <= InOrder(Peer(m))'
    BY <1>1, <1>4
  <2>7. Acknowledgements(d, m)'
    BY <1>3, <1>4, <1>7, <2>1, <2>2, <2>6, KeepAcknowledgements
  <2> QED BY <2>3, <2>4, <2>5, <2>7 DEF StreamOf
<1>8. CASE m = e
  <2>1. Sending(e) /\ Receiving(e) /\ DataPackets(c, e) /\ Acknowledgements(c, e)
    BY <1>1, <1>8 DEF StreamOf
  <2>2. Sending(e)'
    <3>1. Acked(e)' >= 0 /\ \A x \in Acked(e)' .. sent[e] - 1 : x \in Acked(e) .. sent[e] - 1
      BY <1>4
    <3> QED BY <1>2, <2>1, <3>1 DEF Sending
  <2>3. Window(e)' = Window(e)
    BY <1>2 DEF Window
  <2>4. Receiving(e)'
    <3>1. /\ recwndpos'[e] = rcvd'[e] % SEQ_S
          /\ rcvd'[e] <= Transmitted(Peer(e))' /\ InOrder(e)' <= rcvd'[e] + WND_S
          /\ Acked(Peer(e))' <= InOrder(e)'
      <4>1. recwndpos[e] = rcvd[e] % SEQ_S /\ rcvd[e] <= Transmitted(Peer(e))
        BY <2>1 DEF Receiving
      <4>2. InOrder(e)' <= rcvd[e] + WND_S
        BY Takes
      <4>3. Transmitted(Peer(e))' = Transmitted(Peer(e)) /\ Acked(Peer(e))' \in Nat
        BY <1>1, <1>4, <1>8
      <4>4. Acked(Peer(e))' <= InOrder(e)'
        BY <1>4, <1>5, <1>8, <4>3
      <4> QED BY <1>2, <4>1, <4>2, <4>3, <4>4
    <3>2. ASSUME NEW x \in Window(e)
          PROVE  /\ recvalids'[e][x % WND_S] =>
                      recbuf'[e][x % WND_S] = x + 1 /\ x < Transmitted(Peer(e))'
                 /\ x < InOrder(e)' => recvalids'[e][x % WND_S]
                 /\ x = InOrder(e)' => ~recvalids'[e][x % WND_S]
      <4>1. Transmitted(Peer(e))' = Transmitted(Peer(e))
        BY <1>1, <1>4, <1>8
      <4> QED BY <4>1, Takes
    <3> QED BY <2>3, <3>1, <3>2 DEF Receiving, Holds
  <2>5. PICK l \in Nat :
          /\ DOMAIN c[e] = 1 .. l + 1 /\ DOMAIN d[e] = 1 .. l
          /\ \A i \in 1 .. l : d[e][i] = c[e][i + 1] /\ c[e][i + 1] \in Packet
    <3>1. /\ Len(c[e]) - 1 \in Nat /\ DOMAIN c[e] = 1 .. (Len(c[e]) - 1) + 1
          /\ DOMAIN Tail(c[e]) = 1 .. Len(c[e]) - 1
          /\ \A i \in 1 .. Len(c[e]) - 1 :
               Tail(c[e])[i] = c[e][i + 1] /\ c[e][i + 1] \in Packet
      BY <1>1
    <3> QED BY <1>3, <3>1
  <2>6. ASSUME NEW i \in 1 .. l
        PROVE  i + 1 \in DOMAIN c[e] \ {1} /\ i \in Int /\ 1 \in 1 .. i + 1
    BY <2>5
  <2>7. ASSUME NEW i \in 1 .. l, NEW j \in 1 .. i
        PROVE  j \in 1 .. l /\ j + 1 \in 1 .. i + 1
    BY <2>5
  <2>8. DataPackets(d, e)'
    <3>1. ASSUME NEW i \in 1 .. l PROVE Fits(d, e, i)' /\ \A j \in 1 .. i : InReach(d, e, j, i)'
      <4>1. /\ Fits(c, e, i + 1) /\ InReach(c, e, 1, i + 1) /\ d[e][i] = c[e][i + 1]
            /\ c[e][i + 1].data \in Nat
        BY <2>1, <2>5, <2>6 DEF DataPackets, Packet
      <4>2. Transmitted(Peer(e))' = Transmitted(Peer(e))
        BY <1>1, <1>4, <1>8
      <4>3. ASSUME c[e][i + 1].seqvalid, NEW y \in Window(e), recvalids'[e][y % WND_S]
            PROVE  y + 1 < c[e][i + 1].data + WND_S
        <5>1. Holds(e, y) \/ (c[e][1].seqvalid /\ y + 1 = c[e][1].data)
          BY <4>3, Takes
        <5> QED BY <4>1, <4>3, <5>1 DEF Fits, InReach
      <4>4. Fits(d, e, i)'
        BY <1>2, <2>3, <4>1, <4>2, <4>3 DEF Fits, Holds
      <4>5. ASSUME NEW j \in 1 .. i PROVE InReach(d, e, j, i)'
        <5>1. d[e][j] = c[e][j + 1] /\ InReach(c, e, j + 1, i + 1)
          BY <2>1, <2>5, <2>6, <2>7 DEF DataPackets
        <5> QED BY <4>1, <5>1 DEF InReach
      <4> QED BY <4>4, <4>5
    <3> QED BY <2>5, <3>1 DEF DataPackets
  <2>9. Acknowledgements(d, e)'
    <3>1. ASSUME NEW i \in 1 .. l
          PROVE  /\ Told(d, e, i)' = Told(c, e, i + 1) - (Acked(e)' - Acked(e))
                 /\ Told(c, e, i + 1) \in Int
      <4>1. Told(d, e, i)' = Ofs(Inc(c[e][i + 1].ack), wndpos'[e])
        BY <2>5 DEF Told, Inc, Ofs
      <4> QED BY <2>6, <4>1, Learns
    <3>2. ASSUME NEW i \in 1 .. l
          PROVE  /\ Told(d, e, i)' <= InOrder(Peer(e))' - Acked(e)'
                 /\ \A j \in 1 .. i : Told(d, e, j)' <= Told(d, e, i)'
      <4>1. /\ Told(c, e, i + 1) <= InOrder(Peer(e)) - Acked(e)
            /\ \A j \in 1 .. i : Told(c, e, j + 1) <= Told(c, e, i + 1)
        BY <2>1, <2>6, <2>7 DEF Acknowledgements
      <4>2. InOrder(Peer(e))' = InOrder(Peer(e)) /\ InOrder(Peer(e)) \in Nat
        BY <1>1, <1>4, <1>8
      <4>3. Acked(e) \in Nat /\ Acked(e)' \in Nat
        BY <1>4
      <4>4. Told(d, e, i)' <= InOrder(Peer(e))' - Acked(e)'
        BY <3>1, <4>1, <4>2, <4>3
      <4>5. ASSUME NEW j \in 1 .. i PROVE Told(d, e, j)' <= Told(d, e, i)'
        <5>1. j \in 1 .. l /\ Told(c, e, j + 1) <= Told(c, e, i + 1)
          BY <2>7, <4>1
        <5> QED BY <3>1, <4>3, <5>1
      <4> QED BY <4>4, <4>5
    <3> QED BY <2>5, <3>2 DEF Acknowledgements
  <2> QED BY <1>8, <2>2, <2>4, <2>8, <2>9 DEF StreamOf
<1> QED BY <1>7, <1>8
-----------------------------------------------------------------------------
LEMMA StreamInvNext == ASSUME Divides, StreamInv(chan), [Next]_vars PROVE StreamInv(chan)'
<1>1. PICK d : d = chan'
  OBVIOUS
<1>2. /\ SendInv' /\ d \in [Endpoint -> Seq(Packet)]
      /\ chan \in [Endpoint -> Seq(Packet)]
  BY <1>1, SendInvNext DEF StreamInv, SendInv, TypeOK
<1> SUFFICES ASSUME NEW m \in Endpoint PROVE StreamOf(d, m)'
  BY <1>1, <1>2 DEF StreamInv
\* Only what is under way changes, if anything, or a timer.
<1>3. ASSUME UNCHANGED <<seqpos, wndpos, sendpos, sendbuf, recwndpos, recackpos, recbuf,
                         recvalids, sent, rcvd>>,
             Drawn(d[m], chan[m])
      PROVE  StreamOf(d, m)'
  BY <1>2, <1>3, StreamChannel
<1>4. chan'[m] = chan[m] => Drawn(d[m], chan[m])
  <2>1. chan[m] \in Seq(Packet)
    BY <1>2
  <2> QED BY <1>1, <2>1, DrawnSame
<1>5. CASE UNCHANGED vars
  BY <1>3, <1>4, <1>5 DEF vars, sendVars, recvVars, history
<1>6. ASSUME NEW n \in Endpoint, Tick(n) \/ \E t \in TimeoutVals : SetTimeouts(n, t[1], t[2])
      PROVE  StreamOf(d, m)'
  BY <1>3, <1>4, <1>6 DEF Tick, SetTimeouts, history
<1>7. ASSUME NEW n \in Endpoint, Lose(n) \/ Repeat(n)
      PROVE  StreamOf(d, m)'
  <2>1. chan[n] # <<>> /\ chan[m] \in Seq(Packet)
    BY <1>2, <1>7 DEF Lose, Repeat
  <2>2. Drawn(d[m], chan[m])
    <3>1. CASE m # n
      BY <1>2, <1>4, <1>7, <3>1 DEF Lose, Repeat
    <3>2. CASE m = n /\ Lose(n)
      <4>1. d[m] = Tail(chan[m])
        BY <1>1, <1>2, <3>2 DEF Lose
      <4> QED BY <2>1, <3>2, <4>1, DrawnTail
    <3>3. CASE m = n /\ Repeat(n)
      <4>1. d[m] = <<Head(chan[m])>> \o chan[m]
        BY <1>1, <1>2, <3>3 DEF Repeat
      <4> QED BY <2>1, <3>3, <4>1, DrawnRepeat
    <3> QED BY <1>7, <3>1, <3>2, <3>3
  <2> QED BY <1>3, <1>7, <2>2 DEF Lose, Repeat, sendVars, recvVars, history
<1>8. ASSUME NEW n \in Endpoint, Send(n) \/ Read(n) PROVE StreamOf(d, m)'
  <2>1. d = chan
    BY <1>1, <1>8 DEF Send, Read
  <2> QED BY <1>8, <2>1, StreamSend, StreamRead
<1>9. ASSUME NEW n \in Endpoint, GetSendData(n) PROVE StreamOf(d, m)'
  <2>1. Follows(chan, d)
    BY <1>1 DEF Follows
  <2> QED BY <1>2, <1>9, <2>1, StreamGetSendData
<1>10. ASSUME NEW n \in Endpoint, Receive(n) PROVE StreamOf(d, m)'
  <2>1. Arrives(chan, n) /\ Left(chan, d, n)
    BY <1>1, <1>2, <1>10 DEF Receive, Arrives, Left
  <2> QED BY <2>1, StreamReceive
<1>11. CASE Reset
  <2>1. d = [n \in Endpoint |-> <<>>]
    BY <1>1, <1>11 DEF Reset
  <2> QED BY <1>11, <2>1, StreamReset
<1>12. CASE Next
  BY <1>6, <1>7, <1>8, <1>9, <1>10, <1>11, <1>12 DEF Next
<1> QED BY <1>5, <1>12

LEMMA StreamInvAlways == ASSUME Divides PROVE Spec => []StreamInv(chan)
<1>1. Init => StreamInv(chan)
  BY TypeInit, SendSideInit, StreamInit DEF StreamInv, SendInv, TypeOK
<1>2. StreamInv(chan) /\ [Next]_vars => StreamInv(chan)'
  BY StreamInvNext
<1> QED BY <1>1, <1>2, PTL DEF Spec

\* A slot is freed for new data only when its old payload is safe.
THEOREM AckedIsReceivedHolds == ASSUME Divides PROVE Spec => []AckedIsReceived
<1>1. StreamInv(chan) => AckedIsReceived
  <2> SUFFICES ASSUME StreamInv(chan), NEW n \in Endpoint
               PROVE  sent[n] - send_valids(n)
                        <= rcvd[Peer(n)] + Ofs(Inc(recackpos[Peer(n)]), recwndpos[Peer(n)])
    BY DEF AckedIsReceived
  <2>1. Acked(n) <= InOrder(Peer(n))
    <3>1. Peer(n) \in Endpoint /\ Peer(Peer(n)) = n
      BY PeerFacts
    <3> QED BY <3>1, EndFacts
  <2> QED BY <2>1 DEF Acked, InOrder, send_valids
<1> QED BY <1>1, StreamInvAlways, PTL

\* The slot k places ahead of the rear of the receive window is that of the
\* payload read k Reads later.
LEMMA WindowSlot ==
  ASSUME Divides, NEW c, StreamInv(c), NEW n \in Endpoint, NEW k \in 0 .. WND_S - 1
  PROVE  /\ ((recwndpos[n] + k) % SEQ_S) % WND_S = (rcvd[n] + k) % WND_S
         /\ rcvd[n] + k \in Window(n)
<1>1. rcvd[n] \in Nat /\ recwndpos[n] = rcvd[n] % SEQ_S
  BY CountFacts, PositionFacts
<1>2. k \in Int /\ rcvd[n] \in Int /\ rcvd[n] + k \in Int /\ SEQ_S \in Nat \ {0}
  BY <1>1, SizeFacts
<1>3. (recwndpos[n] + k) % SEQ_S = (rcvd[n] + k) % SEQ_S
  BY <1>1, <1>2, ModAdd
<1>4. ((rcvd[n] + k) % SEQ_S) % WND_S = (rcvd[n] + k) % WND_S
  BY <1>2, SlotOf
<1>5. rcvd[n] + k \in Window(n)
  BY <1>1, SizeFacts DEF Window
<1> QED BY <1>3, <1>4, <1>5

\* The receive window holds the payloads the user reads next, in their slots.
THEOREM WindowHoldsStreamHolds == ASSUME Divides PROVE Spec => []WindowHoldsStream
<1>1. ASSUME StreamInv(chan) PROVE WindowHoldsStream
  <2> SUFFICES ASSUME NEW n \in Endpoint, NEW k \in 0 .. WND_S - 1,
                      recvalids[n][((recwndpos[n] + k) % SEQ_S) % WND_S]
               PROVE  recbuf[n][((recwndpos[n] + k) % SEQ_S) % WND_S] = rcvd[n] + 1 + k
    BY DEF WindowHoldsStream
  <2> DEFINE x == rcvd[n] + k
  <2>1. ((recwndpos[n] + k) % SEQ_S) % WND_S = x % WND_S /\ x \in Window(n)
    BY <1>1, WindowSlot
  <2>2. x + 1 = rcvd[n] + 1 + k
    BY <1>1, CountFacts
  <2> HIDE DEF x
  <2>3. Holds(n, x) /\ Receiving(n)
    BY <1>1, <2>1 DEF Holds, StreamInv, StreamOf
  <2>4. recbuf[n][x % WND_S] = x + 1
    BY <2>1, <2>3 DEF Receiving
  <2> QED BY <2>1, <2>2, <2>4
<1>2. StreamInv(chan) => WindowHoldsStream
  BY <1>1
<1> QED BY <1>2, StreamInvAlways, PTL

\* What is acknowledged is what is held in order, no less and no more.
THEOREM AckPositionHolds == ASSUME Divides PROVE Spec => []AckPosition
<1>1. ASSUME StreamInv(chan), NEW n \in Endpoint
      PROVE  LET acked == Ofs(Inc(recackpos[n]), recwndpos[n])
             IN  /\ acked <= WND_S
                 /\ \A k \in 0 .. acked - 1 :
                      recvalids[n][((recwndpos[n] + k) % SEQ_S) % WND_S]
                 /\ acked < WND_S => ~recvalids[n][Inc(recackpos[n]) % WND_S]
  <2> DEFINE acked == Ofs(Inc(recackpos[n]), recwndpos[n])
  <2>1. /\ Receiving(n) /\ rcvd[n] \in Nat /\ InOrder(n) \in Nat
        /\ InOrder(n) <= rcvd[n] + WND_S /\ Inc(recackpos[n]) = InOrder(n) % SEQ_S
    BY <1>1, CountFacts, PositionFacts DEF StreamInv, StreamOf
  <2>2. acked \in Nat /\ InOrder(n) = rcvd[n] + acked
    <3>1. recwndpos[n] \in SeqNo /\ Inc(recackpos[n]) \in SeqNo
      BY <1>1, PositionTypes DEF StreamInv, SendInv, TypeOK
    <3> QED BY <3>1, OfsZero DEF InOrder
  <2> HIDE DEF acked
  <2>3. acked <= WND_S
    BY <2>1, <2>2, SizeFacts
  <2>4. ASSUME NEW k \in 0 .. acked - 1
        PROVE  recvalids[n][((recwndpos[n] + k) % SEQ_S) % WND_S]
    <3>1. k \in 0 .. WND_S - 1 /\ rcvd[n] + k < InOrder(n)
      BY <2>1, <2>2, <2>3, SizeFacts
    <3>2. /\ ((recwndpos[n] + k) % SEQ_S) % WND_S = (rcvd[n] + k) % WND_S
          /\ rcvd[n] + k \in Window(n)
      BY <1>1, <3>1, WindowSlot
    <3>3. Holds(n, rcvd[n] + k)
      BY <2>1, <3>1, <3>2 DEF Receiving
    <3> QED BY <3>2, <3>3 DEF Holds
  <2>5. ASSUME acked < WND_S PROVE ~recvalids[n][Inc(recackpos[n]) % WND_S]
    <3>1. InOrder(n) \in Window(n) /\ InOrder(n) \in Int
      BY <2>1, <2>2, <2>5, SizeFacts DEF Window
    <3>2. ~Holds(n, InOrder(n))
      BY <2>1, <3>1 DEF Receiving
    <3>3. (InOrder(n) % SEQ_S) % WND_S = InOrder(n) % WND_S
      BY <3>1, SlotOf
    <3> QED BY <2>1, <3>2, <3>3 DEF Holds
  <2> QED BY <2>3, <2>4, <2>5 DEF acked
<1>2. StreamInv(chan) => AckPosition
  BY <1>1 DEF AckPosition
<1> QED BY <1>2, StreamInvAlways, PTL
-----------------------------------------------------------------------------
(* Acknowledgements on a faithful channel. *)

\* What n has been told or has on its way, and the timer of the peer that owes more.
TellsPeer(n) == LastAckSentTo(n) # recackpos[Peer(n)] => T!Armed(RecvTimer[Peer(n)])

Faithful == (Side \ (Lossy \cup Repeating)) \X Tags

LEMMA FaithfulEnds ==
  ASSUME NEW n \in Faithful
  PROVE  n \in Endpoint /\ n[1] \notin Lossy /\ n[1] \notin Repeating
BY DEF Faithful, Endpoint

\* One behind the window is the last number acknowledged.
LEMMA BehindWindow ==
  ASSUME NEW a \in SeqNo
  PROVE  (((a + 1) % SEQ_S) + SEQ_S - 1) % SEQ_S = a
<1>1. Inc(a) = IF a = SEQ_S - 1 THEN 0 ELSE a + 1
  BY IncValue
<1>2. a \in 0 .. SEQ_S - 1 /\ SEQ_S \in Nat \ {0}
  BY SizeFacts DEF SeqNo
<1>3. CASE a = SEQ_S - 1
  <2>1. (a + 1) % SEQ_S = 0
    BY <1>1, <1>3 DEF Inc
  <2>2. (0 + SEQ_S - 1) % SEQ_S = SEQ_S - 1
    <3>1. 0 + SEQ_S - 1 = SEQ_S - 1 /\ SEQ_S - 1 \in Nat /\ SEQ_S - 1 < SEQ_S
      BY <1>2
    <3> QED BY <1>2, <3>1, ModSmall
  <2> QED BY <1>3, <2>1, <2>2
<1>4. CASE a # SEQ_S - 1
  <2>1. (a + 1) % SEQ_S = a + 1
    BY <1>1, <1>4 DEF Inc
  <2>2. (a + 1 + SEQ_S - 1) % SEQ_S = a
    <3> DEFINE x == a + 1 + SEQ_S - 1
    <3>1. x \in Nat /\ SEQ_S <= x /\ x < 2 * SEQ_S /\ x - SEQ_S = a
      BY <1>2
    <3> HIDE DEF x
    <3>2. x % SEQ_S = x - SEQ_S
      BY <1>2, <3>1, ModOnce
    <3> QED BY <3>1, <3>2 DEF x
  <2> QED BY <2>1, <2>2
<1> QED BY <1>3, <1>4

\* The packet that empties the channel leaves the window right behind the number
\* it acknowledges: if it does not move the window there, it was there already.
LEMMA LastOfChannel ==
  ASSUME StreamInv(chan), NEW n \in Endpoint, Receive(n), Tail(chan[n]) = <<>>
  PROVE  (wndpos'[n] + SEQ_S - 1) % SEQ_S = chan[n][Len(chan[n])].ack
<1> DEFINE p == Head(chan[n])
           w == wndpos[n]
<1>1. TypeOK /\ StreamOf(chan, n) /\ chan[n] \in Seq(Packet) /\ chan[n] # <<>>
  BY DEF StreamInv, SendInv, TypeOK, Receive
<1>2. Len(chan[n]) = 1 /\ p = chan[n][1] /\ p \in Packet /\ 1 \in DOMAIN chan[n]
  <2>1. Len(chan[n]) \in Nat /\ DOMAIN chan[n] = 1 .. Len(chan[n]) /\ Len(chan[n]) # 0
    BY <1>1
  <2>2. Len(Tail(chan[n])) = Len(chan[n]) - 1
    BY <1>1
  <2>4. Len(Tail(chan[n])) = 0
    <3>1. ASSUME NEW t, t = <<>> PROVE Len(t) = 0
      BY <3>1
    <3> QED BY <3>1, Zenon
  <2>3. Len(chan[n]) = 1
    BY <2>1, <2>2, <2>4
  <2> QED BY <1>1, <2>1, <2>3
<1>3. p.ack \in SeqNo /\ w \in SeqNo /\ sendpos[n] \in SeqNo /\ SEQ_S \in Nat \ {0}
  BY <1>1, <1>2, SizeFacts DEF Packet, TypeOK
<1>8. w \in Nat /\ w < SEQ_S
  BY <1>3 DEF SeqNo
<1>9. Ofs(p.ack, w) \in Nat /\ Ofs(p.ack, w) < SEQ_S
  BY <1>3, OfsZero
<1>4. ReceiveAck(n, p)
  BY DEF Receive, ReceivePacket
<1>5. wndpos \in [Endpoint -> SeqNo]
  BY <1>1 DEF TypeOK
<1> HIDE DEF p, w
<1>6. CASE Ofs(p.ack, w) < Ofs(sendpos[n], w)
  <2>1. wndpos'[n] = (w + Ofs(p.ack, w) + 1) % SEQ_S
    BY <1>4, <1>5, <1>6 DEF ReceiveAck, w
  <2>2. w + Ofs(p.ack, w) + 1 = w + (Ofs(p.ack, w) + 1)
    BY <1>8, <1>9
  <2>3. (w + Ofs(p.ack, w)) % SEQ_S = p.ack
    <3>1. w \in Int /\ w % SEQ_S = w
      BY <1>3, ModSmall DEF SeqNo
    <3> QED BY <1>3, <3>1, PositionAhead
  <2>4. ((w + Ofs(p.ack, w)) + 1) % SEQ_S = (((w + Ofs(p.ack, w)) % SEQ_S) + 1) % SEQ_S
    <3>1. w + Ofs(p.ack, w) \in Int /\ 1 \in Int
      BY <1>8, <1>9
    <3> QED BY <1>3, <3>1, ModAdd
  <2>5. wndpos'[n] = (p.ack + 1) % SEQ_S
    BY <2>1, <2>3, <2>4
  <2> QED BY <1>2, <1>3, <2>5, BehindWindow
<1>7. CASE ~(Ofs(p.ack, w) < Ofs(sendpos[n], w))
  <2>1. wndpos'[n] = w
    BY <1>4, <1>7 DEF ReceiveAck, w
  <2>2. Told(chan, n, 1) <= InOrder(Peer(n)) - Acked(n)
    BY <1>1, <1>2 DEF StreamOf, Acknowledgements
  <2>3. InOrder(Peer(n)) <= Transmitted(n) /\ Peer(n) \in Endpoint
    BY PeerFacts, EndFacts
  <2>4. /\ Acked(n) \in Nat /\ InOrder(Peer(n)) \in Nat /\ Transmitted(n) \in Nat
    BY <2>3, CountFacts
  <2>5. Told(chan, n, 1) = Ofs(Inc(p.ack), w) /\ Transmitted(n) = Acked(n) + Ofs(sendpos[n], w)
    BY <1>2 DEF Told, Transmitted, w
  <2>6. Ofs(p.ack, w) \in Nat /\ Ofs(p.ack, w) < SEQ_S /\ Ofs(sendpos[n], w) \in Nat
    BY <1>3, OfsZero
  <2>7. Inc(p.ack) \in SeqNo /\ Ofs(Inc(p.ack), w) \in Nat
    BY <1>3, PositionTypes, OfsZero
  <2>8. Ofs(p.ack, w) = SEQ_S - 1
    <3>1. Ofs(p.ack, w) < SEQ_S - 1 => Ofs(Inc(p.ack), w) = Ofs(p.ack, w) + 1
      BY <1>3, OfsInc
    <3> QED BY <1>3, <1>7, <2>2, <2>3, <2>4, <2>5, <2>6, <2>7, <3>1
  <2>9. p.ack = (w + SEQ_S - 1) % SEQ_S
    <3>1. w \in Int /\ w % SEQ_S = w /\ w + (SEQ_S - 1) = w + SEQ_S - 1
      BY <1>3, <1>8, ModSmall
    <3>2. p.ack = (w + Ofs(p.ack, w % SEQ_S)) % SEQ_S
      BY <1>3, <3>1, PositionAhead
    <3> QED BY <2>8, <3>1, <3>2
  <2> QED BY <1>2, <2>1, <2>9
<1> QED BY <1>6, <1>7

LEMMA LastAckKept ==
  ASSUME NEW n \in Endpoint, UNCHANGED <<chan[n], wndpos[n]>>
  PROVE  LastAckSentTo(n)' = LastAckSentTo(n)
BY DEF LastAckSentTo

LEMMA TellsPeerKept ==
  ASSUME NEW n \in Endpoint, LastAckSentTo(n)' = LastAckSentTo(n),
         UNCHANGED recackpos[Peer(n)],
         T!Armed(RecvTimer[Peer(n)]) => T!Armed(RecvTimer'[Peer(n)]),
         TellsPeer(n)
  PROVE  TellsPeer(n)'
BY DEF TellsPeer, Peer

LEMMA TellsReceive ==
  ASSUME StreamInv(chan), NEW n \in Endpoint, TellsPeer(n), NEW e \in Endpoint, Receive(e)
  PROVE  TellsPeer(n)'
<1>1. TypeOK /\ Peer(n) \in Endpoint /\ Peer(n) # n
  BY PeerFacts DEF StreamInv, SendInv
<1>2. /\ chan' = [chan EXCEPT ![e] = Tail(@)]
      /\ ReceiveData(e, Head(chan[e])) /\ ReceiveAck(e, Head(chan[e]))
  BY DEF Receive, ReceivePacket
<1>3. \A m \in Endpoint \ {e} : UNCHANGED <<chan[m], wndpos[m], recackpos[m], RecvTimer[m]>>
  <2>1. \A m \in Endpoint \ {e} : UNCHANGED <<chan[m], wndpos[m]>>
    BY <1>1, <1>2 DEF ReceiveAck, TypeOK
  <2>2. \A m \in Endpoint \ {e} : UNCHANGED recackpos[m]
    BY <1>1, <1>2 DEF ReceiveData, TypeOK
  <2>3. \A m \in Endpoint \ {e} : UNCHANGED RecvTimer[m]
    BY <1>1, <1>2 DEF ReceiveData, TypeOK
  <2> QED BY <2>1, <2>2, <2>3
<1>4. CASE e = n
  <2>1. LastAckSentTo(n)' = LastAckSentTo(n)
    <3>1. chan[n] \in Seq(Packet) /\ chan[n] # <<>> /\ chan'[n] = Tail(chan[n])
      BY <1>1, <1>2, <1>4 DEF TypeOK, Receive
    <3>2. CASE Tail(chan[n]) = <<>>
      BY <1>4, <3>1, <3>2, LastOfChannel DEF LastAckSentTo
    <3>3. CASE Tail(chan[n]) # <<>>
      <4>1. Tail(chan[n])[Len(Tail(chan[n]))] = chan[n][Len(chan[n])]
        BY <3>1, <3>3
      <4> QED BY <3>1, <3>3, <4>1 DEF LastAckSentTo
    <3> QED BY <3>2, <3>3
  <2> QED BY <1>1, <1>3, <1>4, <2>1, TellsPeerKept
<1>5. CASE e = Peer(n)
  <2>1. LastAckSentTo(n)' = LastAckSentTo(n)
    BY <1>1, <1>3, <1>5, LastAckKept
  <2>2. CASE Accepts(e, Head(chan[e]))
    <3>1. RecvTimer'[e] = T!Continue(RecvTimer[e]) /\ RecvTimer[e] \in T!TimerType
      BY <1>1, <1>2, <2>2 DEF ReceiveData, AckDue, TypeOK
    <3>2. T!Armed(RecvTimer'[e])
      BY <3>1, TimerArmed
    <3> QED BY <1>5, <3>2 DEF TellsPeer, Peer
  <2>3. CASE ~Accepts(e, Head(chan[e]))
    <3>1. UNCHANGED <<recackpos, RecvTimer>>
      BY <1>2, <2>3 DEF ReceiveData
    <3> QED BY <2>1, <3>1, TellsPeerKept
  <2> QED BY <2>2, <2>3
<1>6. CASE e # n /\ e # Peer(n)
  BY <1>1, <1>3, <1>6, LastAckKept, TellsPeerKept
<1> QED BY <1>4, <1>5, <1>6

\* Every packet tells recackpos; the timer is stopped with it.
LEMMA TellsTransmit ==
  ASSUME TypeOK, NEW n \in Endpoint, TellsPeer(n), NEW e \in Endpoint,
         NEW p \in Packet, p.ack = recackpos[e], Transmit(e, p), UNCHANGED <<wndpos, recackpos>>
  PROVE  TellsPeer(n)'
<1>1. Peer(n) \in Endpoint /\ Peer(e) \in Endpoint /\ Peer(Peer(n)) = n /\ Peer(Peer(e)) = e
  BY PeerFacts
<1>2. /\ chan' = [chan EXCEPT ![Peer(e)] = Append(@, p)]
      /\ RecvTimer' = [RecvTimer EXCEPT ![e] = T!Stop(@)]
      /\ chan \in [Endpoint -> Seq(Packet)] /\ RecvTimer \in [Endpoint -> T!TimerType]
  BY DEF Transmit, TypeOK
<1>3. CASE e = Peer(n)
  <2>1. chan'[n] = Append(chan[n], p) /\ chan[n] \in Seq(Packet)
    BY <1>1, <1>2, <1>3
  <2>2. chan'[n] # <<>> /\ chan'[n][Len(chan'[n])] = p
    BY <2>1
  <2>3. LastAckSentTo(n)' = recackpos[e]
    BY <2>2 DEF LastAckSentTo
  <2> QED BY <1>3, <2>3 DEF TellsPeer, Peer
<1>4. CASE e # Peer(n)
  <2>1. n # Peer(e) /\ chan'[n] = chan[n] /\ RecvTimer'[Peer(n)] = RecvTimer[Peer(n)]
    BY <1>1, <1>2, <1>4
  <2> QED BY <2>1, LastAckKept, TellsPeerKept
<1> QED BY <1>3, <1>4

LEMMA TellsGetSendData ==
  ASSUME TypeOK, NEW n \in Endpoint, TellsPeer(n), NEW e \in Endpoint, GetSendData(e)
  PROVE  TellsPeer(n)'
<1>1. UNCHANGED <<wndpos, recackpos>>
  BY DEF GetSendData
<1>2. ASSUME NEW pos \in SeqNo, Transmit(e, DataPacket(e, pos)) PROVE TellsPeer(n)'
  <2>1. DataPacket(e, pos) \in Packet /\ DataPacket(e, pos).ack = recackpos[e]
    BY PacketTypes DEF DataPacket
  <2> QED BY <1>1, <1>2, <2>1, TellsTransmit
<1>3. CASE Resend(e)
  <2>1. CASE seqpos[e] = wndpos[e]
    <3>1. UNCHANGED <<chan, RecvTimer>>
      BY <1>3, <2>1 DEF Resend
    <3> QED BY <1>1, <3>1, LastAckKept, TellsPeerKept
  <2>2. CASE seqpos[e] # wndpos[e]
    <3>1. Transmit(e, DataPacket(e, wndpos[e])) /\ wndpos[e] \in SeqNo
      BY <1>3, <2>2 DEF Resend, ResendPos, TypeOK
    <3> QED BY <1>2, <3>1
  <2> QED BY <2>1, <2>2
<1>4. CASE SendNew(e)
  <2>1. sendpos[e] \in SeqNo
    BY DEF TypeOK
  <2> QED BY <1>2, <1>4, <2>1 DEF SendNew
<1>5. CASE SendAck(e)
  <2>1. AckPacket(e) \in Packet /\ AckPacket(e).ack = recackpos[e]
    BY PacketTypes DEF AckPacket
  <2> QED BY <1>1, <1>5, <2>1, TellsTransmit DEF SendAck
<1> QED BY <1>3, <1>4, <1>5 DEF GetSendData

LEMMA TellsTimers ==
  ASSUME TypeOK, NEW n \in Endpoint, TellsPeer(n), NEW e \in Endpoint,
         Tick(e) \/ \E t \in TimeoutVals : SetTimeouts(e, t[1], t[2])
  PROVE  TellsPeer(n)'
<1>1. UNCHANGED <<chan, wndpos, recackpos>> /\ Peer(n) \in Endpoint
  BY PeerFacts DEF Tick, SetTimeouts
<1>2. T!Armed(RecvTimer'[Peer(n)]) <=> T!Armed(RecvTimer[Peer(n)])
  <2>1. RecvTimer \in [Endpoint -> T!TimerType]
    BY DEF TypeOK
  <2>2. CASE Tick(e)
    <3>1. RecvTimer'[Peer(n)] = IF Peer(n) = e THEN T!Tick(RecvTimer[Peer(n)]) ELSE RecvTimer[Peer(n)]
      BY <1>1, <2>1, <2>2 DEF Tick
    <3> QED BY <1>1, <2>1, <3>1, TimerArmed
  <2>3. CASE \E t \in TimeoutVals : SetTimeouts(e, t[1], t[2])
    <3>1. PICK t \in TimeoutVals : SetTimeouts(e, t[1], t[2])
      BY <2>3
    <3>2. t[2] \in Nat
      BY ParameterAssumption
    <3>3. RecvTimer'[Peer(n)] = IF Peer(n) = e THEN T!SetTimeoutVal(RecvTimer[Peer(n)], t[2])
                                ELSE RecvTimer[Peer(n)]
      BY <1>1, <2>1, <3>1 DEF SetTimeouts
    <3> QED BY <1>1, <2>1, <3>2, <3>3, TimerArmed
  <2> QED BY <2>2, <2>3
<1> QED BY <1>1, <1>2, LastAckKept, TellsPeerKept

LEMMA TellsNext ==
  ASSUME StreamInv(chan), NEW n \in Faithful, TellsPeer(n), [Next]_vars
  PROVE  TellsPeer(n)'
<1>1. TypeOK /\ n \in Endpoint /\ n[1] \notin Lossy /\ n[1] \notin Repeating /\ Peer(n) \in Endpoint
  BY FaithfulEnds, PeerFacts DEF StreamInv, SendInv
<1>2. ASSUME UNCHANGED <<chan[n], wndpos[n], recackpos, RecvTimer>> PROVE TellsPeer(n)'
  BY <1>1, <1>2, LastAckKept, TellsPeerKept
<1>3. ASSUME UNCHANGED vars PROVE TellsPeer(n)'
  BY <1>2, <1>3 DEF vars, sendVars, recvVars
<1>4. ASSUME NEW e \in Endpoint, Send(e) \/ Read(e) PROVE TellsPeer(n)'
  BY <1>2, <1>4 DEF Send, Read, sendVars, recvVars
<1>5. ASSUME NEW e \in Endpoint, Lose(e) \/ Repeat(e) PROVE TellsPeer(n)'
  <2>1. e # n /\ chan'[n] = chan[n]
    BY <1>1, <1>5 DEF Lose, Repeat, TypeOK
  <2> QED BY <1>2, <1>5, <2>1 DEF Lose, Repeat, sendVars, recvVars
<1>6. ASSUME Reset PROVE TellsPeer(n)'
  <2>1. chan'[n] = <<>> /\ wndpos'[n] = 0 /\ recackpos'[Peer(n)] = SEQ_S - 1
    BY <1>1, <1>6 DEF Reset, ResetPositions
  <2>2. (0 + SEQ_S - 1) % SEQ_S = SEQ_S - 1
    <3>1. 0 + SEQ_S - 1 = SEQ_S - 1 /\ SEQ_S - 1 \in Nat /\ SEQ_S - 1 < SEQ_S /\ SEQ_S \in Nat \ {0}
      BY SizeFacts
    <3> QED BY <3>1, ModSmall
  <2> QED BY <2>1, <2>2 DEF TellsPeer, LastAckSentTo, Peer
<1> QED BY <1>1, <1>3, <1>4, <1>5, <1>6, TellsReceive, TellsGetSendData, TellsTimers DEF Next

\* On a channel that neither loses nor repeats packets, a number that is to be
\* acknowledged is on its way, or the timer that sends it is armed
\* (AckNotForgotten).
THEOREM AckNotForgottenHolds == ASSUME Divides PROVE Spec => []AckNotForgotten
<1>1. AckNotForgotten <=> \A n \in Faithful : TellsPeer(n)
  BY DEF AckNotForgotten, TellsPeer, Faithful
<1>2. Init => AckNotForgotten
  <2> SUFFICES ASSUME Init, NEW n \in Faithful PROVE TellsPeer(n)
    BY <1>1
  <2>1. n \in Endpoint /\ Peer(n) \in Endpoint
    BY FaithfulEnds, PeerFacts
  <2>2. chan[n] = <<>> /\ wndpos[n] = 0 /\ recackpos[Peer(n)] = SEQ_S - 1
    BY <2>1 DEF Init
  <2>3. (0 + SEQ_S - 1) % SEQ_S = SEQ_S - 1
    <3>1. 0 + SEQ_S - 1 = SEQ_S - 1 /\ SEQ_S - 1 \in Nat /\ SEQ_S - 1 < SEQ_S /\ SEQ_S \in Nat \ {0}
      BY SizeFacts
    <3> QED BY <3>1, ModSmall
  <2> QED BY <2>2, <2>3 DEF TellsPeer, LastAckSentTo
<1>3. StreamInv(chan) /\ AckNotForgotten /\ [Next]_vars => AckNotForgotten'
  <2>1. StreamInv(chan) /\ (\A n \in Faithful : TellsPeer(n)) /\ [Next]_vars
          => \A n \in Faithful : TellsPeer(n)'
    BY TellsNext
  <2>2. AckNotForgotten' <=> \A n \in Faithful : TellsPeer(n)'
    BY DEF AckNotForgotten, TellsPeer, Faithful, LastAckSentTo, Peer
  <2> QED BY <1>1, <2>1, <2>2
<1> QED BY <1>2, <1>3, StreamInvAlways, PTL DEF Spec
-----------------------------------------------------------------------------
(* The refinement.  Send is Put, Read is Get, Reset is ResetStream, and every  *)
(* other step leaves the stream as it is.                                      *)

LEMMA PutStep ==
  ASSUME NEW c, StreamInv(c), NEW n \in Endpoint, Send(n)
  PROVE  Stream!Put(n)
<1>1. /\ sent[n] \in Nat /\ rcvd[Peer(n)] \in Nat /\ Acked(n) \in Nat /\ InOrder(Peer(n)) \in Nat
      /\ sent[n] <= Acked(n) + WND_S /\ Acked(n) <= InOrder(Peer(n))
      /\ InOrder(Peer(n)) <= rcvd[Peer(n)] + WND_S
  <2>1. Peer(n) \in Endpoint /\ Peer(Peer(n)) = n
    BY PeerFacts
  <2> QED BY <2>1, CountFacts, EndFacts
<1>2. sent[n] # Acked(n) + WND_S
  <2>1. seqpos[n] \in SeqNo /\ wndpos[n] \in SeqNo
    BY DEF StreamInv, SendInv, TypeOK
  <2>2. Ofs(seqpos[n], wndpos[n]) \in Nat
    BY <2>1, OfsZero
  <2>3. Ofs(seqpos[n], wndpos[n]) # WND_S
    BY DEF Send, WindowFull, send_valids
  <2> QED BY <1>1, <2>2, <2>3, SizeFacts DEF Acked
<1>3. sent[n] - rcvd[Peer(n)] < 2 * WND_S
  BY <1>1, <1>2, SizeFacts
<1> QED BY <1>3 DEF Send, Stream!Put

LEMMA GetStep ==
  ASSUME Divides, NEW c, StreamInv(c), NEW n \in Endpoint, Read(n)
  PROVE  Stream!Get(n)
<1>1. /\ rcvd[n] \in Nat /\ Receiving(n) /\ recwndpos[n] = rcvd[n] % SEQ_S
      /\ Peer(n) \in Endpoint
  <2>1. Receiving(n)
    BY DEF StreamInv, StreamOf
  <2> QED BY <2>1, CountFacts, PositionFacts, PeerFacts
<1>2. recwndpos[n] % WND_S = rcvd[n] % WND_S
  <2>1. rcvd[n] \in Int
    BY <1>1
  <2> QED BY <1>1, <2>1, SlotOf
<1>3. rcvd[n] \in Window(n) /\ Holds(n, rcvd[n])
  BY <1>1, <1>2, SizeFacts DEF Window, Holds, Read, HasReadData
<1>4. recbuf[n][rcvd[n] % WND_S] = rcvd[n] + 1 /\ rcvd[n] < Transmitted(Peer(n))
  BY <1>1, <1>3 DEF Receiving
<1>5. rcvd[n] < sent[Peer(n)]
  <2>1. /\ Transmitted(Peer(n)) \in Nat /\ sent[Peer(n)] \in Nat
        /\ Transmitted(Peer(n)) <= sent[Peer(n)]
    BY <1>1, CountFacts
  <2> QED BY <1>1, <1>4, <2>1
<1>6. got' = [got EXCEPT ![n] = rcvd[n] + 1]
  BY <1>2, <1>4 DEF Read
<1> QED BY <1>5, <1>6 DEF Read, Stream!Get

\* With slots that fit the ring of numbers, the protocol is a bounded FIFO
\* that loses, repeats and reorders nothing, whatever the channels do.
THEOREM ImplementsStreamHolds == ASSUME Divides PROVE Spec => ImplementsStream
<1>1. Init => Stream!Init
  BY DEF Init, Stream!Init
<1>2. ASSUME StreamInv(chan), [Next]_vars PROVE [Stream!Next]_(Stream!vars)
  <2> USE DEF Stream!Next, Stream!vars
  <2>1. CASE UNCHANGED vars
    BY <2>1 DEF vars, history
  <2>2. ASSUME NEW n \in Endpoint,
               \/ GetSendData(n) \/ Receive(n) \/ Tick(n)
               \/ \E t \in TimeoutVals : SetTimeouts(n, t[1], t[2])
               \/ Lose(n) \/ Repeat(n)
        PROVE  UNCHANGED Stream!vars
    BY <2>2 DEF GetSendData, Receive, ReceivePacket, Tick, SetTimeouts, Lose, Repeat, history
  <2>3. ASSUME NEW n \in Endpoint, Send(n) \/ Read(n)
        PROVE  Stream!Put(n) \/ Stream!Get(n)
    BY <1>2, <2>3, PutStep, GetStep
  <2>4. CASE Reset
    BY <2>4 DEF Reset, Stream!ResetStream
  <2>5. CASE Next
    BY <2>2, <2>3, <2>4, <2>5 DEF Next
  <2> QED BY <1>2, <2>1, <2>5
<1>3. StreamInv(chan) /\ [Next]_vars => [Stream!Next]_(Stream!vars)
  BY <1>2
<1> QED BY <1>1, <1>3, StreamInvAlways, PTL DEF Spec, ImplementsStream, Stream!Spec
=============================================================================
