-------------------------- MODULE LinkLayer_proofs --------------------------
(***************************************************************************)
(* The link layer keeps the promise of its ARQ objects although both tags  *)
(* are read out of one register of the chip: it overwrites packets, which  *)
(* is a loss, and the host compares what it shows with what it took last,  *)
(* which is what keeps a packet from being received over and over.         *)
(*                                                                         *)
(* The argument is that of the protocol for another channel: towards the   *)
(* host, the packet in the register that is not taken yet goes before      *)
(* those the chip is about to put there.                                   *)
(*                                                                         *)
(* That a read is answered before its call returns needs more: a JTAG that *)
(* is slower than the chip, and an account of what the chip has left to do *)
(* at each place Exec can stand (AnswerInv).                               *)
(*                                                                         *)
(* That a Flush transmits everything needs only the send windows and the   *)
(* retransmission timers of the host (FlushInv).                           *)
(***************************************************************************)
EXTENDS ARQ_proofs, LinkLayerProps, SequenceTheorems, FiniteSetTheorems

\* What is under way to each end.
Seen == [n \in Endpoint |->
  IF n[1] = "host" /\ NewPacket(n[2]) THEN <<rxreg.packet>> \o chan[n] ELSE chan[n]]

\* Members of the link layer that hold what another step relies on.
LinkTypes ==
  /\ rxreg \in [tag : Tags, packet : Packet]
  /\ lastread \in [tag : Tags, packet : Packet]
  /\ tag \in Tags
  /\ usage \in Usages
  /\ rxdata \in [Tags -> Seq(Nat)]

\* reset_hicann_arq leaves the register and rxdata as they are: a packet and
\* answers of the connection that was reset are taken for those of the new one.
NeverResets == \A u \in Usages : "reset_hicann_arq" \notin u.calls

\* The host takes the packet in the register.
TakesPacket ==
  /\ NewPacket(tag)
  /\ lastread' = rxreg /\ rxreg' = rxreg
  /\ ReceivePacket(host(tag), rxreg.packet)
  /\ chan' = chan

ChipTimeout(t) == ChipSendTimeout(t) \/ ChipRecvTimeout(t)
-----------------------------------------------------------------------------
LEMMA TagFacts ==
  /\ Tags = {0, 1}
  /\ \A t \in Tags : host(t) \in Endpoint /\ chip(t) \in Endpoint
  /\ \A t, u \in Tags : /\ host(t) = host(u) => t = u
                        /\ chip(t) # host(u)
                        /\ host(t)[1] = "host" /\ host(t)[2] = t /\ chip(t)[1] # "host"
  /\ \A n \in Endpoint : n[1] = "host" => n[2] \in Tags /\ n = host(n[2])
<1>1. Tags = {0, 1}
  BY LinkLayerAssumption
<1>2. \A n \in Endpoint : n[1] = "host" => n[2] \in Tags /\ n = host(n[2])
  BY DEF Endpoint, host
<1> QED BY <1>1, <1>2 DEF host, chip, Endpoint, Side

\* Every step is one of the protocol, or loses what the register shows, or
\* takes it.
LEMMA LinkSteps ==
  ASSUME LinkTypes, [LLNext]_allVars
  PROVE  \/ /\ UNCHANGED <<rxreg, lastread>>
            /\ \/ UNCHANGED vars
               \/ \E n \in Endpoint : Send(n) \/ Read(n) \/ GetSendData(n) \/ Tick(n)
               \/ \E t \in Tags : Receive(chip(t)) \/ ChipTimeout(t)
         \/ \E t \in Tags : Latch(t)
         \/ Clear
         \/ TakesPacket
         \/ reset_hicann_arq
<1>1. tag \in Tags /\ \A t \in Tags : host(t) \in Endpoint /\ chip(t) \in Endpoint
  BY TagFacts DEF LinkTypes
<1>2. CASE UNCHANGED allVars
  BY <1>2 DEF allVars, llVars, hostVars
<1>3. CASE Chip
  <2>1. PICK t \in Tags :
          \/ ChipReceive(t) \/ ChipExecute(t) \/ ChipRespond(t) \/ ChipSend(t) \/ Latch(t)
          \/ ChipSendTimeout(t) \/ ChipRecvTimeout(t)
    BY <1>3 DEF Chip
  <2> USE DEF hostVars, llVars
  <2>2. CASE ChipReceive(t)
    BY <2>2 DEF ChipReceive
  <2>3. CASE ChipExecute(t)
    BY <1>1, <2>3 DEF ChipExecute
  <2>4. CASE ChipRespond(t)
    BY <1>1, <2>4 DEF ChipRespond
  <2>5. CASE ChipSend(t)
    BY <1>1, <2>5 DEF ChipSend
  <2>6. CASE ChipTimeout(t)
    BY <2>6 DEF ChipTimeout, ChipSendTimeout, ChipRecvTimeout
  <2> QED BY <2>1, <2>2, <2>3, <2>4, <2>5, <2>6 DEF ChipTimeout
<1>4. CASE Return
  <2>1. CASE Exec \/ FlushReturns
    BY <2>1 DEF Exec, FlushReturns
  <2>2. CASE ExecPut
    BY <1>1, <2>2 DEF ExecPut
  <2>3. CASE ExecTick \/ ExecTock
    BY <1>1, <2>3 DEF ExecTick, ExecTock
  <2>4. CASE ExecGate
    BY <2>4 DEF ExecGate, TakesPacket
  <2>5. CASE issueCommandReturns
    BY <1>1, <2>5 DEF issueCommandReturns
  <2> QED BY <1>4, <2>1, <2>2, <2>3, <2>4, <2>5 DEF Return
<1>5. CASE Call
  <2>1. ASSUME NEW t \in Tags, NEW k \in {"write", "read"}, issueCommand(t, k)
        PROVE  UNCHANGED <<rxreg, lastread>> /\ (UNCHANGED vars \/ Send(host(t)))
    BY <2>1 DEF issueCommand
  <2>2. ASSUME NEW t \in Tags, recvData(t)
        PROVE  UNCHANGED <<rxreg, lastread>> /\ UNCHANGED vars
    BY <2>2 DEF recvData
  <2>3. CASE Flush
    BY <2>3 DEF Flush
  <2> QED BY <1>1, <1>5, <2>1, <2>2, <2>3 DEF Call
<1> QED BY <1>2, <1>3, <1>4, <1>5 DEF LLNext
-----------------------------------------------------------------------------
(* The send windows, which no packet can break. *)

LEMMA ChipTimeoutKeeps ==
  ASSUME SendInv, NEW t \in Tags, ChipTimeout(t)
  PROVE  SendInv'
<1>1. TypeOK /\ chip(t) \in Endpoint /\ SendTimer[chip(t)] \in T!TimerType
      /\ RecvTimer[chip(t)] \in T!TimerType
  BY TagFacts DEF SendInv, TypeOK
<1>2. \A x \in T!TimerType : /\ T!SetTimeout(T!Stop(x)) \in T!TimerType
                             /\ T!Armed(T!SetTimeout(T!Stop(x)))
                             /\ x.enabled => T!Armed(x)
  BY DEF T!TimerType, T!SetTimeout, T!Stop, T!Armed
<1>3. CASE ChipSendTimeout(t)
  <2> USE DEF ChipSendTimeout
  <2>1. TypeOK'
    BY <1>1, <1>2, <1>3 DEF TypeOK, recvVars, history
  <2>2. ASSUME NEW n \in Endpoint PROVE SendSide(n)'
    <3>1. SendSide(n) /\ SendTimer[n] \in T!TimerType
      BY <1>1, <2>2, SendSideTypes DEF SendInv
    <3>2. T!Armed(SendTimer'[n]) <=> T!Armed(SendTimer[n])
      BY <1>1, <1>2, <1>3, <2>2 DEF TypeOK
    <3>3. UNCHANGED <<seqpos, wndpos, sendpos>>
      BY <1>3
    <3> QED BY <3>1, <3>2, <3>3 DEF SendSide
  <2> QED BY <2>1, <2>2 DEF SendInv
<1>4. CASE ChipRecvTimeout(t)
  <2> USE DEF ChipRecvTimeout
  <2>1. TypeOK'
    BY <1>1, <1>2, <1>4 DEF TypeOK, sendVars, history
  <2>2. ASSUME NEW n \in Endpoint PROVE SendSide(n)'
    BY <1>4, <2>2, SendSideFrame DEF SendInv, sendVars
  <2> QED BY <2>1, <2>2 DEF SendInv
<1> QED BY <1>3, <1>4 DEF ChipTimeout

LEMMA TakesPacketKeeps ==
  ASSUME SendInv, LinkTypes, TakesPacket
  PROVE  SendInv'
<1> DEFINE h == host(tag)
           p == rxreg.packet
<1>1. h \in Endpoint /\ p \in Packet /\ TypeOK
  BY TagFacts DEF LinkTypes, SendInv
<1>2. /\ ReceiveData(h, p) /\ ReceiveAck(h, p)
      /\ UNCHANGED <<seqpos, sendpos, sendbuf, recwndpos, history, chan>>
  BY DEF TakesPacket, ReceivePacket
<1> HIDE DEF h, p
<1>3. TypeOK'
  BY <1>1, <1>2, TypeReceiveData, TypeReceiveAck DEF TypeOK, history
<1>4. ASSUME NEW m \in Endpoint PROVE SendSide(m)'
  <2>1. CASE m = h
    BY <1>1, <1>2, <2>1, SendSideReceiveAck DEF SendInv
  <2>2. CASE m # h
    <3>1. wndpos'[m] = wndpos[m] /\ SendTimer'[m] = SendTimer[m]
      BY <1>1, <1>2, <2>2 DEF ReceiveAck, TypeOK
    <3> QED BY <1>2, <3>1, SendSideFrame DEF SendInv
  <2> QED BY <2>1, <2>2
<1> QED BY <1>3, <1>4 DEF SendInv

LEMMA LatchKeeps ==
  ASSUME SendInv, NEW t \in Tags, Latch(t)
  PROVE  SendInv'
<1>1. TypeOK /\ host(t) \in Endpoint
  BY TagFacts DEF SendInv
<1>2. chan' \in [Endpoint -> Seq(Packet)]
  <2>1. chan[host(t)] \in Seq(Packet) /\ chan[host(t)] # <<>>
    BY <1>1 DEF TypeOK, Latch
  <2>2. Tail(chan[host(t)]) \in Seq(Packet)
    BY <2>1
  <2> QED BY <1>1, <2>2 DEF TypeOK, Latch
<1>3. UNCHANGED <<sendVars, recvVars, history>>
  BY DEF Latch
<1>4. TypeOK'
  BY <1>1, <1>2, <1>3 DEF TypeOK, sendVars, recvVars, history
<1>5. ASSUME NEW m \in Endpoint PROVE SendSide(m)'
  BY <1>3, SendSideFrame DEF SendInv, sendVars
<1> QED BY <1>4, <1>5 DEF SendInv

LEMMA LinkSendInv ==
  ASSUME SendInv, LinkTypes, [LLNext]_allVars
  PROVE  SendInv'
<1>1. ASSUME NEW n \in Endpoint, Send(n) \/ Read(n) \/ GetSendData(n) \/ Tick(n) PROVE SendInv'
  BY <1>1, SendInvNext DEF Next
<1>2. ASSUME NEW t \in Tags, Receive(chip(t)) PROVE SendInv'
  <2>1. chip(t) \in Endpoint
    BY TagFacts
  <2> QED BY <1>2, <2>1, SendInvNext DEF Next
<1>3. ASSUME UNCHANGED vars PROVE SendInv'
  BY <1>3, SendInvNext
<1>4. ASSUME Clear PROVE SendInv'
  BY <1>3, <1>4 DEF Clear
<1>5. ASSUME reset_hicann_arq PROVE SendInv'
  BY <1>5, SendInvNext DEF reset_hicann_arq, Next
<1> QED BY <1>1, <1>2, <1>3, <1>4, <1>5, LinkSteps, ChipTimeoutKeeps, TakesPacketKeeps, LatchKeeps
-----------------------------------------------------------------------------
(* What the register shows is a packet. *)

LEMMA LinkTypesNext ==
  ASSUME SendInv, LinkTypes, [LLNext]_allVars
  PROVE  LinkTypes'
<1>1. Tags = {0, 1} /\ TypeOK /\ \A t \in Tags : host(t) \in Endpoint
  BY TagFacts DEF SendInv
<1>2. (rxreg \in [tag : Tags, packet : Packet] /\ lastread \in [tag : Tags, packet : Packet])'
  <2>1. ASSUME NEW t \in Tags, Latch(t)
        PROVE  rxreg' \in [tag : Tags, packet : Packet] /\ lastread' = lastread
    <3>1. chan[host(t)] \in Seq(Packet) /\ chan[host(t)] # <<>>
      BY <1>1, <2>1 DEF TypeOK, Latch
    <3>2. Head(chan[host(t)]) \in Packet
      BY <3>1
    <3> QED BY <2>1, <3>2 DEF Latch, Tagged, hostVars
  <2>2. Clear \/ TakesPacket => lastread' = rxreg /\ rxreg' = rxreg
    BY DEF Clear, TakesPacket
  <2>3. reset_hicann_arq => lastread' = lastread /\ rxreg' = rxreg
    BY DEF reset_hicann_arq
  <2> QED BY <2>1, <2>2, <2>3, LinkSteps DEF LinkTypes
<1>3. tag' \in Tags
  <2>1. \A t \in Tags : other(t) \in Tags
    BY <1>1 DEF other
  <2>2. tag # 1 => tag + 1 \in Tags
    BY <1>1 DEF LinkTypes
  <2>3. Return => tag' \in {tag, other(tag)} \/ (tag # 1 /\ tag' = tag + 1)
    BY DEF Return, Exec, ExecPut, ExecTick, ExecGate, ExecTock, issueCommandReturns,
           FlushReturns, LastTag, Goto
  <2>4. Call => tag' = tag \/ tag' \in Tags
    BY <1>1 DEF Call, issueCommand, recvData, Flush, Clear, reset_hicann_arq
  <2>5. Chip \/ UNCHANGED allVars => tag' = tag
    BY DEF Chip, ChipReceive, ChipExecute, ChipRespond, ChipSend, Latch, ChipSendTimeout,
           ChipRecvTimeout, allVars, llVars, hostVars
  <2> QED BY <2>1, <2>2, <2>3, <2>4, <2>5 DEF LLNext, LinkTypes
<1>4. usage' = usage
  <2>1. Return => usage' = usage
    BY DEF Return, Exec, ExecPut, ExecTick, ExecGate, ExecTock, issueCommandReturns,
           FlushReturns, Goto
  <2>2. Call => usage' = usage
    BY DEF Call, issueCommand, recvData, Flush, Clear, reset_hicann_arq
  <2>3. Chip \/ UNCHANGED allVars => usage' = usage
    BY DEF Chip, ChipReceive, ChipExecute, ChipRespond, ChipSend, Latch, ChipSendTimeout,
           ChipRecvTimeout, allVars, llVars, hostVars
  <2> QED BY <2>1, <2>2, <2>3 DEF LLNext
<1>5. rxdata' \in [Tags -> Seq(Nat)]
  <2>1. CASE issueCommandReturns
    <3>1. CASE rxdata' = rxdata
      BY <3>1 DEF LinkTypes
    <3>2. CASE rxdata' # rxdata
      <4>1. Read(host(tag)) /\ rxdata' = [rxdata EXCEPT ![tag] = Append(@, got'[host(tag)])]
        BY <2>1, <3>2 DEF issueCommandReturns
      <4>2. TypeOK'
        BY <1>1, <4>1, TypeRead DEF LinkTypes
      <4>3. got'[host(tag)] \in Nat
        BY <1>1, <4>2 DEF TypeOK, LinkTypes
      <4>4. rxdata[tag] \in Seq(Nat)
        BY DEF LinkTypes
      <4>5. Append(rxdata[tag], got'[host(tag)]) \in Seq(Nat)
        BY <4>3, <4>4
      <4> QED BY <4>1, <4>5 DEF LinkTypes
    <3> QED BY <3>1, <3>2
  <2>2. ASSUME NEW t \in Tags, recvData(t) PROVE rxdata' \in [Tags -> Seq(Nat)]
    <3>1. rxdata[t] \in Seq(Nat) /\ rxdata[t] # <<>>
      BY <2>2 DEF recvData, LinkTypes
    <3>2. Tail(rxdata[t]) \in Seq(Nat)
      BY <3>1
    <3> QED BY <2>2, <3>2 DEF recvData, LinkTypes
  <2>3. Return => issueCommandReturns \/ rxdata' = rxdata
    BY DEF Return, Exec, ExecPut, ExecTick, ExecGate, ExecTock, FlushReturns
  <2>4. Call => (\E t \in Tags : recvData(t)) \/ rxdata' = rxdata
    BY DEF Call, issueCommand, Flush, Clear, reset_hicann_arq
  <2>5. Chip \/ UNCHANGED allVars => rxdata' = rxdata
    BY DEF Chip, ChipReceive, ChipExecute, ChipRespond, ChipSend, Latch, ChipSendTimeout,
           ChipRecvTimeout, allVars, llVars, hostVars
  <2> QED BY <2>1, <2>2, <2>3, <2>4, <2>5 DEF LLNext, LinkTypes
<1> QED BY <1>2, <1>3, <1>4, <1>5 DEF LinkTypes
-----------------------------------------------------------------------------
(* What is under way to each end. *)

LEMMA SeenIs ==
  ASSUME SendInv, LinkTypes
  PROVE  /\ Seen \in [Endpoint -> Seq(Packet)] /\ chan \in [Endpoint -> Seq(Packet)]
         /\ \A t \in Tags : /\ Seen[chip(t)] = chan[chip(t)]
                            /\ NewPacket(t) => Seen[host(t)] = <<rxreg.packet>> \o chan[host(t)]
                            /\ ~NewPacket(t) => Seen[host(t)] = chan[host(t)]
<1>1. chan \in [Endpoint -> Seq(Packet)]
  BY DEF SendInv, TypeOK
<1>2. <<rxreg.packet>> \in Seq(Packet)
  <2>1. rxreg.packet \in Packet
    BY DEF LinkTypes
  <2> QED BY <2>1
<1>3. \A n \in Endpoint : <<rxreg.packet>> \o chan[n] \in Seq(Packet) /\ chan[n] \in Seq(Packet)
  BY <1>1, <1>2, ConcatProperties
<1>4. Seen \in [Endpoint -> Seq(Packet)]
  BY <1>3 DEF Seen
<1>5. /\ \A t \in Tags : host(t) \in Endpoint /\ chip(t) \in Endpoint
      /\ \A t \in Tags : host(t)[1] = "host" /\ host(t)[2] = t /\ chip(t)[1] # "host"
  BY TagFacts
<1> QED BY <1>1, <1>4, <1>5 DEF Seen

LEMMA SeenNextIs == SendInv' /\ LinkTypes' => (Seen \in [Endpoint -> Seq(Packet)])'
<1>1. SendInv /\ LinkTypes => Seen \in [Endpoint -> Seq(Packet)]
  BY SeenIs
<1> QED BY <1>1, PTL

LEMMA BehindFirst ==
  ASSUME NEW p \in Packet, NEW s \in Seq(Packet)
  PROVE  <<p>> \o s # <<>> /\ (<<p>> \o s)[1] = p /\ Tail(<<p>> \o s) = s
<1> DEFINE c == <<p>> \o s
<1>1. Len(s) \in Nat /\ DOMAIN s = 1 .. Len(s)
  OBVIOUS
<1>2. /\ c \in Seq(Packet) /\ Len(c) = Len(s) + 1 /\ c[1] = p
      /\ \A i \in 1 .. Len(s) : c[i + 1] = s[i]
  <2>1. <<p>> \in Seq(Packet) /\ Len(<<p>>) = 1 /\ <<p>>[1] = p
    OBVIOUS
  <2>2. Len(c) = 1 + Len(s) /\ c \in Seq(Packet)
    BY <2>1
  <2> QED BY <1>1, <2>1, <2>2
<1> HIDE DEF c
<1>3. c # <<>>
  <2>1. Len(c) # 0
    BY <1>1, <1>2
  <2> QED BY <2>1
<1>4. Tail(c) = s
  <2>1. Len(Tail(c)) = Len(s) /\ Tail(c) \in Seq(Packet)
    BY <1>1, <1>2, <1>3
  <2>2. \A i \in 1 .. Len(s) : Tail(c)[i] = s[i]
    BY <1>1, <1>2, <1>3
  <2> QED BY <1>1, <2>1, <2>2, SeqEqual
<1> QED BY <1>2, <1>3, <1>4 DEF c

\* Losing what goes first loses nothing else.
LEMMA DrawnBehind == ASSUME NEW p \in Packet, NEW s \in Seq(Packet) PROVE Drawn(s, <<p>> \o s)
<1> DEFINE c == <<p>> \o s
           f == [i \in DOMAIN s |-> i + 1]
<1>1. DOMAIN s = 1 .. Len(s) /\ Len(s) \in Nat
  OBVIOUS
<1>2. DOMAIN c = 1 .. Len(s) + 1 /\ \A i \in DOMAIN s : c[i + 1] = s[i]
  <2>1. <<p>> \in Seq(Packet) /\ Len(<<p>>) = 1
    OBVIOUS
  <2>2. Len(c) = 1 + Len(s) /\ c \in Seq(Packet)
    BY <2>1
  <2> QED BY <1>1, <2>1, <2>2
<1> HIDE DEF c
<1>3. f \in [DOMAIN s -> DOMAIN c]
  BY <1>1, <1>2
<1>4. \A i \in DOMAIN s : s[i] = c[f[i]] /\ \A j \in 1 .. i : f[j] \in 1 .. f[i]
  BY <1>1, <1>2
<1> QED BY <1>3, <1>4 DEF Drawn, c

LEMMA DrawnFurther ==
  ASSUME NEW a \in Seq(Packet), NEW b \in Seq(Packet), NEW c \in Seq(Packet),
         Drawn(a, b), Drawn(b, c)
  PROVE  Drawn(a, c)
<1>1. PICK f \in [DOMAIN a -> DOMAIN b] :
        \A i \in DOMAIN a : a[i] = b[f[i]] /\ \A j \in 1 .. i : f[j] \in 1 .. f[i]
  BY DEF Drawn
<1>2. PICK g \in [DOMAIN b -> DOMAIN c] :
        \A i \in DOMAIN b : b[i] = c[g[i]] /\ \A j \in 1 .. i : g[j] \in 1 .. g[i]
  BY DEF Drawn
<1> DEFINE h == [i \in DOMAIN a |-> g[f[i]]]
<1>3. h \in [DOMAIN a -> DOMAIN c]
  BY <1>1, <1>2
<1>4. ASSUME NEW i \in DOMAIN a
      PROVE  a[i] = c[h[i]] /\ \A j \in 1 .. i : h[j] \in 1 .. h[i]
  <2>1. f[i] \in DOMAIN b /\ a[i] = b[f[i]] /\ h[i] = g[f[i]]
    BY <1>1
  <2>2. b[f[i]] = c[g[f[i]]]
    BY <1>2, <2>1
  <2>3. ASSUME NEW j \in 1 .. i PROVE h[j] \in 1 .. h[i]
    <3>1. j \in DOMAIN a
      <4>1. DOMAIN a = 1 .. Len(a) /\ Len(a) \in Nat
        OBVIOUS
      <4> QED BY <4>1
    <3>2. f[j] \in 1 .. f[i] /\ h[j] = g[f[j]]
      BY <1>1, <3>1
    <3> QED BY <1>2, <2>1, <3>2
  <2> QED BY <2>1, <2>2, <2>3
<1> HIDE DEF h
<1> QED BY <1>3, <1>4 DEF Drawn

\* A packet that is sent goes behind everything that is seen.
LEMMA SeenFollows ==
  ASSUME SendInv, LinkTypes, UNCHANGED <<rxreg, lastread>>, NEW d, d = Seen'
  PROVE  Follows(Seen, d)
<1>1. d = [n \in Endpoint |->
             IF n[1] = "host" /\ NewPacket(n[2]) THEN <<rxreg.packet>> \o chan'[n] ELSE chan'[n]]
  BY DEF Seen, NewPacket
<1>2. chan' = chan => d = Seen
  BY <1>1 DEF Seen
<1>3. ASSUME NEW e \in Endpoint, NEW p \in Packet, chan' = [chan EXCEPT ![e] = Append(@, p)]
      PROVE  d = [Seen EXCEPT ![e] = Append(@, p)]
  <2>1. chan \in [Endpoint -> Seq(Packet)] /\ rxreg.packet \in Packet
    BY DEF SendInv, TypeOK, LinkTypes
  <2>2. <<rxreg.packet>> \o Append(chan[e], p) = Append(<<rxreg.packet>> \o chan[e], p)
    <3>1. /\ <<rxreg.packet>> \in Seq(Packet) /\ chan[e] \in Seq(Packet) /\ <<p>> \in Seq(Packet)
      BY <2>1
    <3>2. (<<rxreg.packet>> \o chan[e]) \o <<p>> = <<rxreg.packet>> \o (chan[e] \o <<p>>)
      <4> DEFINE a == <<rxreg.packet>>
                 b == chan[e]
                 q == <<p>>
      <4>1. a \in Seq(Packet) /\ b \in Seq(Packet) /\ q \in Seq(Packet)
        BY <3>1
      <4> HIDE DEF a, b, q
      <4>2. (a \o b) \o q = a \o (b \o q)
        BY <4>1, ConcatAssociative
      <4> QED BY <4>2 DEF a, b, q
    <3>3. <<rxreg.packet>> \o chan[e] \in Seq(Packet)
      BY <3>1, ConcatProperties
    <3> QED BY <3>1, <3>2, <3>3, AppendIsConcat
  <2>3. ASSUME NEW n \in Endpoint PROVE d[n] = [Seen EXCEPT ![e] = Append(@, p)][n]
    <3>1. CASE n = e
      BY <1>1, <1>3, <2>1, <2>2, <3>1 DEF Seen
    <3>2. CASE n # e
      BY <1>1, <1>3, <2>1, <3>2 DEF Seen
    <3> QED BY <3>1, <3>2
  <2> QED BY <1>1, <2>3 DEF Seen
<1> QED BY <1>2, <1>3 DEF Follows
-----------------------------------------------------------------------------
(* The steps. *)

\* Nothing happens to the ends, and packets at most get lost on their way.
LEMMA LinkChannel ==
  ASSUME NEW c, NEW d, StreamInv(c), d \in [Endpoint -> Seq(Packet)],
         UNCHANGED <<seqpos, wndpos, sendpos, sendbuf, recwndpos, recackpos, recbuf, recvalids,
                     sent, rcvd>>,
         NEW m \in Endpoint, d[m] = c[m] \/ Drawn(d[m], c[m])
  PROVE  StreamOf(d, m)'
<1>1. c[m] \in Seq(Packet)
  BY DEF StreamInv
<1>2. Drawn(d[m], c[m])
  BY <1>1, DrawnSame
<1> QED BY <1>2, StreamChannel

LEMMA LinkLatch ==
  ASSUME SendInv, LinkTypes, NEW c, c = Seen, StreamInv(c), NEW d, d = Seen',
         d \in [Endpoint -> Seq(Packet)], NEW t \in Tags, Latch(t), NEW m \in Endpoint
  PROVE  StreamOf(d, m)'
<1>1. /\ c \in [Endpoint -> Seq(Packet)] /\ chan \in [Endpoint -> Seq(Packet)]
      /\ host(t) \in Endpoint /\ rxreg.packet \in Packet
  BY SeenIs, TagFacts DEF LinkTypes
<1>2. /\ rxreg'.tag = t /\ rxreg'.packet = Head(chan[host(t)]) /\ lastread' = lastread
      /\ chan' = [chan EXCEPT ![host(t)] = Tail(@)] /\ chan[host(t)] # <<>>
  BY DEF Latch, Tagged, hostVars
<1>3. /\ d[m] = IF m[1] = "host" /\ rxreg' # lastread' /\ rxreg'.tag = m[2]
                THEN <<rxreg'.packet>> \o chan'[m] ELSE chan'[m]
      /\ c[m] = IF m[1] = "host" /\ NewPacket(m[2]) THEN <<rxreg.packet>> \o chan[m] ELSE chan[m]
  BY DEF Seen, NewPacket
<1>4. chan[m] \in Seq(Packet) /\ (chan[m] = c[m] \/ Drawn(chan[m], c[m]))
  BY <1>1, <1>3, DrawnBehind
<1>5. CASE m = host(t)
  <2>1. d[m] = chan[m] \/ d[m] = Tail(chan[m])
    <3>1. <<Head(chan[m])>> \o Tail(chan[m]) = chan[m]
      <4>1. chan[m] \in Seq(Packet) /\ chan[m] # <<>>
        BY <1>2, <1>4, <1>5
      <4> QED BY <4>1, HeadTailProperties
    <3> QED BY <1>1, <1>2, <1>3, <1>5, <3>1
  <2>2. CASE d[m] = chan[m]
    BY <1>4, <2>2, LinkChannel DEF Latch, sendVars, recvVars, history
  <2>3. CASE d[m] = Tail(chan[m])
    <3>1. Drawn(Tail(chan[m]), chan[m]) /\ Tail(chan[m]) \in Seq(Packet)
      <4>1. chan[m] \in Seq(Packet) /\ chan[m] # <<>>
        BY <1>2, <1>4, <1>5
      <4> QED BY <4>1, DrawnTail, HeadTailProperties
    <3>2. Drawn(d[m], c[m])
      <4>1. c[m] \in Seq(Packet)
        BY <1>1
      <4> QED BY <1>4, <2>3, <3>1, <4>1, DrawnFurther
    <3> QED BY <3>2, LinkChannel DEF Latch, sendVars, recvVars, history
  <2> QED BY <2>1, <2>2, <2>3
<1>6. CASE m # host(t)
  <2>1. d[m] = chan[m]
    <3>1. chan'[m] = chan[m]
      BY <1>1, <1>2, <1>6
    <3>2. m[1] = "host" => m[2] # t
      BY <1>6, TagFacts
    <3> QED BY <1>2, <1>3, <3>1, <3>2
  <2> QED BY <1>4, <2>1, LinkChannel DEF Latch, sendVars, recvVars, history
<1> QED BY <1>5, <1>6

LEMMA LinkClear ==
  ASSUME SendInv, LinkTypes, NEW c, c = Seen, StreamInv(c), NEW d, d = Seen',
         d \in [Endpoint -> Seq(Packet)], Clear, NEW m \in Endpoint
  PROVE  StreamOf(d, m)'
<1>1. /\ chan[m] \in Seq(Packet) /\ rxreg.packet \in Packet
  BY SeenIs DEF LinkTypes
<1>2. d[m] = chan[m]
  BY DEF Seen, NewPacket, Clear, vars
<1>3. c[m] = IF m[1] = "host" /\ NewPacket(m[2]) THEN <<rxreg.packet>> \o chan[m] ELSE chan[m]
  BY DEF Seen
<1>4. d[m] = c[m] \/ Drawn(d[m], c[m])
  BY <1>1, <1>2, <1>3, DrawnBehind
<1> QED BY <1>4, LinkChannel DEF Clear, vars, sendVars, recvVars, history

LEMMA LinkTakes ==
  ASSUME Divides, SendInv, LinkTypes, NEW c, c = Seen, StreamInv(c), NEW d, d = Seen',
         TakesPacket, NEW m \in Endpoint
  PROVE  StreamOf(d, m)'
<1>1. /\ host(tag) \in Endpoint /\ tag \in Tags /\ NewPacket(tag)
      /\ c[host(tag)] = <<rxreg.packet>> \o chan[host(tag)]
      /\ chan \in [Endpoint -> Seq(Packet)] /\ rxreg.packet \in Packet
  BY SeenIs, TagFacts DEF LinkTypes, TakesPacket
<1>2. /\ c[host(tag)] # <<>> /\ c[host(tag)][1] = rxreg.packet
      /\ Tail(c[host(tag)]) = chan[host(tag)]
  <2>1. chan[host(tag)] \in Seq(Packet) /\ <<rxreg.packet>> \in Seq(Packet)
    BY <1>1
  <2> DEFINE s == chan[host(tag)]
  <2>2. s \in Seq(Packet) /\ c[host(tag)] = <<rxreg.packet>> \o s
    BY <1>1
  <2> HIDE DEF s
  <2>3. /\ <<rxreg.packet>> \o s # <<>> /\ (<<rxreg.packet>> \o s)[1] = rxreg.packet
        /\ Tail(<<rxreg.packet>> \o s) = s
    BY <1>1, <2>2, BehindFirst
  <2> QED BY <2>2, <2>3 DEF s
<1>3. Arrives(c, host(tag))
  BY <1>2 DEF Arrives, TakesPacket
<1>4. Left(c, d, host(tag))
  <2>1. d = chan
    <3>1. d = [n \in Endpoint |-> chan[n]]
      BY DEF Seen, NewPacket, TakesPacket
    <3> QED BY <1>1, <3>1
  <2>2. ASSUME NEW n \in Endpoint, n # host(tag) PROVE c[n] = chan[n]
    BY <1>1, <2>2, TagFacts DEF Seen, NewPacket
  <2>3. c \in [Endpoint -> Seq(Packet)]
    BY DEF StreamInv
  <2> QED BY <1>1, <1>2, <2>1, <2>2, <2>3 DEF Left
<1> QED BY <1>1, <1>3, <1>4, StreamReceive

\* The chip's end receives from the channel itself.
LEMMA LinkChipReceive ==
  ASSUME Divides, SendInv, LinkTypes, NEW c, c = Seen, StreamInv(c), NEW d, d = Seen',
         UNCHANGED <<rxreg, lastread>>, NEW t \in Tags, Receive(chip(t)), NEW m \in Endpoint
  PROVE  StreamOf(d, m)'
<1>1. /\ chip(t) \in Endpoint /\ c[chip(t)] = chan[chip(t)] /\ c \in [Endpoint -> Seq(Packet)]
      /\ chan \in [Endpoint -> Seq(Packet)]
  BY SeenIs, TagFacts
<1>2. Arrives(c, chip(t))
  <2>1. chan[chip(t)] \in Seq(Packet) /\ chan[chip(t)] # <<>>
    BY <1>1 DEF Receive
  <2>2. Head(chan[chip(t)]) = chan[chip(t)][1]
    BY <2>1
  <2> QED BY <1>1, <2>1, <2>2 DEF Receive, Arrives
<1>3. Left(c, d, chip(t))
  <2>1. chan' = [chan EXCEPT ![chip(t)] = Tail(@)] /\ chip(t)[1] # "host"
    BY TagFacts DEF Receive
  <2>2. ASSUME NEW n \in Endpoint PROVE d[n] = [c EXCEPT ![chip(t)] = Tail(@)][n]
    BY <1>1, <2>1, <2>2 DEF Seen, NewPacket
  <2>3. d = [n \in Endpoint |-> d[n]]
    BY DEF Seen
  <2> QED BY <1>1, <2>2, <2>3 DEF Left
<1> QED BY <1>1, <1>2, <1>3, StreamReceive

LEMMA LinkStreamNext ==
  ASSUME Divides, StreamInv(Seen), LinkTypes, ~reset_hicann_arq, [LLNext]_allVars
  PROVE  StreamInv(Seen)'
<1>1. PICK c : c = Seen
  OBVIOUS
<1>2. PICK d : d = Seen'
  OBVIOUS
<1>3. SendInv /\ StreamInv(c)
  BY <1>1 DEF StreamInv
<1>4. SendInv' /\ LinkTypes'
  BY <1>3, LinkSendInv, LinkTypesNext
<1>5. d \in [Endpoint -> Seq(Packet)]
  BY <1>2, <1>4, SeenNextIs
<1> SUFFICES ASSUME NEW m \in Endpoint PROVE StreamOf(d, m)'
  BY <1>2, <1>4, <1>5 DEF StreamInv
<1>6. UNCHANGED <<rxreg, lastread>> => (chan' = chan => d = c) /\ Follows(c, d)
  BY <1>1, <1>2, <1>3, SeenFollows DEF Follows
<1>7. ASSUME UNCHANGED <<rxreg, lastread>>,
             UNCHANGED vars \/ \E n \in Endpoint : Tick(n)
                            \/ \E t \in Tags : ChipTimeout(t)
      PROVE  StreamOf(d, m)'
  <2>1. UNCHANGED <<seqpos, wndpos, sendpos, sendbuf, recwndpos, recackpos, recbuf, recvalids,
                    sent, rcvd, chan>>
    BY <1>7 DEF vars, sendVars, recvVars, history, Tick, ChipTimeout, ChipSendTimeout,
                ChipRecvTimeout
  <2> QED BY <1>3, <1>5, <1>6, <1>7, <2>1, LinkChannel
<1>8. ASSUME UNCHANGED <<rxreg, lastread>>, NEW n \in Endpoint, Send(n) \/ Read(n)
      PROVE  StreamOf(d, m)'
  <2>1. d = c
    BY <1>6, <1>8 DEF Send, Read
  <2> QED BY <1>3, <1>8, <2>1, StreamSend, StreamRead
<1>9. ASSUME UNCHANGED <<rxreg, lastread>>, NEW n \in Endpoint, GetSendData(n)
      PROVE  StreamOf(d, m)'
  BY <1>3, <1>5, <1>6, <1>9, StreamGetSendData
<1>10. ASSUME UNCHANGED <<rxreg, lastread>>, NEW t \in Tags, Receive(chip(t))
       PROVE  StreamOf(d, m)'
  BY <1>1, <1>2, <1>3, <1>10, LinkChipReceive
<1>11. ASSUME NEW t \in Tags, Latch(t) PROVE StreamOf(d, m)'
  BY <1>1, <1>2, <1>3, <1>5, <1>11, LinkLatch
<1>12. ASSUME Clear PROVE StreamOf(d, m)'
  BY <1>1, <1>2, <1>3, <1>5, <1>12, LinkClear
<1>13. ASSUME TakesPacket PROVE StreamOf(d, m)'
  BY <1>1, <1>2, <1>3, <1>13, LinkTakes
<1> QED BY <1>7, <1>8, <1>9, <1>10, <1>11, <1>12, <1>13, LinkSteps
-----------------------------------------------------------------------------
(* What holds in every state. *)

LEMMA LinkTypesInit == LLInit => SendInv /\ LinkTypes
<1> SUFFICES ASSUME LLInit PROVE SendInv /\ LinkTypes
  OBVIOUS
<1>1. SendInv
  BY TypeInit, SendSideInit DEF LLInit, SendInv
<1>2. ClearPacket \in [tag : Tags, packet : Packet] /\ 0 \in Tags
  BY TagFacts, PositionTypes DEF ClearPacket, Tagged, Packet
<1>3. rxdata \in [Tags -> Seq(Nat)]
  BY DEF LLInit
<1> QED BY <1>1, <1>2, <1>3 DEF LLInit, LinkTypes

LEMMA LinkTypesAlways == LLSpec => [](SendInv /\ LinkTypes)
<1>1. SendInv /\ LinkTypes /\ [LLNext]_allVars => SendInv' /\ LinkTypes'
  BY LinkSendInv, LinkTypesNext
<1> QED BY <1>1, LinkTypesInit, PTL DEF LLSpec

\* The window keeps its order and the timer runs exactly while something is
\* unacknowledged, whatever the register loses and also across resets.
THEOREM LinkWindowHolds == LLSpec => [](SendWindow /\ RetransmitArmed)
<1>1. SendInv => SendWindow /\ RetransmitArmed
  BY DEF SendInv, SendSide, SendWindow, RetransmitArmed
<1> QED BY <1>1, LinkTypesAlways, PTL

\* Exec ignores whether GetSendData returned a packet (linklayer.h:85-89), and
\* may: it always does.
THEOREM ExecHasPacketHolds ==
  LLSpec => [][ExecPut => \E p \in Packet : chan'[chip(tag)] = Append(chan[chip(tag)], p)]_allVars
<1>1. ASSUME SendInv, LinkTypes, ExecPut
      PROVE  \E p \in Packet : chan'[chip(tag)] = Append(chan[chip(tag)], p)
  <2> DEFINE n == host(tag)
  <2>1. n \in Endpoint /\ GetSendData(n) /\ Peer(n) = chip(tag) /\ chip(tag) \in Endpoint
    <3>1. tag \in Tags /\ GetSendData(n)
      BY <1>1 DEF LinkTypes, ExecPut
    <3>2. Peer(n) = chip(tag)
      BY DEF Peer, host, chip
    <3> QED BY <3>1, <3>2, TagFacts
  <2>2. /\ TypeOK /\ SendSide(n) /\ seqpos[n] \in SeqNo /\ wndpos[n] \in SeqNo /\ sendpos[n] \in SeqNo
        /\ chan \in [Endpoint -> Seq(Packet)]
    BY <1>1, <2>1, SendSideTypes DEF SendInv, TypeOK
  <2> HIDE DEF n
  <2>3. \A p : Transmit(n, p) => chan'[chip(tag)] = Append(chan[chip(tag)], p)
    BY <2>1, <2>2 DEF Transmit
  <2>4. \A pos \in SeqNo : DataPacket(n, pos) \in Packet
    BY <2>1, <2>2, PacketTypes
  <2>5. CASE Resend(n)
    <3>1. seqpos[n] # wndpos[n]
      <4>1. wndpos[n] # sendpos[n]
        BY <2>2, <2>5 DEF Resend, SendSide, T!Armed
      <4>2. /\ Ofs(sendpos[n], wndpos[n]) \in Nat /\ Ofs(sendpos[n], wndpos[n]) # 0
            /\ Ofs(seqpos[n], wndpos[n]) \in Nat
        BY <2>2, <4>1, OfsZero
      <4>3. Ofs(seqpos[n], wndpos[n]) # 0
        BY <2>2, <4>2 DEF SendSide
      <4> QED BY <2>2, <4>3, OfsZero
    <3>2. Transmit(n, DataPacket(n, wndpos[n]))
      BY <2>5, <3>1 DEF Resend, ResendPos
    <3> QED BY <2>2, <2>3, <2>4, <3>2
  <2>6. CASE SendNew(n)
    BY <2>2, <2>3, <2>4, <2>6 DEF SendNew
  <2>7. CASE SendAck(n)
    <3>1. AckPacket(n) \in Packet
      BY <2>1, <2>2, PacketTypes
    <3> QED BY <2>3, <2>7, <3>1 DEF SendAck
  <2> QED BY <2>1, <2>5, <2>6, <2>7 DEF GetSendData
<1>2. SendInv /\ LinkTypes =>
        (ExecPut => \E p \in Packet : chan'[chip(tag)] = Append(chan[chip(tag)], p))
  BY <1>1
<1> QED BY <1>2, LinkTypesAlways, PTL

\* The register at first shows nothing new.
LEMMA SeenInit == LLInit => StreamInv(Seen)
<1> SUFFICES ASSUME LLInit PROVE StreamInv(Seen)
  OBVIOUS
<1>1. SendInv /\ LinkTypes /\ rxreg = lastread /\ Init
  BY LinkTypesInit DEF LLInit
<1>2. chan \in [Endpoint -> Seq(Packet)]
  BY <1>1 DEF SendInv, TypeOK
<1>3. Seen = chan
  <2>1. Seen = [n \in Endpoint |-> chan[n]]
    BY <1>1 DEF Seen, NewPacket
  <2> QED BY <1>2, <2>1
<1>4. StreamInv(chan)
  BY <1>1, <1>2, StreamInit DEF StreamInv
<1> QED BY <1>3, <1>4

LEMMA LinkStreamAlways ==
  ASSUME Divides, NeverResets PROVE LLSpec => [](StreamInv(Seen) /\ LinkTypes)
<1>1. StreamInv(Seen) => SendInv
  BY DEF StreamInv
<1>2. StreamInv(Seen) /\ LinkTypes /\ [LLNext]_allVars => StreamInv(Seen)' /\ LinkTypes'
  <2>1. LinkTypes => ~reset_hicann_arq
    BY DEF reset_hicann_arq, May, LinkTypes, NeverResets
  <2> QED BY <1>1, <2>1, LinkStreamNext, LinkTypesNext
<1>3. LLInit => StreamInv(Seen) /\ LinkTypes
  BY SeenInit, LinkTypesInit
<1> QED BY <1>2, <1>3, PTL DEF LLSpec
-----------------------------------------------------------------------------
\* While the link is not reset, each tag is a bounded FIFO that loses, repeats
\* and reorders nothing, although one register that is overwritten serves both.
THEOREM LinkImplementsStreamHolds ==
  ASSUME Divides, NeverResets PROVE LLSpec => ImplementsStream
<1>1. LLInit => Stream!Init
  BY DEF LLInit, Init, Stream!Init
<1>2. ASSUME StreamInv(Seen), LinkTypes, [LLNext]_allVars PROVE [Stream!Next]_(Stream!vars)
  <2> USE DEF Stream!Next, Stream!vars
  <2>1. ASSUME NEW n \in Endpoint, Send(n) \/ Read(n)
        PROVE  Stream!Put(n) \/ Stream!Get(n)
    BY <1>2, <2>1, PutStep, GetStep
  <2>2. ASSUME NEW n \in Endpoint, GetSendData(n) \/ Tick(n) \/ Receive(n)
        PROVE  UNCHANGED Stream!vars
    BY <2>2 DEF GetSendData, Tick, Receive, ReceivePacket, history
  <2>3. ASSUME NEW t \in Tags, ChipTimeout(t) \/ Latch(t)
        PROVE  UNCHANGED Stream!vars
    BY <2>3 DEF ChipTimeout, ChipSendTimeout, ChipRecvTimeout, Latch, history
  <2>4. UNCHANGED vars \/ Clear \/ TakesPacket => UNCHANGED Stream!vars
    BY DEF Clear, TakesPacket, ReceivePacket, vars, history
  <2>5. ~reset_hicann_arq
    BY <1>2 DEF reset_hicann_arq, May, LinkTypes, NeverResets
  <2> QED BY <1>2, <2>1, <2>2, <2>3, <2>4, <2>5, TagFacts, LinkSteps
<1>3. StreamInv(Seen) /\ LinkTypes /\ [LLNext]_allVars => [Stream!Next]_(Stream!vars)
  BY <1>2
<1> QED BY <1>1, <1>3, LinkStreamAlways, PTL DEF LLSpec, ImplementsStream, Stream!Spec
-----------------------------------------------------------------------------
(* The queue of responses. *)

\* It changes with the count of responses read, or at its front.
LEMMA ResponseSteps ==
  ASSUME SendInv, LinkTypes, NeverResets, [LLNext]_allVars
  PROVE  \/ rxdata' = rxdata /\ \A t \in Tags : rcvd'[host(t)] = rcvd[host(t)]
         \/ /\ Read(host(tag))
            /\ rxdata' = [rxdata EXCEPT ![tag] = Append(@, got'[host(tag)])]
         \/ /\ rcvd' = rcvd
            /\ \E t \in Tags : rxdata[t] # <<>> /\ rxdata' = [rxdata EXCEPT ![t] = Tail(@)]
<1>1. /\ tag \in Tags /\ TypeOK
      /\ \A t, u \in Tags : host(t) \in Endpoint /\ chip(t) \in Endpoint /\ chip(t) # host(u)
  BY TagFacts DEF LinkTypes, SendInv
<1>2. CASE UNCHANGED allVars
  BY <1>2 DEF allVars, llVars, hostVars, vars, history
<1>3. ASSUME Chip PROVE rxdata' = rxdata /\ \A t \in Tags : rcvd'[host(t)] = rcvd[host(t)]
  <2>1. rxdata' = rxdata
    BY <1>3 DEF Chip, ChipReceive, ChipExecute, ChipRespond, ChipSend, Latch, ChipSendTimeout,
                ChipRecvTimeout, llVars, hostVars
  <2>2. PICK u \in Tags :
          \/ ChipReceive(u) \/ ChipExecute(u) \/ ChipRespond(u) \/ ChipSend(u) \/ Latch(u)
          \/ ChipSendTimeout(u) \/ ChipRecvTimeout(u)
    BY <1>3 DEF Chip
  <2>3. CASE ChipExecute(u)
    <3>1. rcvd \in [Endpoint -> Nat] /\ rcvd' = [rcvd EXCEPT ![chip(u)] = @ + 1]
      BY <1>1, <2>3 DEF ChipExecute, Read, TypeOK
    <3> QED BY <1>1, <2>1, <3>1
  <2>4. CASE ChipReceive(u)
    BY <2>1, <2>4 DEF ChipReceive, Receive, ReceivePacket, history
  <2>5. CASE ChipRespond(u) \/ ChipSend(u)
    BY <2>1, <2>5 DEF ChipRespond, ChipSend, Send, GetSendData, history
  <2>6. CASE Latch(u) \/ ChipSendTimeout(u) \/ ChipRecvTimeout(u)
    BY <2>1, <2>6 DEF Latch, ChipSendTimeout, ChipRecvTimeout, history
  <2> QED BY <2>2, <2>3, <2>4, <2>5, <2>6
<1>4. ASSUME Return, ~issueCommandReturns PROVE rxdata' = rxdata /\ rcvd' = rcvd
  <2>1. CASE Exec \/ FlushReturns
    BY <2>1 DEF Exec, FlushReturns, vars, history
  <2>2. CASE ExecPut
    BY <2>2 DEF ExecPut, GetSendData, history
  <2>3. CASE ExecTick \/ ExecTock
    BY <2>3 DEF ExecTick, ExecTock, Tick, history
  <2>4. CASE ExecGate
    BY <2>4 DEF ExecGate, ReceivePacket, vars, history
  <2> QED BY <1>4, <2>1, <2>2, <2>3, <2>4 DEF Return
<1>5. CASE issueCommandReturns
  BY <1>5 DEF issueCommandReturns, vars, history
<1>6. CASE Call
  <2>1. ASSUME NEW t \in Tags, NEW k \in {"write", "read"}, issueCommand(t, k)
        PROVE  rxdata' = rxdata /\ rcvd' = rcvd
    BY <2>1 DEF issueCommand, Send, vars, history
  <2>2. Flush \/ Clear => rxdata' = rxdata /\ rcvd' = rcvd
    BY DEF Flush, Clear, vars, history
  <2>3. ASSUME NEW t \in Tags, recvData(t)
        PROVE  /\ rcvd' = rcvd
               /\ rxdata[t] # <<>> /\ rxdata' = [rxdata EXCEPT ![t] = Tail(@)]
    BY <2>3 DEF recvData, vars, history
  <2>4. ~reset_hicann_arq
    BY DEF reset_hicann_arq, May, LinkTypes, NeverResets
  <2> QED BY <1>6, <2>1, <2>2, <2>3, <2>4 DEF Call
<1> QED BY <1>2, <1>3, <1>4, <1>5, <1>6 DEF LLNext

LEMMA AnswersInOrderNext ==
  ASSUME Divides, NeverResets, StreamInv(Seen), LinkTypes, AnswersInOrder, [LLNext]_allVars
  PROVE  AnswersInOrder'
<1>1. /\ SendInv /\ tag \in Tags /\ rxdata \in [Tags -> Seq(Nat)]
      /\ rcvd \in [Endpoint -> Nat] /\ \A t \in Tags : host(t) \in Endpoint
      /\ \A t, u \in Tags : t # u => host(t) # host(u)
  BY TagFacts DEF StreamInv, SendInv, TypeOK, LinkTypes
<1> SUFFICES ASSUME NEW t \in Tags, NEW i \in DOMAIN rxdata'[t]
             PROVE  rxdata'[t][i] = rcvd'[host(t)] - Len(rxdata'[t]) + i
  BY DEF AnswersInOrder
<1> DEFINE s == rxdata[t]
           r == rcvd[host(t)]
<1>2. /\ s \in Seq(Nat) /\ Len(s) \in Nat /\ DOMAIN s = 1 .. Len(s) /\ r \in Nat
      /\ \A j \in 1 .. Len(s) : s[j] = r - Len(s) + j
  <2>1. s \in Seq(Nat) /\ r \in Nat
    BY <1>1
  <2>2. Len(s) \in Nat /\ DOMAIN s = 1 .. Len(s)
    BY <2>1
  <2>3. \A j \in DOMAIN s : s[j] = r - Len(s) + j
    BY DEF AnswersInOrder
  <2> QED BY <2>1, <2>2, <2>3
<1>3. CASE rxdata'[t] = s /\ rcvd'[host(t)] = r
  BY <1>3 DEF AnswersInOrder
<1>4. CASE /\ Read(host(tag))
           /\ rxdata' = [rxdata EXCEPT ![tag] = Append(@, got'[host(tag)])]
  <2>1. /\ rcvd' = [rcvd EXCEPT ![host(tag)] = @ + 1]
        /\ got' = [got EXCEPT ![host(tag)] = rcvd[host(tag)] + 1]
    BY <1>1, <1>4, GetStep DEF Stream!Get
  <2>2. got \in [Endpoint -> Nat]
    BY <1>1 DEF SendInv, TypeOK
  <2>3. CASE t = tag
    <3>1. rcvd'[host(t)] = r + 1 /\ got'[host(tag)] = r + 1
      BY <1>1, <2>1, <2>2, <2>3
    <3>2. rxdata'[t] = Append(s, r + 1)
      BY <1>1, <1>4, <2>3, <3>1
    <3> HIDE DEF s, r
    <3>3. /\ Len(Append(s, r + 1)) = Len(s) + 1 /\ i \in 1 .. Len(s) + 1
          /\ Append(s, r + 1)[i] = IF i = Len(s) + 1 THEN r + 1 ELSE s[i]
      BY <1>2, <3>2
    <3>4. CASE i = Len(s) + 1
      BY <1>2, <3>1, <3>2, <3>3, <3>4
    <3>5. CASE i # Len(s) + 1
      <4>1. i \in 1 .. Len(s) /\ s[i] = r - Len(s) + i
        BY <1>2, <3>3, <3>5
      <4> QED BY <1>2, <3>1, <3>2, <3>3, <3>5, <4>1
    <3> QED BY <3>4, <3>5
  <2>4. CASE t # tag
    BY <1>1, <1>3, <1>4, <2>1, <2>4
  <2> QED BY <2>3, <2>4
<1>5. ASSUME rcvd' = rcvd, NEW u \in Tags,
             rxdata[u] # <<>>, rxdata' = [rxdata EXCEPT ![u] = Tail(@)]
      PROVE  rxdata'[t][i] = rcvd'[host(t)] - Len(rxdata'[t]) + i
  <2>1. CASE t = u
    <3>1. rxdata'[t] = Tail(s) /\ s # <<>> /\ rcvd'[host(t)] = r
      BY <1>1, <1>5, <2>1
    <3> HIDE DEF s, r
    <3>2. /\ Len(Tail(s)) = Len(s) - 1 /\ i \in 1 .. Len(s) - 1 /\ Tail(s)[i] = s[i + 1]
      BY <1>2, <3>1
    <3>3. i + 1 \in 1 .. Len(s)
      BY <1>2, <3>2
    <3>4. s[i + 1] = r - Len(s) + (i + 1)
      BY <1>2, <3>3
    <3> QED BY <1>2, <3>1, <3>2, <3>4
  <2>2. CASE t # u
    BY <1>1, <1>3, <1>5, <2>2
  <2> QED BY <2>1, <2>2
<1> QED BY <1>1, <1>3, <1>4, <1>5, ResponseSteps

\* While the link is not reset, the responses waiting for the user are the last
\* ones the ARQ object delivered, in the order of the reads: none is skipped and
\* none comes twice, although both tags overwrite one register (s2comm.h:186-213).
THEOREM AnswersInOrderHolds ==
  ASSUME Divides, NeverResets PROVE LLSpec => []AnswersInOrder
<1>1. LLInit => AnswersInOrder
  BY DEF LLInit, AnswersInOrder
<1>2. StreamInv(Seen) /\ LinkTypes /\ AnswersInOrder /\ [LLNext]_allVars => AnswersInOrder'
  BY AnswersInOrderNext
<1> QED BY <1>1, <1>2, LinkStreamAlways, PTL DEF LLSpec
-----------------------------------------------------------------------------
(* The tests of the class and its methods, in counts. *)

LEMMA CountTests ==
  ASSUME Divides, NEW c, StreamInv(c), NEW n \in Endpoint
  PROVE  /\ SendDone(n) <=> Acked(n) = sent[n]
         /\ HasUnsent(n) <=> Transmitted(n) < sent[n]
         /\ WindowFull(n) <=> sent[n] = Acked(n) + WND_S
         /\ HasReadData(n) <=> rcvd[n] < InOrder(n)
         /\ T!Armed(SendTimer[n]) <=> Acked(n) < Transmitted(n)
<1>1. /\ TypeOK /\ SendSide(n) /\ Receiving(n)
      /\ sent[n] \in Nat /\ rcvd[n] \in Nat
      /\ Acked(n) \in Nat /\ Transmitted(n) \in Nat /\ InOrder(n) \in Nat
      /\ Acked(n) <= Transmitted(n) /\ Transmitted(n) <= sent[n]
      /\ rcvd[n] <= InOrder(n) /\ recwndpos[n] = rcvd[n] % SEQ_S
  BY CountFacts, PositionFacts DEF StreamInv, SendInv, StreamOf
<1>2. seqpos[n] \in SeqNo /\ wndpos[n] \in SeqNo /\ sendpos[n] \in SeqNo
  BY <1>1 DEF TypeOK
<1>3. /\ Ofs(seqpos[n], wndpos[n]) \in Nat /\ Ofs(sendpos[n], wndpos[n]) \in Nat
      /\ Ofs(sendpos[n], wndpos[n]) = 0 <=> sendpos[n] = wndpos[n]
  BY <1>2, OfsZero
<1>4. /\ send_valids(n) = sent[n] - Acked(n)
      /\ Ofs(sendpos[n], wndpos[n]) = Transmitted(n) - Acked(n)
  BY <1>1, <1>3 DEF send_valids, Acked, Transmitted
<1>5. Ofs(seqpos[n], sendpos[n]) = sent[n] - Transmitted(n)
  <2>1. Ofs(sendpos[n], wndpos[n]) <= Ofs(seqpos[n], wndpos[n])
    BY <1>1 DEF SendSide
  <2>2. Ofs(seqpos[n], sendpos[n]) = Ofs(seqpos[n], wndpos[n]) - Ofs(sendpos[n], wndpos[n])
    BY <1>2, <2>1, OfsDifference
  <2> QED BY <1>1, <1>3, <1>4, <2>2 DEF send_valids
<1>6. HasReadData(n) <=> Holds(n, rcvd[n])
  BY <1>1, SlotOf DEF HasReadData, Holds
<1>7. rcvd[n] \in Window(n)
  BY <1>1, SizeFacts DEF Window
<1>8. HasReadData(n) <=> rcvd[n] < InOrder(n)
  BY <1>1, <1>6, <1>7 DEF Receiving
<1>9. T!Armed(SendTimer[n]) <=> Acked(n) < Transmitted(n)
  BY <1>1, <1>3, <1>4 DEF SendSide
<1> QED BY <1>1, <1>4, <1>5, <1>8, <1>9, SizeFacts DEF SendDone, HasUnsent, WindowFull

LEMMA SendCounts ==
  ASSUME Divides, NEW c, StreamInv(c), NEW e \in Endpoint, Send(e)
  PROVE  /\ sent[e] < Acked(e) + WND_S
         /\ \A n \in Endpoint : /\ Acked(n)' = Acked(n) /\ Transmitted(n)' = Transmitted(n)
                                /\ InOrder(n)' = InOrder(n)
<1> DEFINE s == sent[e]
<1>1. /\ TypeOK /\ SendSide(e) /\ s \in Nat /\ Acked(e) \in Nat
      /\ Acked(e) <= s /\ s <= Acked(e) + WND_S
  BY CountFacts DEF StreamInv, SendInv, StreamOf
<1>2. /\ UNCHANGED <<wndpos, sendpos, recwndpos, recackpos, rcvd>>
      /\ \A n \in Endpoint \ {e} : sent'[n] = sent[n] /\ seqpos'[n] = seqpos[n]
      /\ sent'[e] = s + 1 /\ seqpos'[e] = Inc(seqpos[e])
  BY <1>1 DEF Send, TypeOK, recvVars
<1> HIDE DEF s
<1>3. seqpos[e] \in SeqNo /\ wndpos[e] \in SeqNo
  BY <1>1, SendSideTypes
<1>4. Ofs(seqpos[e], wndpos[e]) \in Nat
  BY <1>3, OfsZero
<1>5. Ofs(seqpos[e], wndpos[e]) < WND_S
  BY <1>1, <1>4, SizeFacts DEF SendSide, Send, WindowFull, send_valids
<1>6. Ofs(Inc(seqpos[e]), wndpos[e]) = Ofs(seqpos[e], wndpos[e]) + 1
  <2>1. Ofs(seqpos[e], wndpos[e]) < SEQ_S - 1
    BY <1>4, <1>5, SizeFacts
  <2> QED BY <1>3, <2>1, OfsInc
<1>7. Acked(e)' = Acked(e) /\ s < Acked(e) + WND_S
  BY <1>1, <1>2, <1>4, <1>5, <1>6, SizeFacts DEF Acked, s
<1>8. Transmitted(e)' = Transmitted(e)
  BY <1>2, <1>7 DEF Transmitted
<1>9. ASSUME NEW n \in Endpoint \ {e}
      PROVE  Acked(n)' = Acked(n) /\ Transmitted(n)' = Transmitted(n)
  BY <1>2, <1>9, KeepCounts
<1>10. ASSUME NEW n \in Endpoint PROVE InOrder(n)' = InOrder(n)
  BY <1>2, KeepCounts
<1> QED BY <1>7, <1>8, <1>9, <1>10 DEF s

LEMMA ReadCounts ==
  ASSUME Divides, NEW c, StreamInv(c), NEW e \in Endpoint, Read(e)
  PROVE  /\ got' = [got EXCEPT ![e] = rcvd[e] + 1]
         /\ \A n \in Endpoint : /\ Acked(n)' = Acked(n) /\ Transmitted(n)' = Transmitted(n)
                                /\ InOrder(n)' = InOrder(n)
<1>1. TypeOK /\ HasReadData(e)
  BY DEF StreamInv, SendInv, Read
<1>2. /\ UNCHANGED <<seqpos, wndpos, sendpos, recackpos, sent>>
      /\ \A n \in Endpoint \ {e} : rcvd'[n] = rcvd[n] /\ recwndpos'[n] = recwndpos[n]
      /\ rcvd'[e] = rcvd[e] + 1 /\ recwndpos'[e] = Inc(recwndpos[e])
  BY <1>1 DEF Read, TypeOK, sendVars
<1>3. /\ rcvd[e] \in Nat /\ InOrder(e) \in Nat /\ InOrder(e) <= rcvd[e] + WND_S
      /\ recwndpos[e] = rcvd[e] % SEQ_S /\ Inc(recackpos[e]) = InOrder(e) % SEQ_S
      /\ rcvd[e] < InOrder(e)
  BY <1>1, CountFacts, PositionFacts, CountTests
<1>4. InOrder(e)' = InOrder(e)
  <2>1. rcvd[e] + 1 \in Int /\ rcvd[e] \in Int /\ InOrder(e) \in Int
        /\ InOrder(e) - (rcvd[e] + 1) \in 0 .. SEQ_S - 1
    BY <1>3, SizeFacts
  <2>2. recwndpos'[e] = (rcvd[e] + 1) % SEQ_S /\ Inc(recackpos[e])' = InOrder(e) % SEQ_S
    BY <1>2, <1>3, <2>1, CountInc DEF Inc
  <2>3. Ofs(InOrder(e) % SEQ_S, (rcvd[e] + 1) % SEQ_S) = InOrder(e) - (rcvd[e] + 1)
    BY <2>1, CountOfs
  <2>4. InOrder(e)' = (rcvd[e] + 1) + (InOrder(e) - (rcvd[e] + 1))
    BY <1>2, <2>2, <2>3 DEF InOrder
  <2> QED BY <1>3, <2>4
<1>5. ASSUME NEW n \in Endpoint PROVE Acked(n)' = Acked(n) /\ Transmitted(n)' = Transmitted(n)
  BY <1>2, KeepCounts
<1>6. ASSUME NEW n \in Endpoint \ {e} PROVE InOrder(n)' = InOrder(n)
  BY <1>2, KeepCounts
<1>7. got' = [got EXCEPT ![e] = rcvd[e] + 1]
  BY GetStep DEF Stream!Get
<1> QED BY <1>4, <1>5, <1>6, <1>7

\* Which of the three packets GetSendData builds.
Repeats(e) ==
  /\ SendTimer[e].timeout /\ Acked(e) < Transmitted(e) /\ Transmitted(e)' = Transmitted(e)
  /\ Transmit(e, DataPacket(e, wndpos[e]))
Begins(e) ==
  /\ ~SendTimer[e].timeout /\ Transmitted(e) < sent[e] /\ Transmitted(e)' = Transmitted(e) + 1
  /\ Transmit(e, DataPacket(e, sendpos[e]))
  /\ DataPacket(e, sendpos[e]).data = Transmitted(e) + 1
  /\ SendTimer' = [SendTimer EXCEPT ![e] = T!Continue(@)]
Confirms(e) ==
  /\ ~SendTimer[e].timeout /\ Transmitted(e) = sent[e] /\ RecvTimer[e].timeout
  /\ Transmitted(e)' = Transmitted(e) /\ SendTimer' = SendTimer
  /\ Transmit(e, AckPacket(e))

LEMMA GetCounts ==
  ASSUME Divides, NEW c, StreamInv(c), NEW e \in Endpoint, GetSendData(e)
  PROVE  /\ Repeats(e) \/ Begins(e) \/ Confirms(e)
         /\ \A n \in Endpoint : Acked(n)' = Acked(n) /\ InOrder(n)' = InOrder(n)
         /\ \A n \in Endpoint \ {e} :
              Transmitted(n)' = Transmitted(n) /\ SendTimer'[n] = SendTimer[n]
<1>1. /\ TypeOK /\ Sending(e) /\ Acked(e) \in Nat /\ Transmitted(e) \in Nat /\ sent[e] \in Nat
      /\ Acked(e) <= Transmitted(e) /\ Transmitted(e) <= sent[e] /\ sent[e] <= Acked(e) + WND_S
      /\ sendpos[e] = Transmitted(e) % SEQ_S
  BY CountFacts, PositionFacts DEF StreamInv, SendInv, StreamOf
<1>2. UNCHANGED <<seqpos, wndpos, sendbuf, recwndpos, recackpos, rcvd, sent>>
  BY DEF GetSendData, history
<1>3. \A n \in Endpoint : Acked(n)' = Acked(n) /\ InOrder(n)' = InOrder(n)
  BY <1>2, KeepCounts
<1>4. ASSUME NEW n \in Endpoint \ {e}
      PROVE  Transmitted(n)' = Transmitted(n) /\ SendTimer'[n] = SendTimer[n]
  <2>1. sendpos'[n] = sendpos[n]
    BY <1>4, Transmits
  <2>2. SendTimer'[n] = SendTimer[n]
    BY <1>1, <1>4 DEF GetSendData, Resend, SendNew, SendAck, TypeOK
  <2> QED BY <1>2, <1>4, <2>1, <2>2, KeepCounts
<1>5. CASE Resend(e)
  <2>1. Transmitted(e)' = Transmitted(e)
    BY <1>2, <1>5, KeepCounts DEF Resend
  <2>2. SendTimer[e].timeout /\ Acked(e) < Transmitted(e)
    BY <1>5, CountTests DEF Resend, T!Armed
  <2>3. seqpos[e] # wndpos[e]
    <3>1. ~SendDone(e)
      BY <1>1, <2>2, CountTests
    <3>2. seqpos[e] \in SeqNo /\ wndpos[e] \in SeqNo
      BY <1>1 DEF TypeOK
    <3> QED BY <3>1, <3>2, OfsZero DEF SendDone, send_valids
  <2> QED BY <1>3, <1>4, <1>5, <2>1, <2>2, <2>3 DEF Resend, ResendPos, Repeats
<1>6. CASE SendNew(e)
  <2>1. Transmitted(e) < sent[e] /\ sendpos'[e] = Inc(sendpos[e])
    BY <1>1, <1>6, CountTests DEF SendNew, TypeOK
  <2>2. Transmitted(e)' = Transmitted(e) + 1
    <3>1. sendpos[e] \in SeqNo /\ wndpos[e] \in SeqNo
      BY <1>1 DEF TypeOK
    <3>2. Ofs(sendpos[e], wndpos[e]) \in Nat /\ Ofs(sendpos[e], wndpos[e]) = Transmitted(e) - Acked(e)
      <4>1. Ofs(sendpos[e], wndpos[e]) \in Nat
        BY <3>1, OfsZero
      <4> QED BY <1>1, <4>1 DEF Transmitted
    <3>3. Ofs(sendpos[e], wndpos[e]) < SEQ_S - 1
      BY <1>1, <2>1, <3>2, SizeFacts
    <3>4. Ofs(Inc(sendpos[e]), wndpos[e]) = Ofs(sendpos[e], wndpos[e]) + 1
      BY <3>1, <3>3, OfsInc
    <3>5. Transmitted(e)' = Acked(e) + (Ofs(sendpos[e], wndpos[e]) + 1)
      BY <1>2, <1>3, <2>1, <3>4 DEF Transmitted
    <3> QED BY <1>1, <3>2, <3>5
  <2>3. DataPacket(e, sendpos[e]).data = Transmitted(e) + 1
    <3>1. Transmitted(e) \in Acked(e) .. sent[e] - 1 /\ Transmitted(e) \in Int
      BY <1>1, <2>1
    <3>2. sendpos[e] % WND_S = Transmitted(e) % WND_S
      BY <1>1, <3>1, SlotOf
    <3> QED BY <1>1, <3>1, <3>2 DEF Sending, DataPacket
  <2> QED BY <1>3, <1>4, <1>6, <2>1, <2>2, <2>3 DEF SendNew, Begins
<1>7. CASE SendAck(e)
  <2>1. Transmitted(e)' = Transmitted(e)
    BY <1>2, <1>7, KeepCounts DEF SendAck
  <2>2. Transmitted(e) = sent[e]
    BY <1>1, <1>7, CountTests DEF SendAck
  <2> QED BY <1>3, <1>4, <1>7, <2>1, <2>2 DEF SendAck, Confirms
<1> QED BY <1>5, <1>6, <1>7 DEF GetSendData

\* A packet that acknowledges everything transmitted empties the window.
LEMMA AcksAll ==
  ASSUME TypeOK, NEW n \in Endpoint, NEW p \in Packet, Inc(p.ack) = sendpos[n], ReceiveAck(n, p)
  PROVE  wndpos' = [wndpos EXCEPT ![n] = sendpos[n]]
         /\ \A m \in Endpoint \ {n} : SendTimer'[m] = SendTimer[m]
<1> DEFINE w == wndpos[n]
           a == p.ack
           s == sendpos[n]
<1>1. /\ w \in SeqNo /\ a \in SeqNo /\ s \in SeqNo /\ SEQ_S \in Nat \ {0}
      /\ wndpos \in [Endpoint -> SeqNo] /\ SendTimer \in [Endpoint -> T!TimerType]
  BY SizeFacts DEF TypeOK, Packet
<1>2. \A m \in Endpoint \ {n} : SendTimer'[m] = SendTimer[m]
  BY <1>1 DEF ReceiveAck
<1>3. IF Ofs(a, w) < Ofs(s, w) THEN wndpos' = [wndpos EXCEPT ![n] = (w + Ofs(a, w) + 1) % SEQ_S]
                               ELSE wndpos' = wndpos
  BY DEF ReceiveAck
<1> HIDE DEF w, a, s
<1>4. /\ Ofs(a, w) \in Nat /\ Ofs(a, w) < SEQ_S /\ Ofs(s, w) \in Nat /\ Ofs(s, w) < SEQ_S
      /\ Ofs(s, w) = 0 <=> s = w
  BY <1>1, OfsZero
<1>5. w \in Int /\ w % SEQ_S = w
  BY <1>1, ModSmall DEF SeqNo
<1>6. s = (w + Ofs(s, w)) % SEQ_S
  BY <1>1, <1>5, PositionAhead
<1>7. s = Inc(a)
  BY DEF s, a
<1>8. CASE Ofs(a, w) < SEQ_S - 1
  <2>1. Ofs(s, w) = Ofs(a, w) + 1
    BY <1>1, <1>7, <1>8, OfsInc
  <2>2. w + Ofs(a, w) + 1 = w + Ofs(s, w)
    BY <1>4, <1>5, <2>1
  <2>3. wndpos' = [wndpos EXCEPT ![n] = s]
    BY <1>3, <1>4, <1>6, <2>1, <2>2
  <2> QED BY <1>2, <2>3 DEF s
<1>9. CASE ~(Ofs(a, w) < SEQ_S - 1)
  <2>1. ~(Ofs(a, w) < Ofs(s, w))
    BY <1>1, <1>4, <1>9
  <2>2. s = w
    <3>1. a = (w + Ofs(a, w)) % SEQ_S /\ Ofs(a, w) = SEQ_S - 1
      <4>1. Ofs(a, w) = SEQ_S - 1
        BY <1>1, <1>4, <1>9
      <4>2. a = (w + Ofs(a, w % SEQ_S)) % SEQ_S
        BY <1>1, <1>5, PositionAhead
      <4> QED BY <1>5, <4>1, <4>2
    <3>2. (((w + (SEQ_S - 1)) % SEQ_S) + 1) % SEQ_S = (w + (SEQ_S - 1) + 1) % SEQ_S
      <4>1. w + (SEQ_S - 1) \in Int /\ 1 \in Int
        BY <1>1, <1>5
      <4> QED BY <1>1, <4>1, ModAdd
    <3>3. w + (SEQ_S - 1) + 1 = 1 * SEQ_S + w /\ w + (SEQ_S - 1) + 1 \in Int
      BY <1>1, <1>5
    <3>4. w \in 0 .. SEQ_S - 1
      BY <1>1 DEF SeqNo
    <3>5. (w + (SEQ_S - 1) + 1) % SEQ_S = w
      BY <1>1, <3>3, <3>4, ModIs
    <3> QED BY <1>7, <3>1, <3>2, <3>5 DEF Inc
  <2>3. wndpos' = wndpos
    BY <1>3, <2>1
  <2> QED BY <1>1, <1>2, <2>2, <2>3 DEF w, s
<1> QED BY <1>8, <1>9

LEMMA ReceivesAll ==
  ASSUME Divides, NEW c, StreamInv(c), NEW e \in Endpoint, Arrives(c, e),
         Inc(c[e][1].ack) = sendpos[e]
  PROVE  /\ Acked(e)' = Transmitted(e) /\ wndpos'[e] = sendpos[e]
         /\ \A n \in Endpoint : Transmitted(n)' = Transmitted(n)
         /\ \A n \in Endpoint \ {e} : /\ Acked(n)' = Acked(n) /\ InOrder(n)' = InOrder(n)
                                      /\ wndpos'[n] = wndpos[n] /\ recackpos'[n] = recackpos[n]
                                      /\ SendTimer'[n] = SendTimer[n]
<1>1. /\ TypeOK /\ SendSide(e) /\ c[e] \in Seq(Packet) /\ c[e] # <<>>
      /\ ReceiveAck(e, c[e][1])
      /\ UNCHANGED <<seqpos, sendpos, sent, recwndpos, rcvd>>
  BY DEF StreamInv, SendInv, Arrives, ReceivePacket, history
<1>2. c[e][1] \in Packet
  BY <1>1
<1>3. /\ wndpos' = [wndpos EXCEPT ![e] = sendpos[e]]
      /\ \A m \in Endpoint \ {e} : SendTimer'[m] = SendTimer[m]
  BY <1>1, <1>2, AcksAll
<1>4. wndpos'[e] = sendpos[e] /\ \A n \in Endpoint \ {e} : wndpos'[n] = wndpos[n]
  BY <1>1, <1>3 DEF TypeOK
<1>5. Acked(e)' = Transmitted(e)
  <2>1. seqpos[e] \in SeqNo /\ wndpos[e] \in SeqNo /\ sendpos[e] \in SeqNo
    BY <1>1 DEF TypeOK
  <2>2. Ofs(seqpos[e], sendpos[e]) = Ofs(seqpos[e], wndpos[e]) - Ofs(sendpos[e], wndpos[e])
    BY <1>1, <2>1, OfsDifference DEF SendSide
  <2>3. sent[e] \in Nat /\ Ofs(seqpos[e], wndpos[e]) \in Nat /\ Ofs(sendpos[e], wndpos[e]) \in Nat
    BY <1>1, <2>1, OfsZero DEF TypeOK
  <2>4. Acked(e)' = sent[e] - Ofs(seqpos[e], sendpos[e])
    BY <1>1, <1>4 DEF Acked
  <2>5. Transmitted(e) = sent[e] - Ofs(seqpos[e], wndpos[e]) + Ofs(sendpos[e], wndpos[e])
    BY DEF Transmitted, Acked
  <2> QED BY <2>2, <2>3, <2>4, <2>5
<1>6. Transmitted(e)' = Transmitted(e)
  BY Learns
<1>7. ASSUME NEW n \in Endpoint \ {e}
      PROVE  /\ Acked(n)' = Acked(n) /\ Transmitted(n)' = Transmitted(n)
             /\ InOrder(n)' = InOrder(n) /\ recackpos'[n] = recackpos[n]
  <2>1. recackpos'[n] = recackpos[n]
    BY <1>7, Takes
  <2> QED BY <1>1, <1>4, <1>7, <2>1, KeepCounts
<1> QED BY <1>3, <1>4, <1>5, <1>6, <1>7

\* The next payload arrives at an end that holds nothing else.
LEMMA TakesNext ==
  ASSUME Divides, NEW c, StreamInv(c), NEW e \in Endpoint, Arrives(c, e),
         c[e][1].seqvalid, c[e][1].data = rcvd[e] + 1, InOrder(e) = rcvd[e],
         InOrder(e)' <= rcvd[e] + 1
  PROVE  /\ InOrder(e)' = rcvd[e] + 1
         /\ RecvTimer' = [RecvTimer EXCEPT ![e] = T!Continue(@)]
<1> DEFINE p == c[e][1]
           r == rcvd[e]
<1>1. /\ TypeOK /\ Receiving(e) /\ DataPackets(c, e) /\ c[e] \in Seq(Packet) /\ c[e] # <<>>
      /\ ReceiveData(e, p) /\ r \in Nat /\ recwndpos[e] = r % SEQ_S
      /\ recwndpos[e] \in SeqNo /\ WND_S \in Nat \ {0} /\ SEQ_S \in Nat
  <2>1. r \in Nat /\ recwndpos[e] = r % SEQ_S
    BY CountFacts, PositionFacts
  <2> QED BY <2>1, SizeFacts DEF StreamInv, SendInv, StreamOf, TypeOK, Arrives, ReceivePacket
<1>2. p.seq = r % SEQ_S
  <2>1. 1 \in DOMAIN c[e]
    BY <1>1
  <2>2. Fits(c, e, 1)
    BY <1>1, <2>1 DEF DataPackets
  <2>3. p.data - 1 = r
    BY <1>1
  <2> QED BY <2>2, <2>3 DEF Fits
<1>3. p.seq % WND_S = r % WND_S /\ r % WND_S \in Slot
  <2>1. r \in Int
    BY <1>1
  <2>2. (r % SEQ_S) % WND_S = r % WND_S /\ r % WND_S \in Slot
    BY <2>1, SlotOf, CountTypes
  <2> QED BY <1>2, <2>2
<1>4. r \in Window(e)
  BY <1>1 DEF Window
<1>5. Accepts(e, p)
  <2>1. Ofs(p.seq, recwndpos[e]) = 0
    BY <1>1, <1>2, OfsZero
  <2>2. ~Holds(e, r)
    BY <1>1, <1>4 DEF Receiving
  <2> QED BY <1>1, <1>3, <2>1, <2>2 DEF Accepts, Holds
<1>6. /\ recvalids' = [recvalids EXCEPT ![e] = [recvalids[e] EXCEPT ![p.seq % WND_S] = TRUE]]
      /\ RecvTimer' = [RecvTimer EXCEPT ![e] = T!Continue(@)]
  BY <1>1, <1>5 DEF ReceiveData, AckDue
<1>7. recvalids'[e][r % WND_S]
  BY <1>1, <1>3, <1>6 DEF TypeOK
<1>8. /\ InOrder(e)' \in Nat /\ InOrder(e) <= InOrder(e)'
      /\ r = InOrder(e)' => ~recvalids'[e][r % WND_S]
  BY <1>4, Takes
<1>9. InOrder(e)' # r
  BY <1>7, <1>8
<1>10. InOrder(e)' = r + 1
  <2> HIDE DEF r
  <2>1. r <= InOrder(e)' /\ InOrder(e)' <= r + 1
    BY <1>1, <1>8 DEF r
  <2> QED BY <1>1, <1>8, <1>9, <2>1
<1> QED BY <1>6, <1>10

LEMMA TakesNothing ==
  ASSUME NEW e, NEW p, ~p.seqvalid, ReceivePacket(e, p)
  PROVE  UNCHANGED <<recbuf, recvalids, recackpos, recwndpos, RecvTimer>>
BY DEF ReceivePacket, ReceiveData, Accepts
-----------------------------------------------------------------------------
(* Every read is answered before the call that issued it returns.          *)
(*                                                                         *)
(* Between two accesses to JTAG the chip comes to rest.  What it repeats   *)
(* then is the answer to the last read, which the host has taken or finds  *)
(* at the gate of the Exec that sent the read; its acknowledgement is sent *)
(* by the next Exec of the tag, nested in that of the other tag or not.    *)

\* What the values of linklayer.h:35-51 and a JTAG that is slower than the chip
\* are needed for: acknowledgements are sent at once, max_issued_cmds commands
\* pass before a packet is repeated, and the first packet that is taken does
\* not look like the cleared register.
JtagConstants ==
  /\ PromptChip /\ RECV_TIMEOUT = 0
  /\ SEND_TIMEOUT >= 2 * max_issued_cmds
  /\ max_issued_cmds > 1

One(b) == IF b THEN 1 ELSE 0

\* The tag whose command is executed, also while the other one runs a nested Exec.
Caller == IF callback THEN other(tag) ELSE tag
Unsent(t) == pc # "idle" /\ t = Caller /\ (callback \/ pc \in {"exec", "put"})
Asked(t)  == pc # "idle" /\ t = Caller /\ kind[t][Len(kind[t])] = "read"
Under(t, stage)  == t = tag /\ ~callback /\ pc = stage
Nested(t, stage) == t = tag /\ callback /\ pc = stage
Busy(t)  == Under(t, "tick") \/ Under(t, "gate")
Aside(t) == ~callback /\ pc \in {"put", "tick", "gate"} /\ t # tag

Out(t)  == Transmitted(host(t)) - Acked(host(t))
Owes(t) == Acked(chip(t)) < sent[chip(t)]

Shape ==
  /\ kind \in [Tags -> Seq({"write", "read"})]
  /\ \A t \in Tags : Len(kind[t]) = sent[host(t)]
  /\ due \in [Tags -> Nat] /\ issued_cmds \in [Tags -> Nat]
  /\ writeflag \in [Tags -> [Slot -> BOOLEAN]]
  /\ callback \in BOOLEAN /\ op \in {"none", "issueCommand"}
  /\ pc \in {"idle", "exec", "put", "tick", "gate", "tock", "return"}
  /\ pc # "idle" => op = "issueCommand"
  /\ pc \in {"idle", "return"} => ~callback
  /\ ~refused

\* Commands transmitted and responses taken.
Counts(t) ==
  /\ sent[host(t)] = Transmitted(host(t)) + One(Unsent(t))
  /\ rcvd[host(t)] + One(Asked(t)) = ReadsIssued(t)
  /\ InOrder(host(t)) = rcvd[host(t)] + One(Asked(t) /\ (Under(t, "tock") \/ Under(t, "return")))

\* Between two calls fewer than max_issued_cmds commands are unacknowledged.
Unacked(t) ==
  /\ Out(t) <= max_issued_cmds
  /\ \/ Out(t) = 0
     \/ Out(t) <= issued_cmds[t] /\ (issued_cmds[t] < max_issued_cmds \/ Busy(t))
  /\ Busy(t) => Out(t) >= 1 /\ (Asked(t) => issued_cmds[t] > max_issued_cmds)
  /\ Unsent(t) => (writeflag[t][sendpos[host(t)] % WND_S] <=> ~Asked(t))

\* No packet of the host is repeated; a response is acknowledged at once.
HostTimers(t) ==
  /\ ~SendTimer[host(t)].timeout /\ SendTimer[host(t)].max = SEND_TIMEOUT
  /\ SendTimer[host(t)].enabled =>
       SendTimer[host(t)].value + 2 * Out(t)
         >= SEND_TIMEOUT + 2 * One(Under(t, "tick")) + One(Under(t, "gate") \/ Under(t, "tock"))
  /\ RecvTimer[host(t)].max = 0
  /\ RecvTimer[host(t)].enabled => RecvTimer[host(t)].value = 0 /\ Under(t, "tock")
  /\ T!Armed(RecvTimer[host(t)]) => Out(t) = 0

\* The packet taken last tells what was acknowledged last, or none was taken.
Shown(t) == lastread.tag = t =>
  \/ Inc(lastread.packet.ack) = wndpos[host(t)]
  \/ /\ lastread = ClearPacket /\ Acked(host(t)) = 0
     /\ issued_cmds[t] <= Out(t) \/ (Busy(t) /\ Asked(t))

HostPart(t) == Counts(t) /\ Unacked(t) /\ HostTimers(t) /\ Shown(t)

\* The packet the chip repeats until it is acknowledged.
Response(t) == Tagged(t, DataPacket(chip(t), wndpos[chip(t)]))
Only(s, p) == \A i \in DOMAIN s : s[i] = p

\* All the chip may do for t is to repeat one response.
Rests(t) ==
  /\ due[t] = 0 /\ ~T!Armed(RecvTimer[chip(t)])
  /\ Transmitted(chip(t)) = sent[chip(t)] /\ sent[chip(t)] <= Acked(chip(t)) + 1
  /\ InOrder(chip(t)) = rcvd[chip(t)]

\* Outside the wait after a packet to t, the chip rests, and what it repeats is
\* in the register; before the gate that is the answer to the command.
Calm(t) ==
  /\ Rests(t) /\ chan[chip(t)] = <<>> /\ rcvd[chip(t)] = Transmitted(host(t))
  /\ ~Owes(t) => chan[host(t)] = <<>> /\ ~T!Armed(RecvTimer[host(t)])
  /\ Owes(t) => /\ rxreg = Response(t) /\ Only(chan[host(t)], rxreg.packet)
                /\ \/ Under(t, "gate")
                   \/ lastread = rxreg /\ T!Armed(RecvTimer[host(t)])
  /\ Under(t, "gate") =>
       /\ rxreg.tag = t /\ rxreg.packet.ack = recackpos[chip(t)]
       /\ Acked(chip(t)) = rcvd[host(t)] /\ sent[chip(t)] = rcvd[host(t)] + One(Asked(t))
       /\ ~T!Armed(RecvTimer[host(t)])
  /\ ~Under(t, "gate") => sent[chip(t)] = InOrder(host(t))
  /\ Nested(t, "exec") \/ Nested(t, "put") => T!Armed(RecvTimer[host(t)])
  /\ Nested(t, "gate") \/ Nested(t, "tock") => ~Owes(t) /\ Out(t) = 0
  /\ Nested(t, "gate") => lastread = rxreg
  /\ Aside(t) => ~Owes(t)

\* The acknowledgement a nested Exec sends is under way or has arrived.
Acking(t) ==
  /\ Rests(t) /\ ~T!Armed(RecvTimer[host(t)]) /\ Out(t) = 0
  /\ rcvd[chip(t)] = Transmitted(host(t)) /\ sent[chip(t)] = InOrder(host(t))
  /\ lastread = rxreg /\ rxreg.tag = t /\ Only(chan[host(t)], rxreg.packet)
  /\ Owes(t) => rxreg = Response(t)
  /\ \/ ~Owes(t) /\ chan[chip(t)] = <<>>
     \/ \E p \in Packet : chan[chip(t)] = <<p>> /\ ~p.seqvalid /\ p.ack = recackpos[host(t)]

\* The packet of t the register will show when the channel is drained.
Shows(t, p) ==
  IF chan[host(t)] = <<>> THEN rxreg = Tagged(t, p)
                          ELSE chan[host(t)][Len(chan[host(t)])] = p

\* A command is under way.
Coming(t) ==
  /\ Rests(t)
  /\ \E p \in Packet : /\ chan[chip(t)] = <<p>> /\ p.seqvalid /\ p.ack = recackpos[host(t)]
                       /\ p.data = Transmitted(host(t))
  /\ rcvd[chip(t)] + 1 = Transmitted(host(t)) /\ sent[chip(t)] = InOrder(host(t))

\* It has arrived; with the last packet sent it is acknowledged and answered.
Arrived(t) ==
  /\ chan[chip(t)] = <<>> /\ InOrder(chip(t)) = Transmitted(host(t))
  /\ Acked(chip(t)) = rcvd[host(t)]
  /\ \/ rcvd[chip(t)] + 1 = Transmitted(host(t)) /\ sent[chip(t)] = rcvd[host(t)] /\ due[t] = 0
     \/ rcvd[chip(t)] = Transmitted(host(t)) /\ sent[chip(t)] + due[t] = rcvd[host(t)] + One(Asked(t))
  /\ ~T!Armed(RecvTimer[chip(t)]) =>
       \E p \in Packet : Shows(t, p) /\ p.ack = recackpos[chip(t)]
  /\ Owes(t) /\ Transmitted(chip(t)) = sent[chip(t)] =>
       ~T!Armed(RecvTimer[chip(t)]) /\ Shows(t, Response(t).packet)

Working(t) == ~T!Armed(RecvTimer[host(t)]) /\ (Coming(t) \/ Arrived(t))

ChipPart(t) ==
  /\ Under(t, "tick") => Working(t)
  /\ Nested(t, "tick") => Acking(t)
  /\ ~Under(t, "tick") /\ ~Nested(t, "tick") => Calm(t)

AnswerInv == Shape /\ \A t \in Tags : HostPart(t) /\ ChipPart(t)
LinkInv == StreamInv(Seen) /\ LinkTypes /\ CommandsOnly /\ AnswerInv
-----------------------------------------------------------------------------
(* What a step leaves alone. *)

\* An end that a step does not touch, but for its timers and channels.
Same(n) ==
  /\ sent'[n] = sent[n] /\ rcvd'[n] = rcvd[n] /\ sendbuf'[n] = sendbuf[n]
  /\ wndpos'[n] = wndpos[n] /\ sendpos'[n] = sendpos[n] /\ recackpos'[n] = recackpos[n]
  /\ Acked(n)' = Acked(n) /\ Transmitted(n)' = Transmitted(n) /\ InOrder(n)' = InOrder(n)

\* The timers of t's host end, and its share of the members of LinkLayer.
SameHost(t) ==
  /\ SendTimer'[host(t)] = SendTimer[host(t)] /\ RecvTimer'[host(t)] = RecvTimer[host(t)]
  /\ kind'[t] = kind[t] /\ writeflag'[t] = writeflag[t] /\ issued_cmds'[t] = issued_cmds[t]

\* t's place in the call does not change, or not so that HostPart notices.
SameCall(t) ==
  /\ Unsent(t)' <=> Unsent(t)
  /\ Asked(t)' <=> Asked(t)
  /\ \A l \in {"tick", "gate", "tock", "return"} : Under(t, l)' <=> Under(t, l)

LEMMA HostKeeps ==
  ASSUME NEW t \in Tags, HostPart(t), Same(host(t)), SameHost(t), SameCall(t),
         lastread' = lastread \/ lastread'.tag # t
  PROVE  HostPart(t)'
<1>1. /\ Unsent(t)' <=> Unsent(t)
      /\ Asked(t)' <=> Asked(t)
      /\ Under(t, "tick")' <=> Under(t, "tick")
      /\ Under(t, "gate")' <=> Under(t, "gate")
      /\ Under(t, "tock")' <=> Under(t, "tock")
      /\ Under(t, "return")' <=> Under(t, "return")
  BY DEF SameCall
<1>2. (Busy(t)' <=> Busy(t)) /\ Out(t)' = Out(t) /\ ReadsIssued(t)' = ReadsIssued(t)
  BY <1>1 DEF Busy, Out, Same, SameHost, ReadsIssued
<1>3. Counts(t)'
  BY <1>1, <1>2 DEF HostPart, Counts, Same, One
<1>4. Unacked(t)'
  BY <1>1, <1>2 DEF HostPart, Unacked, Same, SameHost
<1>5. HostTimers(t)'
  BY <1>1, <1>2 DEF HostPart, HostTimers, SameHost, One
<1>6. Shown(t)'
  BY <1>1, <1>2 DEF HostPart, Shown, Same, SameHost, ClearPacket, Tagged
<1> QED BY <1>3, <1>4, <1>5, <1>6 DEF HostPart

\* What is under way between the ends of t, what the register shows, and what
\* the chip has to do.
SameLink(t) ==
  /\ chan'[host(t)] = chan[host(t)] /\ chan'[chip(t)] = chan[chip(t)]
  /\ due'[t] = due[t] /\ rxreg' = rxreg /\ lastread' = lastread
  /\ T!Armed(RecvTimer'[host(t)]) <=> T!Armed(RecvTimer[host(t)])
  /\ T!Armed(RecvTimer'[chip(t)]) <=> T!Armed(RecvTimer[chip(t)])

LEMMA RestsKeeps ==
  ASSUME NEW t \in Tags, Rests(t), Same(chip(t)), due'[t] = due[t],
         T!Armed(RecvTimer'[chip(t)]) <=> T!Armed(RecvTimer[chip(t)])
  PROVE  Rests(t)'
BY DEF Rests, Same

LEMMA ResponseKeeps ==
  ASSUME NEW t \in Tags, Same(chip(t))
  PROVE  Response(t)' = Response(t) /\ (Owes(t)' <=> Owes(t))
BY DEF Response, Tagged, DataPacket, Same, Owes

\* The call goes on, but t is not at its gate before or after.
LEMMA CalmKeeps ==
  ASSUME NEW t \in Tags, Calm(t), Same(chip(t)), SameLink(t),
         Transmitted(host(t))' = Transmitted(host(t)), InOrder(host(t))' = InOrder(host(t)),
         ~Under(t, "gate"), ~Under(t, "gate")',
         Nested(t, "exec")' \/ Nested(t, "put")' => T!Armed(RecvTimer[host(t)]),
         Nested(t, "gate")' \/ Nested(t, "tock")' => ~Owes(t) /\ Out(t)' = 0,
         Nested(t, "gate")' => lastread = rxreg,
         Aside(t)' => ~Owes(t)
  PROVE  Calm(t)'
<1>1. Rests(t)'
  BY RestsKeeps DEF Calm, SameLink
<1>2. Response(t)' = Response(t) /\ (Owes(t)' <=> Owes(t))
  BY ResponseKeeps
<1> QED BY <1>1, <1>2 DEF Calm, Same, SameLink, Only

LEMMA CalmAtGate ==
  ASSUME NEW t \in Tags, Calm(t), Same(chip(t)), SameLink(t), Same(host(t)),
         Under(t, "gate"), Under(t, "gate")', Asked(t)' <=> Asked(t)
  PROVE  Calm(t)'
<1>1. Rests(t)'
  BY RestsKeeps DEF Calm, SameLink
<1>2. Response(t)' = Response(t) /\ (Owes(t)' <=> Owes(t))
  BY ResponseKeeps
<1>3. ~Nested(t, "exec")' /\ ~Nested(t, "put")' /\ ~Nested(t, "gate")' /\ ~Nested(t, "tock")' /\ ~Aside(t)'
  BY DEF Under, Nested, Aside
<1> QED BY <1>1, <1>2, <1>3 DEF Calm, Same, SameLink, Only, One

LEMMA AckingKeeps ==
  ASSUME NEW t \in Tags, Acking(t), Same(chip(t)), Same(host(t)), SameLink(t)
  PROVE  Acking(t)'
<1>1. Rests(t)'
  BY RestsKeeps DEF Acking, SameLink
<1>2. Response(t)' = Response(t) /\ (Owes(t)' <=> Owes(t))
  BY ResponseKeeps
<1> QED BY <1>1, <1>2 DEF Acking, Same, SameLink, Only, Out

LEMMA WorkingKeeps ==
  ASSUME NEW t \in Tags, Working(t), Same(chip(t)), Same(host(t)), SameLink(t), Asked(t)' <=> Asked(t)
  PROVE  Working(t)'
<1>1. Response(t)' = Response(t) /\ (Owes(t)' <=> Owes(t))
  BY ResponseKeeps
<1>2. CASE Coming(t)
  <2>1. Rests(t)'
    BY <1>2, RestsKeeps DEF Coming, SameLink
  <2> QED BY <1>2, <2>1 DEF Working, Coming, Same, SameLink
<1>3. CASE Arrived(t)
  <2>1. \A p : Shows(t, p)' <=> Shows(t, p)
    BY DEF Shows, Tagged, SameLink
  <2> QED BY <1>1, <1>3, <2>1 DEF Working, Arrived, Same, SameLink, One
<1> QED BY <1>2, <1>3 DEF Working

\* A step of the chip for the other tag, or one that does nothing for t.
LEMMA ChipKeeps ==
  ASSUME NEW t \in Tags, ChipPart(t), Same(host(t)), Same(chip(t)), SameLink(t),
         UNCHANGED <<kind, op, tag, callback, pc>>
  PROVE  ChipPart(t)'
<1>1. /\ Asked(t)' <=> Asked(t)
      /\ \A l : (Under(t, l)' <=> Under(t, l)) /\ (Nested(t, l)' <=> Nested(t, l))
      /\ Aside(t)' <=> Aside(t)
      /\ Out(t)' = Out(t)
  BY DEF Asked, Caller, Under, Nested, Aside, Out, Same
<1>2. CASE Under(t, "tick")
  <2>1. Working(t)' /\ ~Nested(t, "tick")'
    BY <1>1, <1>2, WorkingKeeps DEF ChipPart, Under, Nested
  <2> QED BY <1>1, <1>2, <2>1 DEF ChipPart
<1>3. CASE Nested(t, "tick")
  <2>1. Acking(t)' /\ ~Under(t, "tick")'
    BY <1>1, <1>3, AckingKeeps DEF ChipPart, Under, Nested
  <2> QED BY <1>1, <1>3, <2>1 DEF ChipPart
<1>4. CASE ~Under(t, "tick") /\ ~Nested(t, "tick")
  <2>1. Calm(t)
    BY <1>4 DEF ChipPart
  <2>2. Calm(t)'
    <3>1. CASE Under(t, "gate")
      BY <1>1, <2>1, <3>1, CalmAtGate
    <3>2. CASE ~Under(t, "gate")
      BY <1>1, <2>1, <3>2, CalmKeeps DEF Same, Calm
    <3> QED BY <3>1, <3>2
  <2> QED BY <1>1, <1>4, <2>2 DEF ChipPart
<1> QED BY <1>2, <1>3, <1>4
-----------------------------------------------------------------------------
(* What the methods of an ARQ object leave alone. *)

SameTimers(n) == SendTimer'[n] = SendTimer[n] /\ RecvTimer'[n] = RecvTimer[n]

LEMMA SameAll ==
  ASSUME UNCHANGED <<seqpos, wndpos, sendpos, sendbuf, recwndpos, recackpos, sent, rcvd>>,
         NEW n \in Endpoint
  PROVE  Same(n)
BY KeepCounts DEF Same

LEMMA SendSame ==
  ASSUME Divides, NEW c, StreamInv(c), NEW e \in Endpoint, Send(e)
  PROVE  /\ UNCHANGED <<chan, SendTimer, RecvTimer, rcvd, wndpos, sendpos, recackpos>>
         /\ sent'[e] = sent[e] + 1
         /\ \A n \in Endpoint \ {e} : Same(n)
         /\ \A n \in Endpoint : /\ Acked(n)' = Acked(n) /\ Transmitted(n)' = Transmitted(n)
                                /\ InOrder(n)' = InOrder(n)
<1>1. TypeOK
  BY DEF StreamInv, SendInv
<1>2. UNCHANGED <<chan, SendTimer, RecvTimer, rcvd, wndpos, sendpos, recackpos>>
  BY DEF Send, recvVars
<1>3. \A n \in Endpoint : /\ Acked(n)' = Acked(n) /\ Transmitted(n)' = Transmitted(n)
                          /\ InOrder(n)' = InOrder(n)
  BY SendCounts
<1>4. sent'[e] = sent[e] + 1 /\ \A n \in Endpoint \ {e} : sent'[n] = sent[n] /\ sendbuf'[n] = sendbuf[n]
  BY <1>1 DEF Send, TypeOK
<1> QED BY <1>2, <1>3, <1>4 DEF Same

LEMMA ReadSame ==
  ASSUME Divides, NEW c, StreamInv(c), NEW e \in Endpoint, Read(e)
  PROVE  /\ UNCHANGED <<chan, SendTimer, RecvTimer, sent, wndpos, sendpos, recackpos, sendbuf>>
         /\ rcvd'[e] = rcvd[e] + 1 /\ got'[e] = rcvd[e] + 1 /\ rcvd[e] < InOrder(e)
         /\ \A n \in Endpoint \ {e} : Same(n)
         /\ \A n \in Endpoint : /\ Acked(n)' = Acked(n) /\ Transmitted(n)' = Transmitted(n)
                                /\ InOrder(n)' = InOrder(n)
<1>1. TypeOK /\ HasReadData(e)
  BY DEF StreamInv, SendInv, Read
<1>2. UNCHANGED <<chan, SendTimer, RecvTimer, sent, wndpos, sendpos, recackpos, sendbuf>>
  BY DEF Read, sendVars
<1>3. \A n \in Endpoint : /\ Acked(n)' = Acked(n) /\ Transmitted(n)' = Transmitted(n)
                          /\ InOrder(n)' = InOrder(n)
  BY ReadCounts
<1>4. rcvd'[e] = rcvd[e] + 1 /\ \A n \in Endpoint \ {e} : rcvd'[n] = rcvd[n]
  BY <1>1 DEF Read, TypeOK
<1>5. got'[e] = rcvd[e] + 1
  <2>1. got' = [got EXCEPT ![e] = rcvd[e] + 1] /\ got \in [Endpoint -> Nat]
    BY <1>1, ReadCounts DEF TypeOK
  <2> QED BY <2>1
<1>6. rcvd[e] < InOrder(e)
  BY <1>1, CountTests
<1> QED BY <1>2, <1>3, <1>4, <1>5, <1>6 DEF Same

LEMMA GetSame ==
  ASSUME Divides, NEW c, StreamInv(c), NEW e \in Endpoint, GetSendData(e)
  PROVE  /\ Repeats(e) \/ Begins(e) \/ Confirms(e)
         /\ sent'[e] = sent[e] /\ rcvd'[e] = rcvd[e] /\ sendbuf'[e] = sendbuf[e]
         /\ wndpos'[e] = wndpos[e] /\ recackpos'[e] = recackpos[e]
         /\ Acked(e)' = Acked(e) /\ InOrder(e)' = InOrder(e)
         /\ (Transmitted(e)' = Transmitted(e) => Same(e))
         /\ RecvTimer'[e] = T!Stop(RecvTimer[e])
         /\ \A n \in Endpoint \ {e} : Same(n) /\ SameTimers(n)
         /\ \A n \in Endpoint \ {Peer(e)} : chan'[n] = chan[n]
<1>1. TypeOK /\ Peer(e) \in Endpoint
  BY PeerFacts DEF StreamInv, SendInv
<1>2. UNCHANGED <<wndpos, sendbuf, recackpos, rcvd, sent>>
  BY DEF GetSendData, history
<1>3. /\ Repeats(e) \/ Begins(e) \/ Confirms(e)
      /\ \A n \in Endpoint : Acked(n)' = Acked(n) /\ InOrder(n)' = InOrder(n)
      /\ \A n \in Endpoint \ {e} :
           Transmitted(n)' = Transmitted(n) /\ SendTimer'[n] = SendTimer[n]
  BY GetCounts
<1>4. PICK p : Transmit(e, p)
  BY <1>3 DEF Repeats, Begins, Confirms
<1>5. /\ RecvTimer'[e] = T!Stop(RecvTimer[e])
      /\ \A n \in Endpoint \ {e} : RecvTimer'[n] = RecvTimer[n]
      /\ \A n \in Endpoint \ {Peer(e)} : chan'[n] = chan[n]
  BY <1>1, <1>4 DEF Transmit, TypeOK
<1>6. \A n \in Endpoint \ {e} : sendpos'[n] = sendpos[n]
  BY Transmits
<1>7. Transmitted(e)' = Transmitted(e) => sendpos'[e] = sendpos[e]
  <2>1. CASE Begins(e)
    <3>1. Transmitted(e)' # Transmitted(e)
      BY <2>1, CountFacts DEF Begins
    <3> QED BY <3>1
  <2>2. CASE Repeats(e) \/ Confirms(e)
    <3>1. CASE SendNew(e)
      <4>1. ~SendTimer[e].timeout /\ Transmitted(e) < sent[e]
        BY <3>1, CountTests DEF SendNew
      <4> QED BY <2>2, <4>1, CountFacts DEF Repeats, Confirms
    <3>2. CASE ~SendNew(e)
      BY <3>2 DEF GetSendData, Resend, SendAck
    <3> QED BY <3>1, <3>2
  <2> QED BY <1>3, <2>1, <2>2
<1> QED BY <1>2, <1>3, <1>5, <1>6, <1>7 DEF Same, SameTimers

LEMMA ReceiveSame ==
  ASSUME Divides, NEW c, StreamInv(c), NEW e \in Endpoint, Arrives(c, e)
  PROVE  /\ UNCHANGED <<sent, rcvd, sendpos, sendbuf>>
         /\ Transmitted(e)' = Transmitted(e)
         /\ \A n \in Endpoint \ {e} : Same(n) /\ SameTimers(n)
<1>1. TypeOK /\ UNCHANGED <<seqpos, sendpos, sendbuf, sent, recwndpos, rcvd>>
  BY DEF StreamInv, SendInv, Arrives, ReceivePacket, history
<1>2. Transmitted(e)' = Transmitted(e) /\ \A n \in Endpoint \ {e} : wndpos'[n] = wndpos[n]
  BY Learns
<1>3. \A n \in Endpoint \ {e} : recackpos'[n] = recackpos[n]
  BY Takes
<1>4. ASSUME NEW n \in Endpoint \ {e}
      PROVE  SendTimer'[n] = SendTimer[n] /\ RecvTimer'[n] = RecvTimer[n]
  BY <1>1, <1>4 DEF Arrives, ReceivePacket, ReceiveAck, ReceiveData, TypeOK
<1>5. ASSUME NEW n \in Endpoint \ {e} PROVE Same(n)
  <2>1. Acked(n)' = Acked(n) /\ Transmitted(n)' = Transmitted(n) /\ InOrder(n)' = InOrder(n)
    BY <1>1, <1>2, <1>3, <1>5, KeepCounts
  <2> QED BY <1>1, <1>2, <1>3, <2>1 DEF Same
<1> QED BY <1>1, <1>2, <1>4, <1>5 DEF SameTimers

LEMMA TickSame ==
  ASSUME SendInv, NEW e \in Endpoint, Tick(e)
  PROVE  /\ \A n \in Endpoint : Same(n)
         /\ SendTimer'[e] = T!Tick(SendTimer[e]) /\ RecvTimer'[e] = T!Tick(RecvTimer[e])
         /\ \A n \in Endpoint \ {e} : SameTimers(n)
         /\ chan' = chan
<1>1. TypeOK /\ UNCHANGED <<seqpos, wndpos, sendpos, sendbuf, recwndpos, recackpos, sent, rcvd, chan>>
  BY DEF SendInv, Tick, history
<1>2. \A n \in Endpoint : Same(n)
  BY <1>1, SameAll
<1>3. /\ SendTimer'[e] = T!Tick(SendTimer[e]) /\ RecvTimer'[e] = T!Tick(RecvTimer[e])
      /\ \A n \in Endpoint \ {e} : SameTimers(n)
  BY <1>1 DEF Tick, TypeOK, SameTimers
<1> QED BY <1>1, <1>2, <1>3
-----------------------------------------------------------------------------
(* The two ends of a tag. *)

LEMMA TagEnds ==
  ASSUME NEW t \in Tags
  PROVE  /\ host(t) \in Endpoint /\ chip(t) \in Endpoint /\ host(t) # chip(t)
         /\ Peer(host(t)) = chip(t) /\ Peer(chip(t)) = host(t)
         /\ \A u \in Tags : u # t => host(u) # host(t) /\ chip(u) # chip(t)
         /\ \A u \in Tags : host(u) # chip(t) /\ chip(u) # host(t)
         /\ other(t) \in Tags /\ other(t) # t /\ other(other(t)) = t
         /\ \A u \in Tags : u # t => u = other(t)
<1>1. Peer(host(t)) = chip(t) /\ Peer(chip(t)) = host(t)
  BY DEF Peer, host, chip
<1>2. \A u \in Tags : u # t => host(u) # host(t) /\ chip(u) # chip(t)
  BY DEF host, chip
<1>3. other(t) \in Tags /\ other(t) # t /\ other(other(t)) = t /\ \A u \in Tags : u # t => u = other(t)
  BY TagFacts DEF other
<1> QED BY <1>1, <1>2, <1>3, TagFacts

LEMMA Numbers ==
  ASSUME NEW c, StreamInv(c), NEW t \in Tags
  PROVE  /\ sent[host(t)] \in Nat /\ rcvd[host(t)] \in Nat /\ Acked(host(t)) \in Nat
         /\ Transmitted(host(t)) \in Nat /\ InOrder(host(t)) \in Nat
         /\ sent[chip(t)] \in Nat /\ rcvd[chip(t)] \in Nat /\ Acked(chip(t)) \in Nat
         /\ Transmitted(chip(t)) \in Nat /\ InOrder(chip(t)) \in Nat
         /\ Acked(host(t)) <= Transmitted(host(t)) /\ Transmitted(host(t)) <= sent[host(t)]
         /\ sent[host(t)] <= Acked(host(t)) + WND_S
         /\ Acked(chip(t)) <= Transmitted(chip(t)) /\ Transmitted(chip(t)) <= sent[chip(t)]
         /\ rcvd[host(t)] <= InOrder(host(t)) /\ InOrder(host(t)) <= Transmitted(chip(t))
         /\ rcvd[chip(t)] <= InOrder(chip(t)) /\ InOrder(chip(t)) <= Transmitted(host(t))
         /\ Acked(chip(t)) <= InOrder(host(t)) /\ Acked(host(t)) <= InOrder(chip(t))
<1>1. /\ host(t) \in Endpoint /\ chip(t) \in Endpoint
      /\ Peer(host(t)) = chip(t) /\ Peer(chip(t)) = host(t)
  BY TagEnds
<1>2. /\ InOrder(host(t)) <= Transmitted(chip(t)) /\ InOrder(chip(t)) <= Transmitted(host(t))
      /\ Acked(chip(t)) <= InOrder(host(t)) /\ Acked(host(t)) <= InOrder(chip(t))
  BY <1>1, EndFacts
<1> QED BY <1>1, <1>2, CountFacts
-----------------------------------------------------------------------------
(* The steps of the chip. *)

LEMMA StageSame ==
  ASSUME UNCHANGED <<kind, op, tag, callback, pc>>, NEW t \in Tags
  PROVE  /\ SameCall(t)
         /\ Asked(t)' <=> Asked(t)
         /\ \A l : (Under(t, l)' <=> Under(t, l)) /\ (Nested(t, l)' <=> Nested(t, l))
         /\ Aside(t)' <=> Aside(t)
BY DEF SameCall, Unsent, Asked, Caller, Under, Nested, Aside

TakenSent(t) ==
  /\ InOrder(chip(t)) <= Transmitted(host(t)) /\ InOrder(host(t)) <= Transmitted(chip(t))
  /\ T!Armed(SendTimer[host(t)]) <=> Acked(host(t)) < Transmitted(host(t))

\* After a step, too, what is taken was transmitted.
LEMMA TakenWasSent ==
  ASSUME Divides, NEW t \in Tags
  PROVE  StreamInv(Seen)' => TakenSent(t)'
<1>1. StreamInv(Seen) => TakenSent(t)
  BY Numbers, TagEnds, CountTests DEF TakenSent
<1> QED BY <1>1, PTL

LEMMA ChipStep ==
  ASSUME AnswerInv, NEW t \in Tags, UNCHANGED <<hostVars, rxreg>>,
         \A n \in Endpoint \ {chip(t)} : Same(n) /\ SameTimers(n),
         \A n \in Endpoint \ {host(t), chip(t)} : chan'[n] = chan[n],
         due' \in [Tags -> Nat], \A u \in Tags \ {t} : due'[u] = due[u],
         ChipPart(t)'
  PROVE  AnswerInv'
<1>1. \A u \in Tags : Same(host(u)) /\ SameTimers(host(u))
  BY TagEnds
<1>2. Shape'
  BY <1>1 DEF AnswerInv, Shape, Same, hostVars
<1>3. ASSUME NEW u \in Tags PROVE HostPart(u)'
  <2>1. HostPart(u) /\ Same(host(u)) /\ SameHost(u) /\ lastread' = lastread
    BY <1>1 DEF AnswerInv, SameHost, SameTimers, hostVars
  <2>2. SameCall(u)
    BY StageSame DEF hostVars
  <2> QED BY <2>1, <2>2, HostKeeps
<1>4. ASSUME NEW u \in Tags PROVE ChipPart(u)'
  <2>1. CASE u = t
    BY <2>1
  <2>2. CASE u # t
    <3>1. /\ Same(host(u)) /\ Same(chip(u)) /\ SameTimers(host(u)) /\ SameTimers(chip(u))
          /\ chan'[host(u)] = chan[host(u)] /\ chan'[chip(u)] = chan[chip(u)]
      BY <2>2, TagEnds
    <3>2. SameLink(u)
      BY <2>2, <3>1 DEF SameLink, SameTimers, hostVars
    <3> QED BY <3>1, <3>2, ChipKeeps DEF AnswerInv, hostVars
  <2> QED BY <2>1, <2>2
<1> QED BY <1>2, <1>3, <1>4 DEF AnswerInv

\* Something is under way to the chip only while the host waits for it.
LEMMA ReceiveAnswers ==
  ASSUME Divides, LinkInv, (StreamInv(Seen) /\ LinkTypes)', NEW t \in Tags, ChipReceive(t)
  PROVE  AnswerInv'
<1> DEFINE h == host(t)
           k == chip(t)
<1>1. PICK c : c = Seen
  OBVIOUS
<1>2. /\ StreamInv(c) /\ AnswerInv /\ SendInv /\ LinkTypes /\ TypeOK
      /\ h \in Endpoint /\ k \in Endpoint /\ h # k
      /\ chan \in [Endpoint -> Seq(Packet)] /\ c[k] = chan[k]
  BY <1>1, SeenIs, TagEnds DEF LinkInv, StreamInv, SendInv
<1>3. /\ chan[k] # <<>> /\ chan' = [chan EXCEPT ![k] = Tail(@)] /\ Receive(k)
      /\ UNCHANGED <<hostVars, rxreg, due>>
  BY DEF ChipReceive, Receive, llVars
<1>4. Arrives(c, k)
  <2>1. Head(chan[k]) = chan[k][1]
    BY <1>2
  <2> QED BY <1>2, <1>3, <2>1 DEF Receive, Arrives
<1>5. /\ UNCHANGED <<sent, rcvd, sendpos, sendbuf>>
      /\ Transmitted(k)' = Transmitted(k)
      /\ \A n \in Endpoint \ {k} : Same(n) /\ SameTimers(n)
  BY <1>2, <1>4, ReceiveSame
<1>6. chan'[h] = chan[h] /\ chan'[k] = Tail(chan[k]) /\ \A n \in Endpoint \ {k} : chan'[n] = chan[n]
  BY <1>2, <1>3
<1>7. Same(h) /\ SameTimers(h)
  BY <1>2, <1>5
<1>8. /\ Asked(t)' <=> Asked(t)
      /\ \A l : (Under(t, l)' <=> Under(t, l)) /\ (Nested(t, l)' <=> Nested(t, l))
  BY <1>3, StageSame DEF hostVars
<1>9. ChipPart(t) /\ HostPart(t)
  BY <1>2 DEF AnswerInv
<1>10. /\ Inc(recackpos[h]) = InOrder(h) % SEQ_S /\ sendpos[k] = Transmitted(k) % SEQ_S
  BY <1>2, PositionFacts
<1>11. ASSUME NEW p \in Packet, chan[k] = <<p>>, p.ack = recackpos[h],
              sent[k] = InOrder(h), Transmitted(k) = sent[k]
       PROVE  Acked(k)' = sent[k] /\ chan'[k] = <<>> /\ c[k][1] = p
  <2>1. c[k][1] = p /\ chan'[k] = <<>>
    BY <1>2, <1>6, <1>11
  <2>2. Inc(c[k][1].ack) = sendpos[k]
    BY <1>10, <1>11, <2>1
  <2> QED BY <1>2, <1>4, <1>11, <2>1, <2>2, ReceivesAll
<1>12. ASSUME Nested(t, "tick") PROVE ChipPart(t)'
  <2>1. Acking(t)
    BY <1>9, <1>12 DEF ChipPart
  <2>2. PICK p \in Packet : chan[k] = <<p>> /\ ~p.seqvalid /\ p.ack = recackpos[h]
    BY <1>3, <2>1 DEF Acking
  <2>3. Rests(t) /\ sent[k] = InOrder(h) /\ Transmitted(k) = sent[k]
    BY <2>1 DEF Acking, Rests
  <2>4. Acked(k)' = sent[k] /\ chan'[k] = <<>> /\ c[k][1] = p
    BY <1>11, <2>2, <2>3
  <2>5. UNCHANGED <<recackpos, recwndpos, RecvTimer>>
    BY <1>4, <2>2, <2>4, TakesNothing DEF Arrives
  <2>6. InOrder(k)' = InOrder(k)
    BY <1>2, <1>5, <2>5, KeepCounts
  <2>7. Rests(t)'
    BY <1>2, <1>3, <1>5, <2>3, <2>4, <2>5, <2>6, Numbers DEF Rests
  <2>8. ~Owes(t)'
    BY <1>2, <1>5, <2>4, Numbers DEF Owes
  <2>9. Acking(t)'
    BY <1>3, <1>5, <1>6, <1>7, <2>1, <2>4, <2>7, <2>8
       DEF Acking, Same, SameTimers, Out, Only, hostVars
  <2>10. ~Under(t, "tick")' /\ Nested(t, "tick")'
    BY <1>8, <1>12 DEF Under, Nested
  <2> QED BY <2>9, <2>10 DEF ChipPart
<1>13. ASSUME Under(t, "tick") PROVE ChipPart(t)'
  <2>1. Working(t) /\ Counts(t)
    BY <1>9, <1>13 DEF ChipPart, HostPart
  <2>2. Coming(t)
    BY <1>3, <2>1 DEF Working, Arrived
  <2>3. PICK p \in Packet : /\ chan[k] = <<p>> /\ p.seqvalid /\ p.ack = recackpos[h]
                            /\ p.data = Transmitted(h)
    BY <2>2 DEF Coming
  <2>4. /\ Rests(t) /\ sent[k] = InOrder(h) /\ Transmitted(k) = sent[k] /\ InOrder(k) = rcvd[k]
        /\ due[t] = 0 /\ rcvd[k] + 1 = Transmitted(h)
    BY <2>2 DEF Coming, Rests
  <2>5. Acked(k)' = sent[k] /\ chan'[k] = <<>> /\ c[k][1] = p
    BY <1>11, <2>3, <2>4
  <2>6. InOrder(k)' <= rcvd[k] + 1
    <3>1. InOrder(k)' <= Transmitted(h)'
      BY TakenWasSent DEF TakenSent
    <3> QED BY <1>7, <2>4, <3>1 DEF Same
  <2>7. InOrder(k)' = rcvd[k] + 1 /\ RecvTimer' = [RecvTimer EXCEPT ![k] = T!Continue(@)]
    BY <1>2, <1>4, <2>3, <2>4, <2>5, <2>6, TakesNext
  <2>8. T!Armed(RecvTimer'[k])
    <3>1. RecvTimer[k] \in T!TimerType /\ RecvTimer'[k] = T!Continue(RecvTimer[k])
      BY <1>2, <2>7 DEF TypeOK
    <3> QED BY <3>1, TimerArmed
  <2>9. InOrder(h) = rcvd[h]
    <3>1. ~Under(t, "tock") /\ ~Under(t, "return")
      BY <1>13 DEF Under
    <3> QED BY <1>2, <2>1, <3>1, Numbers DEF Counts, One
  <2>10. Arrived(t)'
    BY <1>2, <1>3, <1>5, <1>7, <2>4, <2>5, <2>7, <2>8, <2>9, Numbers DEF Arrived, Same, Owes
  <2>11. Working(t)'
    BY <1>7, <2>1, <2>10 DEF Working, SameTimers
  <2>12. Under(t, "tick")' /\ ~Nested(t, "tick")'
    BY <1>8, <1>13 DEF Under, Nested
  <2> QED BY <2>11, <2>12 DEF ChipPart
<1>14. ChipPart(t)'
  BY <1>3, <1>9, <1>12, <1>13 DEF ChipPart, Calm
<1> HIDE DEF h, k
<1>15. due \in [Tags -> Nat]
  BY <1>2 DEF AnswerInv, Shape
<1> QED BY <1>2, <1>3, <1>5, <1>6, <1>14, <1>15, ChipStep DEF h, k

\* A command that was taken is carried out while the host waits.
LEMMA ExecuteAnswers ==
  ASSUME Divides, LinkInv, NEW t \in Tags, ChipExecute(t)
  PROVE  AnswerInv'
<1> DEFINE h == host(t)
           k == chip(t)
<1>1. /\ StreamInv(Seen) /\ AnswerInv /\ h \in Endpoint /\ k \in Endpoint /\ h # k
  BY TagEnds DEF LinkInv
<1>2. /\ Read(k) /\ UNCHANGED <<hostVars, rxreg>>
      /\ due' = [due EXCEPT ![t] = @ + IF kind[t][got'[k]] = "read" THEN 1 ELSE 0]
  BY DEF ChipExecute
<1>3. /\ UNCHANGED <<chan, SendTimer, RecvTimer, sent, wndpos, sendpos, recackpos, sendbuf>>
      /\ rcvd'[k] = rcvd[k] + 1 /\ got'[k] = rcvd[k] + 1 /\ rcvd[k] < InOrder(k)
      /\ \A n \in Endpoint \ {k} : Same(n)
      /\ \A n \in Endpoint : /\ Acked(n)' = Acked(n) /\ Transmitted(n)' = Transmitted(n)
                             /\ InOrder(n)' = InOrder(n)
  BY <1>1, <1>2, ReadSame
<1>4. ChipPart(t) /\ HostPart(t) /\ Shape
  BY <1>1 DEF AnswerInv
<1>5. Under(t, "tick") /\ Working(t) /\ Arrived(t)
  <2>1. ~Rests(t)
    BY <1>1, <1>3, Numbers DEF Rests
  <2> QED BY <1>4, <2>1 DEF ChipPart, Calm, Acking, Working, Coming
<1>6. /\ ~Unsent(t) /\ sent[h] = Transmitted(h)
      /\ Asked(t) <=> kind[t][Len(kind[t])] = "read"
  <2>1. ~Unsent(t)
    BY <1>5 DEF Under, Unsent
  <2>2. Asked(t) <=> kind[t][Len(kind[t])] = "read"
    BY <1>5 DEF Under, Asked, Caller
  <2> QED BY <1>1, <1>4, <2>1, <2>2, Numbers DEF HostPart, Counts, One
<1>7. /\ InOrder(k) = Transmitted(h) /\ rcvd[k] + 1 = Transmitted(h)
      /\ sent[k] = rcvd[h] /\ due[t] = 0 /\ Len(kind[t]) = sent[h]
  BY <1>1, <1>3, <1>4, <1>5, Numbers DEF Arrived, Shape
<1>8. due'[t] = One(Asked(t)) /\ due' \in [Tags -> Nat] /\ \A u \in Tags \ {t} : due'[u] = due[u]
  BY <1>2, <1>3, <1>4, <1>6, <1>7 DEF Shape, One
<1>9. /\ Asked(t)' <=> Asked(t)
      /\ \A l : (Under(t, l)' <=> Under(t, l)) /\ (Nested(t, l)' <=> Nested(t, l))
  BY <1>2, StageSame DEF hostVars
<1>10. Arrived(t)'
  <2>1. \A p : Shows(t, p)' <=> Shows(t, p)
    BY <1>2, <1>3 DEF Shows, Tagged
  <2>2. Response(t)' = Response(t) /\ (Owes(t)' <=> Owes(t))
    BY <1>1, <1>3 DEF Response, Tagged, DataPacket, Owes
  <2>3. rcvd'[h] = rcvd[h]
    BY <1>1, <1>3 DEF Same
  <2> QED BY <1>1, <1>3, <1>5, <1>7, <1>8, <1>9, <2>1, <2>2, <2>3, Numbers DEF Arrived, One
<1>11. ChipPart(t)'
  <2>1. Working(t)'
    BY <1>3, <1>5, <1>10 DEF Working
  <2>2. Under(t, "tick")' /\ ~Nested(t, "tick")'
    BY <1>5, <1>9 DEF Under, Nested
  <2> QED BY <2>1, <2>2 DEF ChipPart
<1>12. /\ \A n \in Endpoint \ {k} : Same(n) /\ SameTimers(n)
       /\ \A n \in Endpoint \ {h, k} : chan'[n] = chan[n]
  BY <1>3 DEF SameTimers
<1> HIDE DEF h, k
<1> QED BY <1>1, <1>2, <1>8, <1>11, <1>12, ChipStep DEF h, k

\* What the chip answers is one answer to what was asked.
LEMMA RespondAnswers ==
  ASSUME Divides, LinkInv, NEW t \in Tags, ChipRespond(t)
  PROVE  AnswerInv'
<1> DEFINE h == host(t)
           k == chip(t)
<1>1. /\ StreamInv(Seen) /\ AnswerInv /\ h \in Endpoint /\ k \in Endpoint /\ h # k
  BY TagEnds DEF LinkInv
<1>2. /\ Send(k) /\ UNCHANGED <<hostVars, rxreg>>
      /\ due[t] > 0 /\ due' = [due EXCEPT ![t] = @ - 1]
  BY DEF ChipRespond
<1>3. /\ UNCHANGED <<chan, SendTimer, RecvTimer, rcvd, wndpos, sendpos, recackpos>>
      /\ sent'[k] = sent[k] + 1
      /\ \A n \in Endpoint \ {k} : Same(n)
      /\ \A n \in Endpoint : /\ Acked(n)' = Acked(n) /\ Transmitted(n)' = Transmitted(n)
                             /\ InOrder(n)' = InOrder(n)
  BY <1>1, <1>2, SendSame
<1>4. ChipPart(t) /\ HostPart(t) /\ Shape
  BY <1>1 DEF AnswerInv
<1>5. Under(t, "tick") /\ Working(t) /\ Arrived(t)
  <2>1. ~Rests(t)
    BY <1>2 DEF Rests
  <2> QED BY <1>4, <2>1 DEF ChipPart, Calm, Acking, Working, Coming
<1>6. due'[t] = due[t] - 1 /\ due' \in [Tags -> Nat] /\ \A u \in Tags \ {t} : due'[u] = due[u]
  BY <1>2, <1>4 DEF Shape
<1>7. /\ Asked(t)' <=> Asked(t)
      /\ \A l : (Under(t, l)' <=> Under(t, l)) /\ (Nested(t, l)' <=> Nested(t, l))
  BY <1>2, StageSame DEF hostVars
<1>8. /\ rcvd[k] = Transmitted(h) /\ sent[k] + due[t] = rcvd[h] + One(Asked(t))
  BY <1>2, <1>5 DEF Arrived
<1>9. Arrived(t)'
  <2>1. \A p : Shows(t, p)' <=> Shows(t, p)
    BY <1>2, <1>3 DEF Shows, Tagged
  <2>2. Transmitted(k)' # sent'[k]
    BY <1>1, <1>3, Numbers
  <2>3. sent'[k] + due'[t] = rcvd[h] + One(Asked(t))
    BY <1>1, <1>3, <1>4, <1>6, <1>8, Numbers DEF Shape
  <2> QED BY <1>1, <1>3, <1>5, <1>7, <1>8, <2>1, <2>2, <2>3 DEF Arrived, One
<1>10. ChipPart(t)'
  <2>1. Working(t)'
    BY <1>3, <1>5, <1>9 DEF Working
  <2>2. Under(t, "tick")' /\ ~Nested(t, "tick")'
    BY <1>5, <1>7 DEF Under, Nested
  <2> QED BY <2>1, <2>2 DEF ChipPart
<1>11. /\ \A n \in Endpoint \ {k} : Same(n) /\ SameTimers(n)
       /\ \A n \in Endpoint \ {h, k} : chan'[n] = chan[n]
  BY <1>3 DEF SameTimers
<1> HIDE DEF h, k
<1> QED BY <1>1, <1>2, <1>6, <1>10, <1>11, ChipStep DEF h, k

LEMMA LastAppended ==
  ASSUME NEW s \in Seq(Packet), NEW p \in Packet
  PROVE  /\ Append(s, p) # <<>> /\ Append(s, p)[Len(Append(s, p))] = p
         /\ \A q : Only(s, q) /\ p = q => Only(Append(s, p), q)
<1>1. /\ Len(Append(s, p)) = Len(s) + 1 /\ Len(s) \in Nat /\ DOMAIN s = 1 .. Len(s)
      /\ DOMAIN Append(s, p) = 1 .. Len(s) + 1
      /\ \A i \in 1 .. Len(s) + 1 : Append(s, p)[i] = IF i = Len(s) + 1 THEN p ELSE s[i]
  OBVIOUS
<1>2. Append(s, p) # <<>>
  BY <1>1
<1> QED BY <1>1, <1>2 DEF Only

\* Outside its work the chip repeats its response; in it, what it sends last is
\* the response, with the last acknowledgement.
LEMMA ChipSendAnswers ==
  ASSUME Divides, LinkInv, NEW t \in Tags, ChipSend(t)
  PROVE  AnswerInv'
<1> DEFINE h == host(t)
           k == chip(t)
<1>1. /\ StreamInv(Seen) /\ AnswerInv /\ TypeOK /\ h \in Endpoint /\ k \in Endpoint /\ h # k
      /\ Peer(k) = h /\ chan \in [Endpoint -> Seq(Packet)]
      /\ RecvTimer[k] \in T!TimerType
  BY TagEnds DEF LinkInv, StreamInv, SendInv, TypeOK
<1>2. GetSendData(k) /\ UNCHANGED <<hostVars, rxreg, due>>
  BY DEF ChipSend, llVars
<1>3. /\ Repeats(k) \/ Begins(k) \/ Confirms(k)
      /\ sent'[k] = sent[k] /\ rcvd'[k] = rcvd[k] /\ sendbuf'[k] = sendbuf[k]
      /\ wndpos'[k] = wndpos[k] /\ recackpos'[k] = recackpos[k]
      /\ Acked(k)' = Acked(k) /\ InOrder(k)' = InOrder(k)
      /\ Transmitted(k)' = Transmitted(k) => Same(k)
      /\ RecvTimer'[k] = T!Stop(RecvTimer[k])
      /\ \A n \in Endpoint \ {k} : Same(n) /\ SameTimers(n)
      /\ \A n \in Endpoint \ {h} : chan'[n] = chan[n]
  BY <1>1, <1>2, GetSame
<1>4. ChipPart(t) /\ HostPart(t) /\ Shape
  BY <1>1 DEF AnswerInv
<1>5. ~T!Armed(RecvTimer'[k])
  BY <1>1, <1>3, TimerArmed
<1>6. /\ Asked(t)' <=> Asked(t)
      /\ \A l : (Under(t, l)' <=> Under(t, l)) /\ (Nested(t, l)' <=> Nested(t, l))
      /\ Aside(t)' <=> Aside(t)
  BY <1>2, StageSame DEF hostVars
<1>7. /\ Same(h) /\ SameTimers(h) /\ chan'[k] = chan[k]
      /\ Response(t)' = Response(t) /\ (Owes(t)' <=> Owes(t)) /\ Out(t)' = Out(t)
  BY <1>1, <1>3 DEF Same, Response, Tagged, DataPacket, Owes, Out
<1>8. PICK p : Transmit(k, p) /\ (Repeats(k) => p = DataPacket(k, wndpos[k]))
               /\ (Begins(k) => p = DataPacket(k, sendpos[k])) /\ p.ack = recackpos[k]
  <2>1. CASE Repeats(k)
    BY <2>1 DEF Repeats, Begins, DataPacket
  <2>2. CASE Begins(k)
    BY <2>2 DEF Repeats, Begins, DataPacket
  <2>3. CASE Confirms(k) /\ ~Repeats(k) /\ ~Begins(k)
    BY <2>3 DEF Confirms, AckPacket
  <2> QED BY <1>3, <2>1, <2>2, <2>3
<1>9. p \in Packet /\ chan'[h] = Append(chan[h], p)
  <2>1. wndpos[k] \in SeqNo /\ sendpos[k] \in SeqNo
    BY <1>1 DEF TypeOK
  <2>2. chan'[h] = Append(chan[h], p)
    BY <1>1, <1>8 DEF Transmit
  <2>3. DataPacket(k, wndpos[k]) \in Packet /\ DataPacket(k, sendpos[k]) \in Packet
    BY <1>1, <2>1, PacketTypes
  <2>4. CASE Confirms(k) /\ ~Repeats(k) /\ ~Begins(k)
    <3>1. Transmit(k, AckPacket(k)) /\ AckPacket(k) \in Packet
      BY <1>1, <2>4, PacketTypes DEF Confirms
    <3>2. chan'[h] = Append(chan[h], AckPacket(k))
      BY <1>1, <3>1 DEF Transmit
    <3>3. p = AckPacket(k)
      <4>1. Append(chan[h], p) = Append(chan[h], AckPacket(k)) /\ chan[h] \in Seq(Packet)
        BY <1>1, <2>2, <3>2
      <4> QED BY <4>1
    <3> QED BY <2>2, <3>1, <3>3
  <2> QED BY <1>3, <1>8, <2>2, <2>3, <2>4
<1>10. ASSUME Rests(t)
       PROVE  /\ Repeats(k) /\ Owes(t) /\ p = Response(t).packet /\ Rests(t)' /\ Same(k)
  <2>1. ~Begins(k)
    BY <1>1, <1>10, Numbers DEF Begins, Rests
  <2>2. ~Confirms(k)
    BY <1>10 DEF Confirms, Rests, T!Armed
  <2>3. Repeats(k) /\ Transmitted(k)' = Transmitted(k) /\ Acked(k) < Transmitted(k)
    BY <1>3, <2>1, <2>2 DEF Repeats
  <2>4. Owes(t) /\ p = Response(t).packet
    BY <1>8, <1>10, <2>3 DEF Rests, Owes, Response, Tagged
  <2>5. Rests(t)'
    BY <1>2, <1>3, <1>5, <1>10, <2>3 DEF Rests
  <2> QED BY <1>3, <2>3, <2>4, <2>5
<1>11. ASSUME Only(chan[h], rxreg.packet), p = rxreg.packet
       PROVE  Only(chan'[h], rxreg'.packet)
  BY <1>1, <1>2, <1>9, <1>11, LastAppended
<1>12. Rests(t) => (Calm(t) => Calm(t)')
  <2> SUFFICES ASSUME Rests(t), Calm(t) PROVE Calm(t)'
    OBVIOUS
  <2>1. p = rxreg.packet /\ Only(chan'[h], rxreg'.packet) /\ rxreg = Response(t)
    BY <1>10, <1>11 DEF Calm
  <2>2. Rests(t)' /\ Same(k) /\ Owes(t)
    BY <1>10
  <2>3. lastread' = lastread /\ rxreg' = rxreg /\ due' = due
    BY <1>2 DEF hostVars
  <2> QED BY <1>6, <1>7, <2>1, <2>2, <2>3 DEF Calm, Same, SameTimers, One
<1>13. ASSUME Under(t, "tick") PROVE ChipPart(t)'
  <2>1. Working(t)
    BY <1>4, <1>13 DEF ChipPart
  <2>2. CASE Coming(t)
    <3>1. Rests(t)' /\ Same(k)
      BY <1>10, <2>2 DEF Coming
    <3>2. Coming(t)'
      BY <1>7, <2>2, <3>1 DEF Coming, Same
    <3> QED BY <1>6, <1>7, <1>13, <2>1, <3>2 DEF ChipPart, Working, SameTimers, Under, Nested
  <2>3. CASE Arrived(t)
    <3>1. Shows(t, p)'
      BY <1>1, <1>2, <1>9, LastAppended DEF Shows
    <3>2. Owes(t)' /\ (Transmitted(k) = sent[k])' => p = Response(t).packet
      <4> SUFFICES ASSUME Owes(t), Transmitted(k)' = sent[k] PROVE p = Response(t).packet
        BY <1>3, <1>7
      <4>1. CASE Repeats(k)
        BY <1>8, <4>1 DEF Response, Tagged
      <4>2. CASE Begins(k)
        <5>1. Transmitted(k) = Acked(k)
          BY <1>1, <2>3, <4>2, Numbers, <1>4 DEF Begins, Arrived, Shape, One, Owes
        <5>2. sendpos[k] = wndpos[k]
          BY <1>1, <5>1, PositionFacts
        <5> QED BY <1>8, <4>2, <5>2 DEF Response, Tagged
      <4>3. CASE Confirms(k)
        BY <2>3, <4>3 DEF Confirms, Arrived, T!Armed
      <4> QED BY <1>3, <4>1, <4>2, <4>3
    <3>3. Arrived(t)'
      BY <1>2, <1>3, <1>5, <1>6, <1>7, <1>8, <1>9, <2>3, <3>1, <3>2 DEF Arrived, Same, One
    <3> QED BY <1>6, <1>7, <1>13, <2>1, <3>3 DEF ChipPart, Working, SameTimers, Under, Nested
  <2> QED BY <2>1, <2>2, <2>3 DEF Working
<1>14. ASSUME Nested(t, "tick") PROVE ChipPart(t)'
  <2>1. Acking(t) /\ Rests(t)
    BY <1>4, <1>14 DEF ChipPart, Acking
  <2>2. p = rxreg.packet /\ Only(chan'[h], rxreg'.packet) /\ Rests(t)' /\ Same(k)
    BY <1>10, <1>11, <2>1 DEF Acking
  <2>3. Acking(t)'
    BY <1>2, <1>7, <2>1, <2>2 DEF Acking, Same, SameTimers, hostVars
  <2> QED BY <1>6, <1>14, <2>3 DEF ChipPart, Under, Nested
<1>15. ChipPart(t)'
  BY <1>4, <1>6, <1>12, <1>13, <1>14 DEF ChipPart, Calm
<1>16. due' \in [Tags -> Nat] /\ due' = due
  BY <1>2, <1>4 DEF Shape
<1>17. /\ \A n \in Endpoint \ {k} : Same(n) /\ SameTimers(n)
       /\ \A n \in Endpoint \ {h, k} : chan'[n] = chan[n]
  BY <1>3
<1> HIDE DEF h, k
<1> QED BY <1>1, <1>2, <1>15, <1>16, <1>17, ChipStep DEF h, k

LEMMA LastBehind ==
  ASSUME NEW s \in Seq(Packet), s # <<>>
  PROVE  /\ Tail(s) = <<>> => Head(s) = s[Len(s)]
         /\ Tail(s) # <<>> => Tail(s)[Len(Tail(s))] = s[Len(s)]
<1>1. PICK u : u = Tail(s)
  OBVIOUS
<1>2. /\ Len(s) \in Nat /\ Len(s) # 0 /\ u \in Seq(Packet) /\ Len(u) = Len(s) - 1 /\ Head(s) = s[1]
      /\ \A i \in 1 .. Len(s) - 1 : u[i] = s[i + 1]
  BY <1>1
<1>3. u = <<>> => Len(s) = 1
  BY <1>2
<1>4. u # <<>> => u[Len(u)] = s[Len(s)]
  <2>1. u # <<>> => Len(u) # 0
    BY <1>2
  <2> QED BY <1>2, <2>1
<1>5. (u = <<>> => Head(s) = s[Len(s)]) /\ (u # <<>> => u[Len(u)] = s[Len(s)])
  BY <1>2, <1>3, <1>4
<1> QED BY <1>1, <1>5

\* While the host waits, no other tag needs the register; at other times the
\* chip puts what is there already.
LEMMA LatchAnswers ==
  ASSUME Divides, LinkInv, NEW t \in Tags, Latch(t)
  PROVE  AnswerInv'
<1> DEFINE h == host(t)
           k == chip(t)
<1>1. /\ StreamInv(Seen) /\ AnswerInv /\ TypeOK /\ h \in Endpoint /\ k \in Endpoint /\ h # k
      /\ chan[h] \in Seq(Packet) /\ chan \in [Endpoint -> Seq(Packet)]
      /\ rxreg \in [tag : Tags, packet : Packet]
  BY TagEnds DEF LinkInv, StreamInv, SendInv, TypeOK, LinkTypes
<1>2. /\ chan[h] # <<>> /\ rxreg' = Tagged(t, Head(chan[h]))
      /\ chan' = [chan EXCEPT ![h] = Tail(@)]
      /\ UNCHANGED <<sendVars, recvVars, history, hostVars, due>>
  BY DEF Latch
<1>3. \A n \in Endpoint : Same(n) /\ SameTimers(n)
  BY <1>2, SameAll DEF sendVars, recvVars, history, SameTimers
<1>4. /\ chan'[h] = Tail(chan[h]) /\ \A n \in Endpoint \ {h} : chan'[n] = chan[n]
  BY <1>1, <1>2
<1>5. ChipPart(t) /\ HostPart(t) /\ Shape
  BY <1>1 DEF AnswerInv
<1>6. /\ Asked(t)' <=> Asked(t)
      /\ \A l : (Under(t, l)' <=> Under(t, l)) /\ (Nested(t, l)' <=> Nested(t, l))
      /\ Aside(t)' <=> Aside(t)
  BY <1>2, StageSame DEF hostVars
<1>7. /\ Same(h) /\ SameTimers(h) /\ Same(k) /\ SameTimers(k) /\ chan'[k] = chan[k]
      /\ Response(t)' = Response(t) /\ (Owes(t)' <=> Owes(t)) /\ Out(t)' = Out(t)
  BY <1>1, <1>3, <1>4, ResponseKeeps DEF Same, Out
<1>8. Rests(t) => Rests(t)'
  BY <1>2, <1>7, RestsKeeps DEF SameTimers
<1>9. /\ DOMAIN chan[h] = 1 .. Len(chan[h]) /\ Len(chan[h]) \in Nat /\ Len(chan[h]) # 0
      /\ Head(chan[h]) = chan[h][1]
      /\ Tail(chan[h]) \in Seq(Packet) /\ Len(Tail(chan[h])) = Len(chan[h]) - 1
      /\ DOMAIN Tail(chan[h]) = 1 .. Len(chan[h]) - 1
      /\ \A i \in 1 .. Len(chan[h]) - 1 : Tail(chan[h])[i] = chan[h][i + 1]
  BY <1>1, <1>2
<1>10. ASSUME Only(chan[h], rxreg.packet), rxreg.tag = t
       PROVE  rxreg' = rxreg /\ Only(chan'[h], rxreg'.packet)
  <2>1. Head(chan[h]) = rxreg.packet
    BY <1>9, <1>10 DEF Only
  <2>2. rxreg' = rxreg
    BY <1>1, <1>2, <1>10, <2>1 DEF Tagged
  <2> QED BY <1>4, <1>9, <1>10, <2>2 DEF Only
<1>11. ASSUME Calm(t) PROVE rxreg' = rxreg /\ Calm(t)'
  <2>1. Owes(t)
    BY <1>2, <1>11 DEF Calm
  <2>2. rxreg = Response(t) /\ Only(chan[h], rxreg.packet) /\ rxreg.tag = t
    BY <1>11, <2>1 DEF Calm, Response, Tagged
  <2>3. rxreg' = rxreg /\ Only(chan'[h], rxreg'.packet)
    BY <1>10, <2>2
  <2>4. Rests(t)' /\ lastread' = lastread
    BY <1>2, <1>8, <1>11 DEF Calm, hostVars
  <2> QED BY <1>6, <1>7, <1>11, <2>1, <2>3, <2>4 DEF Calm, Same, SameTimers, One
<1>12. ASSUME Acking(t) PROVE rxreg' = rxreg /\ Acking(t)'
  <2>1. rxreg' = rxreg /\ Only(chan'[h], rxreg'.packet)
    BY <1>10, <1>12 DEF Acking
  <2>2. Rests(t)' /\ lastread' = lastread
    BY <1>2, <1>8, <1>12 DEF Acking, hostVars
  <2> QED BY <1>7, <1>12, <2>1, <2>2 DEF Acking, Same, SameTimers
<1>13. ASSUME Working(t) PROVE Working(t)'
  <2>1. CASE Coming(t)
    <3>1. Coming(t)'
      BY <1>7, <1>8, <2>1 DEF Coming, Same
    <3> QED BY <1>7, <1>13, <3>1 DEF Working, SameTimers
  <2>2. CASE Arrived(t)
    <3>1. \A p : Shows(t, p) => Shows(t, p)'
      <4> TAKE p
      <4> SUFFICES ASSUME Shows(t, p) PROVE Shows(t, p)'
        OBVIOUS
      <4>1. chan[h][Len(chan[h])] = p
        BY <1>2 DEF Shows
      <4>2. CASE Tail(chan[h]) = <<>>
        <5>1. Head(chan[h]) = p
          BY <1>1, <1>2, <4>1, <4>2, LastBehind
        <5> QED BY <1>2, <1>4, <4>2, <5>1 DEF Shows, Tagged
      <4>3. CASE Tail(chan[h]) # <<>>
        <5>1. Tail(chan[h])[Len(Tail(chan[h]))] = p
          BY <1>1, <1>2, <4>1, <4>3, LastBehind
        <5> QED BY <1>4, <4>3, <5>1 DEF Shows
      <4> QED BY <4>2, <4>3
    <3>2. Arrived(t)'
      BY <1>2, <1>6, <1>7, <2>2, <3>1 DEF Arrived, Same, SameTimers, One
    <3> QED BY <1>7, <1>13, <3>2 DEF Working, SameTimers
  <2> QED BY <1>13, <2>1, <2>2 DEF Working
<1>14. ChipPart(t)' /\ (~Under(t, "tick") => rxreg' = rxreg)
  BY <1>5, <1>6, <1>11, <1>12, <1>13 DEF ChipPart
<1>15. due' \in [Tags -> Nat] /\ due' = due
  BY <1>2, <1>5 DEF Shape
<1>16. /\ \A n \in Endpoint \ {k} : Same(n) /\ SameTimers(n)
       /\ \A n \in Endpoint \ {h, k} : chan'[n] = chan[n]
  BY <1>3, <1>4
<1>17. CASE rxreg' = rxreg
  <2> HIDE DEF h, k
  <2> QED BY <1>1, <1>2, <1>14, <1>15, <1>16, <1>17, ChipStep DEF h, k
<1>18. CASE Under(t, "tick")
  <2>1. Shape'
    BY <1>1, <1>2, <1>5, <1>15 DEF Shape, hostVars, history
  <2>2. ASSUME NEW u \in Tags PROVE HostPart(u)'
    <3>1. HostPart(u) /\ Same(host(u)) /\ SameHost(u) /\ lastread' = lastread
      BY <1>1, <1>2, <1>3, TagEnds DEF AnswerInv, SameHost, SameTimers, hostVars
    <3>2. SameCall(u)
      BY <1>2, StageSame DEF hostVars
    <3> QED BY <3>1, <3>2, HostKeeps
  <2>3. ASSUME NEW u \in Tags, u # t PROVE ChipPart(u)'
    <3>1. /\ Asked(u)' <=> Asked(u)
          /\ \A l : (Under(u, l)' <=> Under(u, l)) /\ (Nested(u, l)' <=> Nested(u, l))
          /\ Aside(u)' <=> Aside(u)
      BY <1>2, StageSame DEF hostVars
    <3>2. (\A l : ~Under(u, l) /\ ~Nested(u, l)) /\ Aside(u)
      BY <1>18, <2>3 DEF Under, Nested, Aside
    <3>3. Calm(u) /\ ~Owes(u)
      BY <1>1, <3>2 DEF AnswerInv, ChipPart, Calm
    <3>4. /\ Same(host(u)) /\ Same(chip(u)) /\ SameTimers(host(u)) /\ SameTimers(chip(u))
          /\ chan'[host(u)] = chan[host(u)] /\ chan'[chip(u)] = chan[chip(u)] /\ due'[u] = due[u]
      BY <1>2, <1>3, <1>4, <2>3, TagEnds
    <3>5. Rests(u)' /\ (Owes(u)' <=> Owes(u))
      BY <3>3, <3>4, RestsKeeps, ResponseKeeps DEF Calm, SameTimers
    <3>6. Calm(u)'
      BY <3>1, <3>2, <3>3, <3>4, <3>5 DEF Calm, Same, SameTimers
    <3> QED BY <3>1, <3>2, <3>6 DEF ChipPart
  <2> QED BY <1>14, <2>1, <2>2, <2>3 DEF AnswerInv
<1> QED BY <1>14, <1>17, <1>18

\* A timer of the chip that expires stays armed.
LEMMA ChipTimeoutAnswers ==
  ASSUME LinkInv, NEW t \in Tags, ChipTimeout(t)
  PROVE  AnswerInv'
<1>1. /\ AnswerInv /\ TypeOK /\ host(t) \in Endpoint /\ chip(t) \in Endpoint
      /\ RecvTimer[chip(t)] \in T!TimerType
  BY TagEnds DEF LinkInv, StreamInv, SendInv, TypeOK
<1>2. /\ UNCHANGED <<seqpos, wndpos, sendpos, sendbuf, recwndpos, recackpos, sent, rcvd, chan>>
      /\ UNCHANGED <<hostVars, rxreg, due>>
      /\ \A n \in Endpoint \ {chip(t)} : SameTimers(n)
      /\ T!Armed(RecvTimer'[chip(t)]) <=> T!Armed(RecvTimer[chip(t)])
  <2>1. \A x \in T!TimerType : x.enabled => T!Armed(x) /\ T!Armed(T!SetTimeout(T!Stop(x)))
    BY DEF T!TimerType, T!SetTimeout, T!Stop, T!Armed
  <2>2. CASE ChipSendTimeout(t)
    BY <1>1, <2>2 DEF ChipSendTimeout, recvVars, history, llVars, SameTimers, TypeOK
  <2>3. CASE ChipRecvTimeout(t)
    BY <1>1, <2>1, <2>3 DEF ChipRecvTimeout, sendVars, history, llVars, SameTimers, TypeOK
  <2> QED BY <2>2, <2>3 DEF ChipTimeout
<1>3. \A n \in Endpoint : Same(n)
  BY <1>2, SameAll
<1>4. ChipPart(t)'
  <2>1. SameLink(t) /\ Same(host(t)) /\ Same(chip(t))
    BY <1>1, <1>2, <1>3, TagEnds DEF SameLink, SameTimers, hostVars
  <2> QED BY <1>1, <1>2, <2>1, ChipKeeps DEF AnswerInv, hostVars
<1>5. due' \in [Tags -> Nat]
  BY <1>1, <1>2 DEF AnswerInv, Shape
<1> QED BY <1>1, <1>2, <1>3, <1>4, <1>5, ChipStep
-----------------------------------------------------------------------------
(* The steps of the host. *)

LEMMA VarsSame ==
  ASSUME UNCHANGED vars
  PROVE  /\ \A n \in Endpoint : Same(n) /\ SameTimers(n)
         /\ chan' = chan
BY SameAll DEF vars, sendVars, recvVars, history, SameTimers

\* A step of the host that leaves t alone, while the chip rests.
LEMMA CalmStep ==
  ASSUME NEW t \in Tags, Calm(t), Same(host(t)), Same(chip(t)),
         SameTimers(chip(t)), T!Armed(RecvTimer'[host(t)]) <=> T!Armed(RecvTimer[host(t)]),
         chan'[host(t)] = chan[host(t)], chan'[chip(t)] = chan[chip(t)],
         due' = due, rxreg' = rxreg, lastread' = lastread,
         ~Under(t, "gate"), ~Under(t, "gate")', ~Under(t, "tick")', ~Nested(t, "tick")',
         Nested(t, "exec")' \/ Nested(t, "put")' => T!Armed(RecvTimer[host(t)]),
         Nested(t, "gate")' \/ Nested(t, "tock")' => ~Owes(t) /\ Out(t) = 0,
         Nested(t, "gate")' => lastread = rxreg,
         Aside(t)' => ~Owes(t)
  PROVE  ChipPart(t)'
<1>1. SameLink(t) /\ Out(t)' = Out(t)
  BY DEF SameLink, SameTimers, Same, Out
<1>2. Calm(t)'
  BY <1>1, CalmKeeps DEF Same
<1> QED BY <1>2 DEF ChipPart

\* What Exec asks of an end.
LEMMA HasSomething ==
  ASSUME Divides, LinkInv, NEW t \in Tags, pc = "exec"
  PROVE  /\ HasSendData(host(t)) <=> T!Armed(RecvTimer[host(t)]) \/ Unsent(t)
         /\ Calm(t) /\ HostPart(t)
<1>1. StreamInv(Seen) /\ host(t) \in Endpoint /\ ChipPart(t) /\ HostPart(t)
  BY TagEnds DEF LinkInv, AnswerInv
<1>2. Calm(t)
  BY <1>1 DEF ChipPart, Under, Nested
<1>3. ~SendTimer[host(t)].timeout /\ ~RecvTimer[host(t)].enabled
  BY <1>1 DEF HostPart, HostTimers, Under
<1>4. HasUnsent(host(t)) <=> Unsent(t)
  <2>1. HasUnsent(host(t)) <=> Transmitted(host(t)) < sent[host(t)]
    BY <1>1, CountTests
  <2> QED BY <1>1, <2>1, Numbers DEF HostPart, Counts, One
<1> QED BY <1>1, <1>2, <1>3, <1>4 DEF HasSendData, T!Armed

\* The nested call is made for an answer that is not acknowledged yet, and only
\* then; afterwards the command is sent.
LEMMA ExecAnswers ==
  ASSUME Divides, LinkInv, Exec
  PROVE  AnswerInv'
<1>1. /\ AnswerInv /\ Shape /\ tag \in Tags /\ other(tag) \in Tags /\ other(tag) # tag
      /\ other(other(tag)) = tag /\ pc = "exec" /\ op = "issueCommand"
  BY TagEnds DEF LinkInv, LinkTypes, AnswerInv, Shape, Exec
<1>2. /\ UNCHANGED <<vars, kind, writeflag, issued_cmds, lastread, refused, rxreg, due, op>>
  BY DEF Exec, Goto
<1>3. (\A n \in Endpoint : Same(n) /\ SameTimers(n)) /\ chan' = chan
  BY <1>2, VarsSame
<1>4. \A u \in Tags : /\ HasSendData(host(u)) <=> T!Armed(RecvTimer[host(u)]) \/ Unsent(u)
                      /\ Calm(u) /\ HostPart(u)
  BY <1>1, HasSomething
<1>5. /\ callback => T!Armed(RecvTimer[host(tag)])
      /\ \A u \in Tags : Unsent(u) <=> u = Caller
  <2>1. callback => Nested(tag, "exec")
    BY <1>1 DEF Nested
  <2> QED BY <1>1, <1>4, <2>1 DEF Calm, Unsent
<1>6. \A u \in Tags : Owes(u) => T!Armed(RecvTimer[host(u)])
  BY <1>1, <1>4 DEF Calm, Under
<1>7. HasSendData(host(tag))
  <2>1. ~callback => tag = Caller
    BY DEF Caller
  <2> QED BY <1>1, <1>4, <1>5, <2>1
<1>8. \/ /\ ~callback /\ T!Armed(RecvTimer[host(other(tag))])
         /\ tag' = other(tag) /\ callback' /\ callback' = TRUE /\ pc' = pc
      \/ callback /\ pc' = "put" /\ UNCHANGED <<tag, callback>>
      \/ /\ ~callback /\ ~T!Armed(RecvTimer[host(other(tag))])
         /\ pc' = "put" /\ UNCHANGED <<tag, callback>>
  <2>1. CASE HasSendData(host(tag)) /\ ConcFirst
    <3>1. ~callback /\ HasSendData(host(other(tag)))
      BY <2>1 DEF ConcFirst
    <3>2. ~Unsent(other(tag))
      BY <1>1, <1>5, <3>1 DEF Caller
    <3> QED BY <1>1, <1>4, <2>1, <3>1, <3>2 DEF Exec
  <2>2. CASE ~(HasSendData(host(tag)) /\ ConcFirst)
    <3>1. pc' = "put" /\ UNCHANGED <<tag, callback>>
      BY <1>7, <2>2 DEF Exec, Goto
    <3>2. callback \/ ~HasSendData(host(other(tag)))
      BY <1>7, <2>2 DEF ConcFirst
    <3> QED BY <1>1, <1>4, <3>1, <3>2
  <2> QED BY <2>1, <2>2
<1>9. Caller' = Caller /\ pc' \in {"exec", "put"}
  BY <1>1, <1>8 DEF Caller
<1>10. ASSUME NEW u \in Tags PROVE SameCall(u)
  <2>1. (Unsent(u)' <=> Unsent(u)) /\ (Asked(u)' <=> Asked(u))
    BY <1>1, <1>2, <1>9 DEF Unsent, Asked
  <2>2. \A l \in {"tick", "gate", "tock", "return"} : ~Under(u, l) /\ ~Under(u, l)'
    BY <1>1, <1>9 DEF Under
  <2> QED BY <2>1, <2>2 DEF SameCall
<1>11. ASSUME NEW u \in Tags PROVE HostPart(u)'
  <2>1. Same(host(u)) /\ SameHost(u)
    BY <1>2, <1>3, TagEnds DEF SameHost, SameTimers
  <2> QED BY <1>2, <1>4, <1>10, <2>1, HostKeeps
<1>12. ASSUME NEW u \in Tags PROVE ChipPart(u)'
  <2>1. /\ Same(host(u)) /\ Same(chip(u)) /\ SameTimers(chip(u)) /\ SameTimers(host(u))
    BY <1>3, TagEnds
  <2>2. /\ ~Under(u, "gate") /\ ~Under(u, "gate")' /\ ~Under(u, "tick")' /\ ~Nested(u, "tick")'
        /\ ~Nested(u, "gate")' /\ ~Nested(u, "tock")'
    BY <1>1, <1>9 DEF Under, Nested
  <2>3. Nested(u, "exec")' \/ Nested(u, "put")' => T!Armed(RecvTimer[host(u)])
    BY <1>5, <1>8 DEF Nested
  <2>4. Aside(u)' => ~Owes(u)
    <3> SUFFICES ASSUME Aside(u)' PROVE ~T!Armed(RecvTimer[host(u)])
      BY <1>6
    <3>1. u = other(tag) /\ ~callback' /\ pc' # "exec"
      BY <1>1, <1>8, TagEnds DEF Aside
    <3> QED BY <1>1, <1>8, <3>1
  <2> QED BY <1>2, <1>3, <1>4, <2>1, <2>2, <2>3, <2>4, CalmStep DEF SameTimers
<1>13. Shape'
  BY <1>1, <1>2, <1>8 DEF Shape, vars, history
<1> QED BY <1>11, <1>12, <1>13 DEF AnswerInv

\* The tag of the caller while a nested Exec is at work, and the other tag
\* otherwise: nothing happens to it.
LEMMA OtherStep ==
  ASSUME LinkInv, NEW t \in Tags, pc = "put" \/ pc = "tick" \/ pc = "gate" \/ pc = "tock",
         t # tag, tag' = tag, callback' = callback,
         pc' = "tick" \/ pc' = "gate" \/ pc' = "tock" \/ pc' = "return", pc' = "return" => ~callback,
         pc' = "tick" \/ pc' = "gate" => pc = "put" \/ pc = "tick",
         Same(host(t)), Same(chip(t)), SameTimers(host(t)), SameTimers(chip(t)),
         chan'[host(t)] = chan[host(t)], chan'[chip(t)] = chan[chip(t)],
         due' = due, rxreg' = rxreg, lastread' = lastread,
         kind' = kind, writeflag' = writeflag, issued_cmds'[t] = issued_cmds[t]
  PROVE  HostPart(t)' /\ ChipPart(t)'
<1>1. HostPart(t) /\ ChipPart(t)
  BY DEF LinkInv, AnswerInv
<1>2. /\ \A l : /\ ~Under(t, l) /\ ~Under(t, l)' /\ ~Nested(t, l) /\ ~Nested(t, l)'
      /\ Aside(t)' => Aside(t)
  BY DEF Under, Nested, Aside
<1>3. SameCall(t)
  <2>1. Caller' = Caller
    BY DEF Caller
  <2>2. (Unsent(t)' <=> Unsent(t)) /\ (Asked(t)' <=> Asked(t))
    BY <2>1 DEF Unsent, Asked, Caller
  <2> QED BY <1>2, <2>2 DEF SameCall
<1>4. HostPart(t)'
  BY <1>1, <1>3, HostKeeps DEF SameHost, SameTimers
<1>5. ChipPart(t)'
  BY <1>1, <1>2, CalmStep DEF ChipPart, Calm, SameTimers
<1> QED BY <1>4, <1>5

LEMMA ShapeKeeps ==
  ASSUME Shape, UNCHANGED <<kind, due, writeflag, refused, op>>, op = "issueCommand",
         issued_cmds' \in [Tags -> Nat], callback' \in BOOLEAN,
         pc' \in {"idle", "exec", "put", "tick", "gate", "tock", "return"},
         pc' \in {"idle", "return"} => ~callback',
         \A u \in Tags : sent'[host(u)] = sent[host(u)]
  PROVE  Shape'
BY DEF Shape

LEMMA TimerSteps ==
  ASSUME NEW x \in T!TimerType
  PROVE  /\ T!Stop(x).max = x.max /\ ~T!Stop(x).enabled /\ ~T!Stop(x).timeout
         /\ T!Continue(x).max = x.max /\ T!Continue(x).timeout = x.timeout
         /\ T!Continue(x).value = IF x.enabled THEN x.value ELSE x.max
         /\ T!Continue(x).enabled
         /\ T!Start(x).max = x.max
         /\ T!Tick(x).max = x.max
         /\ ~x.enabled => T!Tick(x) = x
         /\ x.enabled /\ x.value > 0 =>
              /\ T!Tick(x).timeout = x.timeout /\ T!Tick(x).value = x.value - 1 /\ T!Tick(x).enabled
         /\ x.enabled /\ x.value = 0 => ~T!Tick(x).enabled
         /\ T!Armed(T!Tick(x)) <=> T!Armed(x)
         /\ x.value \in Nat /\ x.max \in Nat /\ x.enabled \in BOOLEAN /\ x.timeout \in BOOLEAN
BY DEF T!TimerType, T!Stop, T!Continue, T!Start, T!Tick, T!SetTimeout, T!Armed

\* A nested Exec acknowledges; the Exec of a command sends it.
LEMMA PutAnswers ==
  ASSUME Divides, JtagConstants, LinkInv, NEW t \in Tags, t = tag, ExecPut
  PROVE  AnswerInv'
<1> DEFINE h == host(t)
           k == chip(t)
<1>1. /\ StreamInv(Seen) /\ AnswerInv /\ Shape /\ TypeOK /\ t \in Tags /\ tag = t
      /\ h \in Endpoint /\ k \in Endpoint /\ h # k /\ Peer(h) = k
      /\ chan \in [Endpoint -> Seq(Packet)]
      /\ RecvTimer[h] \in T!TimerType /\ SendTimer[h] \in T!TimerType
      /\ pc = "put" /\ op = "issueCommand"
  BY TagEnds DEF LinkInv, StreamInv, SendInv, TypeOK, LinkTypes, AnswerInv, Shape, ExecPut
<1>2. /\ GetSendData(h) /\ pc' = "tick"
      /\ UNCHANGED <<kind, writeflag, lastread, refused, rxreg, due, op, tag, callback>>
      /\ issued_cmds' = [issued_cmds EXCEPT
           ![t] = Issued(@, writeflag[t][chan'[k][Len(chan'[k])].seq % WND_S])]
  BY DEF ExecPut, Goto
<1>3. /\ Repeats(h) \/ Begins(h) \/ Confirms(h)
      /\ sent'[h] = sent[h] /\ rcvd'[h] = rcvd[h] /\ sendbuf'[h] = sendbuf[h]
      /\ wndpos'[h] = wndpos[h] /\ recackpos'[h] = recackpos[h]
      /\ Acked(h)' = Acked(h) /\ InOrder(h)' = InOrder(h)
      /\ Transmitted(h)' = Transmitted(h) => Same(h)
      /\ RecvTimer'[h] = T!Stop(RecvTimer[h])
      /\ \A n \in Endpoint \ {h} : Same(n) /\ SameTimers(n)
      /\ \A n \in Endpoint \ {k} : chan'[n] = chan[n]
  BY <1>1, <1>2, GetSame
<1>4. HostPart(t) /\ Calm(t)
  BY <1>1 DEF AnswerInv, ChipPart, Under, Nested
<1>5. /\ Rests(t) /\ chan[k] = <<>> /\ rcvd[k] = Transmitted(h) /\ sent[k] = InOrder(h)
  BY <1>1, <1>4 DEF Calm, Under
<1>6. ~SendTimer[h].timeout /\ ~Repeats(h)
  BY <1>4 DEF HostPart, HostTimers, Repeats
<1>7. Same(k) /\ SameTimers(k) /\ chan'[h] = chan[h]
  BY <1>1, <1>3
<1>8. Rests(t)' /\ Response(t)' = Response(t) /\ (Owes(t)' <=> Owes(t))
  BY <1>1, <1>2, <1>5, <1>7, RestsKeeps, ResponseKeeps DEF SameTimers
<1>9. \A p : Transmit(h, p) => chan'[k] = <<p>>
  BY <1>1, <1>5 DEF Transmit
<1>10. issued_cmds'[t] \in Nat /\ issued_cmds' \in [Tags -> Nat]
       /\ \A u \in Tags \ {t} : issued_cmds'[u] = issued_cmds[u]
  <2>1. max_issued_cmds \in Nat
    BY LinkLayerAssumption, SizeFacts
  <2>2. \A n \in Nat : \A w : Issued(n, w) \in Nat
    BY <2>1 DEF Issued
  <2> QED BY <1>1, <1>2, <2>2 DEF Shape
<1>11. Shape'
  <2>1. \A u \in Tags : sent'[host(u)] = sent[host(u)]
    BY <1>1, <1>3, TagEnds DEF Same
  <2>2. callback' \in BOOLEAN
    BY <1>1, <1>2 DEF Shape
  <2> QED BY <1>1, <1>2, <1>10, <2>1, <2>2, ShapeKeeps
<1>12. ~T!Armed(RecvTimer'[h]) /\ RecvTimer'[h].max = 0 /\ ~RecvTimer'[h].enabled
  BY <1>1, <1>3, <1>4, TimerSteps DEF HostPart, HostTimers, T!Armed
<1>13. ASSUME callback PROVE HostPart(t)' /\ ChipPart(t)'
  <2>1. Nested(t, "put") /\ T!Armed(RecvTimer[h]) /\ Out(t) = 0 /\ Owes(t)
    BY <1>1, <1>4, <1>13 DEF Nested, Calm, HostPart, HostTimers
  <2>2. rxreg = Response(t) /\ lastread = rxreg /\ Only(chan[h], rxreg.packet)
    BY <1>1, <1>4, <2>1 DEF Calm, Under
  <2>3. ~Unsent(t) /\ ~Asked(t) /\ ~Unsent(t)' /\ ~Asked(t)' /\ \A l : ~Under(t, l) /\ ~Under(t, l)'
    <3>1. Caller # tag /\ Caller' # tag
      BY <1>1, <1>2, <1>13, TagEnds DEF Caller
    <3> QED BY <1>2, <1>13, <3>1 DEF Unsent, Asked, Under
  <2>4. sent[h] = Transmitted(h)
    BY <1>1, <1>4, <2>3, Numbers DEF HostPart, Counts, One
  <2>5. Confirms(h) /\ Same(h) /\ SendTimer'[h] = SendTimer[h]
    <3>1. ~Begins(h)
      BY <1>1, <2>4, Numbers DEF Begins
    <3>2. Confirms(h)
      BY <1>3, <1>6, <3>1
    <3>3. Transmitted(h)' = Transmitted(h) /\ SendTimer' = SendTimer
      BY <3>2 DEF Confirms
    <3> QED BY <1>3, <3>2, <3>3
  <2>6. AckPacket(h) \in Packet /\ chan'[k] = <<AckPacket(h)>>
        /\ ~AckPacket(h).seqvalid /\ AckPacket(h).ack = recackpos[h]
    BY <1>1, <1>9, <2>5, PacketTypes DEF Confirms, AckPacket
  <2>7. Acking(t)'
    <3>1. Out(t)' = 0
      BY <2>1, <2>5 DEF Out, Same
    <3>2. rxreg'.tag = t /\ lastread' = rxreg' /\ Only(chan'[h], rxreg'.packet)
      BY <1>2, <1>7, <2>2 DEF Response, Tagged
    <3>3. rcvd'[k] = Transmitted(h)' /\ sent'[k] = InOrder(h)'
      BY <1>3, <1>5, <1>7, <2>5 DEF Same
    <3>4. recackpos'[h] = recackpos[h]
      BY <1>3
    <3> QED BY <1>2, <1>8, <1>12, <2>2, <2>6, <3>1, <3>2, <3>3, <3>4 DEF Acking
  <2>8. Counts(t)'
    <3>1. ReadsIssued(t)' = ReadsIssued(t)
      BY <1>2 DEF ReadsIssued
    <3> QED BY <1>4, <2>3, <2>5, <3>1 DEF HostPart, Counts, Same, One
  <2>9. Unacked(t)'
    <3>1. Out(t)' = 0 /\ ~Busy(t)' /\ 0 <= max_issued_cmds
      BY <2>1, <2>3, <2>5, LinkLayerAssumption, SizeFacts DEF Out, Same, Busy
    <3> QED BY <2>3, <3>1 DEF Unacked
  <2>10. HostTimers(t)'
    <3>1. Out(t)' = 0
      BY <2>1, <2>5 DEF Out, Same
    <3> QED BY <1>4, <1>12, <2>1, <2>3, <2>5, <3>1 DEF HostPart, HostTimers, One
  <2>11. Shown(t)'
    <3>1. rxreg.packet.ack = recackpos[k]
      BY <2>2 DEF Response, Tagged, DataPacket
    <3>2. InOrder(k) = Acked(h)
      BY <1>1, <1>5, <2>1, Numbers DEF Rests, Out
    <3>3. Inc(rxreg.packet.ack) = wndpos[h]
      BY <1>1, <3>1, <3>2, PositionFacts
    <3> QED BY <1>2, <1>3, <2>2, <3>3 DEF Shown
  <2>12. Nested(t, "tick")' /\ ~Under(t, "tick")'
    BY <1>2, <1>13 DEF Nested, Under
  <2> QED BY <2>7, <2>8, <2>9, <2>10, <2>11, <2>12 DEF HostPart, ChipPart
<1>14. ASSUME ~callback PROVE HostPart(t)' /\ ChipPart(t)'
  <2>1. /\ Unsent(t) /\ ~Unsent(t)' /\ (Asked(t)' <=> Asked(t)) /\ ~Busy(t) /\ Busy(t)'
        /\ Under(t, "tick")' /\ ~Under(t, "gate")' /\ ~Under(t, "tock")' /\ ~Under(t, "return")'
        /\ ~Under(t, "tick") /\ ~Under(t, "gate") /\ ~Under(t, "tock") /\ ~Under(t, "return")
        /\ ~Nested(t, "tick")'
    BY <1>1, <1>2, <1>14 DEF Unsent, Asked, Caller, Busy, Under, Nested
  <2>2. sent[h] = Transmitted(h) + 1
    BY <1>1, <1>4, <2>1, Numbers DEF HostPart, Counts, One
  <2>3. Begins(h)
    <3>1. ~Confirms(h)
      BY <1>1, <2>2, Numbers DEF Confirms
    <3> QED BY <1>3, <1>6, <3>1
  <2> DEFINE p == DataPacket(h, sendpos[h])
  <2>4. /\ Transmitted(h)' = Transmitted(h) + 1 /\ Transmit(h, p) /\ p.data = Transmitted(h) + 1
        /\ SendTimer'[h] = T!Continue(SendTimer[h])
    BY <1>1, <2>3 DEF Begins, TypeOK
  <2>5. p \in Packet /\ p.seqvalid /\ p.ack = recackpos[h] /\ p.seq = sendpos[h] /\ chan'[k] = <<p>>
    <3>1. sendpos[h] \in SeqNo
      BY <1>1 DEF TypeOK
    <3>2. p \in Packet
      BY <1>1, <3>1, PacketTypes
    <3> QED BY <1>9, <2>4, <3>2 DEF DataPacket
  <2>6. Out(t)' = Out(t) + 1 /\ Out(t) \in Nat
    BY <1>1, <1>3, <2>4, Numbers DEF Out
  <2>7. issued_cmds'[t] = IF ~Asked(t) /\ issued_cmds[t] <= max_issued_cmds
                          THEN issued_cmds[t] + 1 ELSE max_issued_cmds + 1
    <3>1. chan'[k][Len(chan'[k])] = p
      BY <2>5
    <3>2. writeflag[t][p.seq % WND_S] <=> ~Asked(t)
      BY <1>4, <2>1, <2>5 DEF HostPart, Unacked
    <3>3. issued_cmds'[t] = Issued(issued_cmds[t], writeflag[t][p.seq % WND_S])
      BY <1>1, <1>2, <3>1 DEF Shape
    <3> QED BY <3>2, <3>3 DEF Issued
  <2> HIDE DEF p
  <2>8. Counts(t)'
    <3>1. ReadsIssued(t)' = ReadsIssued(t)
      BY <1>2 DEF ReadsIssued
    <3> QED BY <1>1, <1>3, <1>4, <2>1, <2>2, <2>4, <3>1, Numbers DEF HostPart, Counts, One
  <2>9. max_issued_cmds \in Nat \ {0} /\ SEND_TIMEOUT \in Nat /\ issued_cmds[t] \in Nat
    BY <1>1, LinkLayerAssumption, ParameterAssumption, SizeFacts DEF Shape
  <2>10. Unacked(t)'
    BY <1>4, <2>1, <2>6, <2>7, <2>9 DEF HostPart, Unacked
  <2>11. HostTimers(t)'
    <3>1. /\ SendTimer'[h].timeout = SendTimer[h].timeout /\ SendTimer'[h].max = SendTimer[h].max
          /\ SendTimer'[h].value = IF SendTimer[h].enabled THEN SendTimer[h].value ELSE SendTimer[h].max
          /\ SendTimer[h].value \in Nat
      BY <1>1, <2>4, TimerSteps
    <3>2. /\ ~SendTimer[h].timeout /\ SendTimer[h].max = SEND_TIMEOUT
          /\ SendTimer[h].enabled => SendTimer[h].value + 2 * Out(t) >= SEND_TIMEOUT
      BY <1>4, <2>1, <2>6, <2>9, <3>1 DEF HostPart, HostTimers, One
    <3>3. SendTimer'[h].value + 2 * Out(t)' >= SEND_TIMEOUT + 2
      BY <2>6, <2>9, <3>1, <3>2
    <3> QED BY <1>12, <2>1, <2>9, <3>1, <3>2, <3>3 DEF HostTimers, One
  <2>12. Shown(t)'
    <3>1. lastread.tag = t =>
            \/ Inc(lastread.packet.ack) = wndpos[h]
            \/ lastread = ClearPacket /\ Acked(h) = 0 /\ issued_cmds[t] <= Out(t)
      BY <1>4, <2>1 DEF HostPart, Shown
    <3>2. issued_cmds[t] <= Out(t) => issued_cmds'[t] <= Out(t)' \/ Asked(t)
      BY <1>4, <2>1, <2>6, <2>7, <2>9 DEF HostPart, Unacked
    <3> QED BY <1>2, <1>3, <2>1, <3>1, <3>2 DEF Shown, ClearPacket, Tagged
  <2>13. Coming(t)'
    <3>1. rcvd'[k] + 1 = Transmitted(h)' /\ sent'[k] = InOrder(h)' /\ recackpos'[h] = recackpos[h]
      BY <1>3, <1>5, <1>7, <2>4 DEF Same
    <3>2. p.data = Transmitted(h)'
      BY <2>4
    <3> QED BY <1>8, <2>5, <3>1, <3>2 DEF Coming
  <2>14. ChipPart(t)'
    BY <1>12, <2>1, <2>13 DEF ChipPart, Working
  <2> QED BY <2>8, <2>10, <2>11, <2>12, <2>14 DEF HostPart
<1>15. ASSUME NEW u \in Tags, u # t PROVE HostPart(u)' /\ ChipPart(u)'
  <2>1. /\ Same(host(u)) /\ Same(chip(u)) /\ SameTimers(host(u)) /\ SameTimers(chip(u))
        /\ chan'[host(u)] = chan[host(u)] /\ chan'[chip(u)] = chan[chip(u)]
    BY <1>1, <1>3, <1>15, TagEnds
  <2> QED BY <1>1, <1>2, <1>10, <1>15, <2>1, OtherStep
<1> QED BY <1>11, <1>13, <1>14, <1>15 DEF AnswerInv

\* What is left after the chip has reacted.
LEMMA SettledFacts ==
  ASSUME Divides, StreamInv(Seen), Settled, NEW t \in Tags
  PROVE  /\ chan[chip(t)] = <<>> /\ chan[host(t)] = <<>>
         /\ InOrder(chip(t)) = rcvd[chip(t)] /\ Transmitted(chip(t)) = sent[chip(t)]
         /\ ~T!Armed(RecvTimer[chip(t)])
         /\ due[t] = 0 \/ sent[chip(t)] = Acked(chip(t)) + WND_S
<1>1. chip(t) \in Endpoint
  BY TagEnds
<1>2. /\ HasUnsent(chip(t)) <=> Transmitted(chip(t)) < sent[chip(t)]
      /\ HasReadData(chip(t)) <=> rcvd[chip(t)] < InOrder(chip(t))
      /\ WindowFull(chip(t)) <=> sent[chip(t)] = Acked(chip(t)) + WND_S
  BY <1>1, CountTests
<1> QED BY <1>2, Numbers DEF Settled

\* Time passes at an end whose timers do not run.
LEMMA TimersRest ==
  ASSUME Divides, StreamInv(Seen), NEW t \in Tags, ~T!Armed(RecvTimer[host(t)]), Out(t) = 0,
         Tick(host(t))
  PROVE  SameTimers(host(t))
<1>1. /\ SendInv /\ host(t) \in Endpoint /\ SendTimer[host(t)] \in T!TimerType
      /\ RecvTimer[host(t)] \in T!TimerType
  BY TagEnds DEF StreamInv, SendInv, TypeOK
<1>2. ~T!Armed(SendTimer[host(t)])
  BY <1>1, CountTests, Numbers DEF Out
<1> QED BY <1>1, <1>2, TickSame, TimerSteps DEF T!Armed, SameTimers

\* At the first Tick the answer is in the register, or the acknowledgement has
\* done what it was sent for.
LEMMA TickAnswers ==
  ASSUME Divides, JtagConstants, LinkInv, Settled, NEW t \in Tags, t = tag, ExecTick
  PROVE  AnswerInv'
<1> DEFINE h == host(t)
           k == chip(t)
<1>1. /\ StreamInv(Seen) /\ AnswerInv /\ Shape /\ TypeOK /\ SendInv /\ tag = t
      /\ h \in Endpoint /\ k \in Endpoint /\ h # k
      /\ RecvTimer[h] \in T!TimerType /\ SendTimer[h] \in T!TimerType
      /\ pc = "tick" /\ op = "issueCommand"
  BY TagEnds DEF LinkInv, StreamInv, SendInv, TypeOK, LinkTypes, AnswerInv, Shape, ExecTick
<1>2. /\ Tick(h) /\ pc' = "gate"
      /\ UNCHANGED <<kind, writeflag, issued_cmds, lastread, refused, rxreg, due, op, tag, callback>>
  BY DEF ExecTick, Goto
<1>3. /\ \A n \in Endpoint : Same(n)
      /\ SendTimer'[h] = T!Tick(SendTimer[h]) /\ RecvTimer'[h] = T!Tick(RecvTimer[h])
      /\ \A n \in Endpoint \ {h} : SameTimers(n)
      /\ chan' = chan
  BY <1>1, <1>2, TickSame
<1>4. HostPart(t) /\ ChipPart(t)
  BY <1>1 DEF AnswerInv
<1>5. /\ chan[k] = <<>> /\ chan[h] = <<>>
      /\ InOrder(k) = rcvd[k] /\ Transmitted(k) = sent[k] /\ ~T!Armed(RecvTimer[k])
      /\ due[t] = 0 \/ sent[k] = Acked(k) + WND_S
  BY <1>1, SettledFacts
<1>6. /\ Same(h) /\ Same(k) /\ SameTimers(k) /\ chan'[h] = chan[h] /\ chan'[k] = chan[k]
      /\ T!Armed(RecvTimer'[h]) <=> T!Armed(RecvTimer[h])
      /\ Out(t)' = Out(t)
  BY <1>1, <1>3, TimerSteps DEF Out, Same
<1>7. Response(t)' = Response(t) /\ (Owes(t)' <=> Owes(t))
  BY <1>6, ResponseKeeps
<1>8. Rests(t) => Rests(t)'
  BY <1>2, <1>6, RestsKeeps DEF SameTimers
<1>9. Shape'
  <2>1. \A u \in Tags : sent'[host(u)] = sent[host(u)]
    BY <1>3, TagEnds DEF Same
  <2>2. callback' \in BOOLEAN /\ issued_cmds' \in [Tags -> Nat]
    BY <1>1, <1>2 DEF Shape
  <2> QED BY <1>1, <1>2, <2>1, <2>2, ShapeKeeps
<1>10. Caller' = Caller /\ (Asked(t)' <=> Asked(t)) /\ (Unsent(t)' <=> Unsent(t))
  <2>1. Caller' = Caller
    BY <1>2 DEF Caller
  <2> QED BY <1>1, <1>2, <2>1 DEF Asked, Unsent
<1>11. ASSUME callback PROVE HostPart(t)' /\ ChipPart(t)'
  <2>1. /\ Nested(t, "tick") /\ Nested(t, "gate")' /\ ~Nested(t, "tick")' /\ ~Nested(t, "tock")'
        /\ ~Nested(t, "exec")' /\ ~Nested(t, "put")' /\ ~Aside(t)'
        /\ \A l : ~Under(t, l) /\ ~Under(t, l)'
    BY <1>1, <1>2, <1>11 DEF Nested, Under, Aside
  <2>2. Acking(t) /\ ~Owes(t)
    BY <1>4, <1>5, <2>1 DEF ChipPart, Acking
  <2>3. HostPart(t)'
    <3>1. SameTimers(h)
      BY <1>1, <1>2, <1>4, <2>2, TimersRest DEF Acking
    <3>2. SameCall(t)
      BY <1>10, <2>1 DEF SameCall
    <3> QED BY <1>2, <1>4, <1>6, <3>1, <3>2, HostKeeps DEF SameHost, SameTimers
  <2>4. Calm(t)'
    BY <1>2, <1>5, <1>6, <1>7, <1>8, <2>1, <2>2 DEF Calm, Acking, Same
  <2> QED BY <2>1, <2>3, <2>4 DEF ChipPart
<1>12. ASSUME ~callback PROVE HostPart(t)' /\ ChipPart(t)'
  <2>1. /\ Under(t, "tick") /\ Under(t, "gate")' /\ ~Under(t, "tick")' /\ ~Under(t, "gate")
        /\ ~Under(t, "tock") /\ ~Under(t, "return") /\ ~Under(t, "tock")' /\ ~Under(t, "return")'
        /\ Busy(t) /\ Busy(t)' /\ ~Aside(t)' /\ (\A l : ~Nested(t, l)')
        /\ ~Unsent(t) /\ ~Unsent(t)'
    BY <1>1, <1>2, <1>12 DEF Nested, Under, Aside, Busy, Unsent
  <2>2. Working(t) /\ Arrived(t)
    <3>1. Working(t)
      BY <1>4, <2>1 DEF ChipPart
    <3> QED BY <1>5, <3>1 DEF Working, Coming
  <2>3. /\ InOrder(k) = Transmitted(h) /\ Acked(k) = rcvd[h] /\ rcvd[k] = Transmitted(h)
        /\ sent[k] + due[t] = rcvd[h] + One(Asked(t))
    <3>1. rcvd[k] + 1 # Transmitted(h)
      BY <1>1, <1>5, <2>2, Numbers DEF Arrived
    <3> QED BY <2>2, <3>1 DEF Arrived
  <2>4. due[t] = 0 /\ sent[k] = rcvd[h] + One(Asked(t))
    <3>1. WND_S >= 1 /\ WND_S \in Nat /\ due[t] \in Nat
      BY <1>1, SizeFacts DEF Shape
    <3> QED BY <1>1, <1>5, <2>3, <3>1, Numbers DEF One
  <2>5. Rests(t)
    BY <1>1, <1>5, <2>3, <2>4, Numbers DEF Rests, One
  <2>6. /\ rxreg.tag = t /\ rxreg.packet.ack = recackpos[k]
        /\ Owes(t) => rxreg = Response(t)
    <3>1. \A p : Shows(t, p) <=> rxreg = Tagged(t, p)
      BY <1>5 DEF Shows
    <3>2. PICK p \in Packet : rxreg = Tagged(t, p) /\ p.ack = recackpos[k]
      BY <1>5, <2>2, <3>1 DEF Arrived
    <3>3. Owes(t) => rxreg = Tagged(t, Response(t).packet)
      BY <1>5, <2>2, <3>1 DEF Arrived
    <3>4. Tagged(t, Response(t).packet) = Response(t)
      BY DEF Response, Tagged
    <3> QED BY <3>2, <3>3, <3>4 DEF Tagged
  <2>7. Only(chan[h], rxreg.packet)
    BY <1>5 DEF Only
  <2>8. Calm(t)'
    <3>1. ~T!Armed(RecvTimer[h])
      BY <2>2 DEF Working
    <3> QED BY <1>2, <1>5, <1>6, <1>7, <1>8, <1>10, <2>1, <2>3, <2>4, <2>5, <2>6, <2>7, <3>1
           DEF Calm, Same, One
  <2>9. Counts(t)'
    <3>1. ReadsIssued(t)' = ReadsIssued(t)
      BY <1>2 DEF ReadsIssued
    <3> QED BY <1>4, <1>6, <1>10, <2>1, <3>1 DEF HostPart, Counts, Same, One
  <2>10. Unacked(t)'
    BY <1>2, <1>4, <1>6, <1>10, <2>1 DEF HostPart, Unacked
  <2>11. HostTimers(t)'
    <3>1. /\ max_issued_cmds \in Nat \ {0} /\ SEND_TIMEOUT \in Nat /\ Out(t) \in Nat
          /\ SEND_TIMEOUT >= 2 * max_issued_cmds /\ Out(t) <= max_issued_cmds
      <4>1. Out(t) \in Nat
        BY <1>1, Numbers DEF Out
      <4> QED BY <1>4, <4>1, LinkLayerAssumption, ParameterAssumption, SizeFacts
             DEF JtagConstants, HostPart, Unacked
    <3>2. /\ ~SendTimer[h].timeout /\ SendTimer[h].max = SEND_TIMEOUT
          /\ SendTimer[h].enabled => SendTimer[h].value + 2 * Out(t) >= SEND_TIMEOUT + 2
          /\ SendTimer[h].value \in Nat
      <4>1. SendTimer[h].value \in Nat
        BY <1>1, TimerSteps
      <4> QED BY <1>4, <2>1, <3>1, <4>1 DEF HostPart, HostTimers, One
    <3>3. SendTimer[h].enabled => SendTimer[h].value > 0
      BY <3>1, <3>2
    <3>4. /\ ~SendTimer'[h].timeout /\ SendTimer'[h].max = SEND_TIMEOUT
          /\ SendTimer'[h].enabled => SendTimer'[h].value + 2 * Out(t) >= SEND_TIMEOUT + 1
      <4>1. CASE SendTimer[h].enabled
        <5>1. /\ SendTimer'[h].timeout = SendTimer[h].timeout /\ SendTimer'[h].max = SendTimer[h].max
              /\ SendTimer'[h].value = SendTimer[h].value - 1
          BY <1>1, <1>3, <3>3, <4>1, TimerSteps
        <5> QED BY <3>1, <3>2, <4>1, <5>1
      <4>2. CASE ~SendTimer[h].enabled
        <5>1. SendTimer'[h] = SendTimer[h]
          BY <1>1, <1>3, <4>2, TimerSteps
        <5> QED BY <3>2, <4>2, <5>1
      <4> QED BY <4>1, <4>2
    <3>5. RecvTimer'[h] = RecvTimer[h] /\ ~RecvTimer[h].enabled /\ ~T!Armed(RecvTimer[h])
          /\ RecvTimer[h].max = 0
      BY <1>1, <1>3, <1>4, <2>2, TimerSteps DEF Working, T!Armed, HostPart, HostTimers
    <3> QED BY <1>6, <2>1, <3>1, <3>4, <3>5 DEF HostTimers, One
  <2>12. Shown(t)'
    BY <1>2, <1>4, <1>6, <1>10, <2>1 DEF HostPart, Shown, Same, ClearPacket, Tagged
  <2> QED BY <2>1, <2>8, <2>9, <2>10, <2>11, <2>12 DEF HostPart, ChipPart
<1>13. ASSUME NEW u \in Tags, u # t PROVE HostPart(u)' /\ ChipPart(u)'
  <2>1. /\ Same(host(u)) /\ Same(chip(u)) /\ SameTimers(host(u)) /\ SameTimers(chip(u))
        /\ chan'[host(u)] = chan[host(u)] /\ chan'[chip(u)] = chan[chip(u)]
    BY <1>1, <1>3, <1>13, TagEnds
  <2> QED BY <1>1, <1>2, <1>13, <2>1, OtherStep
<1> QED BY <1>9, <1>11, <1>12, <1>13 DEF AnswerInv

\* At the second Tick the nested Exec is over, or the acknowledgement of the
\* answer falls due.
LEMMA TockAnswers ==
  ASSUME Divides, JtagConstants, LinkInv, NEW t \in Tags, t = tag, ExecTock
  PROVE  AnswerInv'
<1> DEFINE h == host(t)
           k == chip(t)
<1>1. /\ StreamInv(Seen) /\ AnswerInv /\ Shape /\ TypeOK /\ SendInv /\ tag = t
      /\ h \in Endpoint /\ k \in Endpoint /\ h # k
      /\ RecvTimer[h] \in T!TimerType /\ SendTimer[h] \in T!TimerType
      /\ pc = "tock" /\ op = "issueCommand"
  BY TagEnds DEF LinkInv, StreamInv, SendInv, TypeOK, LinkTypes, AnswerInv, Shape, ExecTock
<1>2. /\ Tick(h)
      /\ UNCHANGED <<kind, writeflag, issued_cmds, lastread, refused, rxreg, due, op>>
      /\ callback => tag' = other(t) /\ callback' = FALSE /\ pc' = "exec"
      /\ ~callback => UNCHANGED <<tag, callback>> /\ pc' = "return"
  BY DEF ExecTock, Goto
<1>3. /\ \A n \in Endpoint : Same(n)
      /\ SendTimer'[h] = T!Tick(SendTimer[h]) /\ RecvTimer'[h] = T!Tick(RecvTimer[h])
      /\ \A n \in Endpoint \ {h} : SameTimers(n)
      /\ chan' = chan
  BY <1>1, <1>2, TickSame
<1>4. \A u \in Tags : HostPart(u) /\ Calm(u)
  BY <1>1 DEF AnswerInv, ChipPart, Under, Nested
<1>5. \A u \in Tags : /\ Same(host(u)) /\ Same(chip(u)) /\ SameTimers(chip(u))
                      /\ T!Armed(RecvTimer'[host(u)]) <=> T!Armed(RecvTimer[host(u)])
                      /\ u # t => SameTimers(host(u))
  <2>1. T!Armed(RecvTimer'[h]) <=> T!Armed(RecvTimer[h])
    BY <1>1, <1>3, TimerSteps
  <2>2. \A u \in Tags : Same(host(u)) /\ Same(chip(u)) /\ SameTimers(chip(u)) /\ (u # t => SameTimers(host(u)))
    BY <1>3, TagEnds
  <2> QED BY <2>1, <2>2 DEF SameTimers
<1>6. Shape'
  <2>1. \A u \in Tags : sent'[host(u)] = sent[host(u)]
    BY <1>5 DEF Same
  <2>2. /\ callback' \in BOOLEAN /\ issued_cmds' \in [Tags -> Nat]
        /\ pc' \in {"exec", "return"} /\ (pc' = "return" => ~callback')
    <3>1. callback \in BOOLEAN /\ issued_cmds' \in [Tags -> Nat]
      BY <1>1, <1>2 DEF Shape
    <3>2. CASE callback
      BY <1>2, <3>1, <3>2
    <3>3. CASE ~callback
      BY <1>2, <3>1, <3>3
    <3> QED BY <3>2, <3>3
  <2> QED BY <1>1, <1>2, <2>1, <2>2, ShapeKeeps
<1>7. \A u \in Tags : (Asked(u)' <=> Asked(u)) /\ (Unsent(u)' <=> Unsent(u))
  <2>1. Caller' = Caller
    BY <1>1, <1>2 DEF Caller
  <2> QED BY <1>1, <1>2, <2>1 DEF Asked, Unsent, Caller
<1>8. ASSUME NEW u \in Tags PROVE ChipPart(u)'
  <2>1. /\ ~Under(u, "gate") /\ ~Under(u, "gate")' /\ ~Under(u, "tick")' /\ ~Nested(u, "tick")'
        /\ ~Nested(u, "exec")' /\ ~Nested(u, "put")' /\ ~Nested(u, "gate")' /\ ~Nested(u, "tock")'
        /\ ~Aside(u)'
    BY <1>1, <1>2 DEF Under, Nested, Aside
  <2> QED BY <1>2, <1>3, <1>4, <1>5, <2>1, CalmStep
<1>9. ASSUME NEW u \in Tags, SameTimers(host(u)),
             \A l \in {"tick", "gate", "tock", "return"} : Under(u, l)' <=> Under(u, l)
      PROVE  HostPart(u)'
  <2>1. SameCall(u)
    BY <1>7, <1>9 DEF SameCall
  <2> QED BY <1>2, <1>4, <1>5, <1>9, <2>1, HostKeeps DEF SameHost, SameTimers
<1>10. ASSUME callback, NEW u \in Tags PROVE HostPart(u)'
  <2>1. \A l \in {"tick", "gate", "tock", "return"} : ~Under(u, l) /\ ~Under(u, l)'
    BY <1>2, <1>10 DEF Under
  <2>2. SameTimers(host(u))
    <3>1. CASE u = t
      <4>1. Nested(t, "tock")
        BY <1>1, <1>10 DEF Nested
      <4>2. ~T!Armed(RecvTimer[h]) /\ Out(t) = 0
        BY <1>4, <4>1 DEF Calm
      <4> QED BY <1>1, <1>2, <3>1, <4>2, TimersRest
    <3>2. CASE u # t
      BY <1>5, <3>2
    <3> QED BY <3>1, <3>2
  <2> QED BY <1>9, <2>1, <2>2
<1>11. ASSUME ~callback PROVE HostPart(t)'
  <2>1. /\ Under(t, "tock") /\ Under(t, "return")' /\ ~Under(t, "tock")'
        /\ ~Under(t, "tick") /\ ~Under(t, "gate") /\ ~Under(t, "tick")' /\ ~Under(t, "gate")'
        /\ ~Busy(t) /\ ~Busy(t)' /\ ~Unsent(t) /\ ~Unsent(t)'
    BY <1>1, <1>2, <1>11 DEF Under, Busy, Unsent
  <2>2. Same(h) /\ Out(t)' = Out(t)
    BY <1>5 DEF Same, Out
  <2>3. Counts(t)'
    <3>1. ReadsIssued(t)' = ReadsIssued(t)
      BY <1>2 DEF ReadsIssued
    <3> QED BY <1>4, <1>7, <2>1, <2>2, <3>1 DEF HostPart, Counts, Same, One
  <2>4. Unacked(t)'
    BY <1>2, <1>4, <1>7, <2>1, <2>2 DEF HostPart, Unacked
  <2>5. HostTimers(t)'
    <3>1. /\ max_issued_cmds \in Nat \ {0} /\ SEND_TIMEOUT \in Nat /\ Out(t) \in Nat
          /\ SEND_TIMEOUT >= 2 * max_issued_cmds /\ Out(t) <= max_issued_cmds
      <4>1. Out(t) \in Nat
        BY <1>1, Numbers DEF Out
      <4> QED BY <1>4, <4>1, LinkLayerAssumption, ParameterAssumption, SizeFacts
             DEF JtagConstants, HostPart, Unacked
    <3>2. /\ ~SendTimer[h].timeout /\ SendTimer[h].max = SEND_TIMEOUT
          /\ SendTimer[h].enabled => SendTimer[h].value + 2 * Out(t) >= SEND_TIMEOUT + 1
          /\ SendTimer[h].value \in Nat
      <4>1. SendTimer[h].value \in Nat
        BY <1>1, TimerSteps
      <4> QED BY <1>4, <2>1, <3>1, <4>1 DEF HostPart, HostTimers, One
    <3>3. SendTimer[h].enabled => SendTimer[h].value > 0
      BY <3>1, <3>2
    <3>4. /\ ~SendTimer'[h].timeout /\ SendTimer'[h].max = SEND_TIMEOUT
          /\ SendTimer'[h].enabled => SendTimer'[h].value + 2 * Out(t) >= SEND_TIMEOUT
      <4>1. CASE SendTimer[h].enabled
        <5>1. /\ SendTimer'[h].timeout = SendTimer[h].timeout /\ SendTimer'[h].max = SendTimer[h].max
              /\ SendTimer'[h].value = SendTimer[h].value - 1
          BY <1>1, <1>3, <3>3, <4>1, TimerSteps
        <5> QED BY <3>1, <3>2, <4>1, <5>1
      <4>2. CASE ~SendTimer[h].enabled
        <5>1. SendTimer'[h] = SendTimer[h]
          BY <1>1, <1>3, <4>2, TimerSteps
        <5> QED BY <3>2, <4>2, <5>1
      <4> QED BY <4>1, <4>2
    <3>5. ~RecvTimer'[h].enabled /\ RecvTimer'[h].max = 0
      <4>1. RecvTimer[h].max = 0 /\ (RecvTimer[h].enabled => RecvTimer[h].value = 0)
        BY <1>4 DEF HostPart, HostTimers
      <4> QED BY <1>1, <1>3, <4>1, TimerSteps
    <3>6. T!Armed(RecvTimer'[h]) => Out(t)' = 0
      BY <1>4, <1>5, <2>2 DEF HostPart, HostTimers
    <3> QED BY <2>1, <2>2, <3>1, <3>4, <3>5, <3>6 DEF HostTimers, One
  <2>6. Shown(t)'
    BY <1>2, <1>4, <1>7, <2>1, <2>2 DEF HostPart, Shown, Same, ClearPacket, Tagged
  <2> QED BY <2>3, <2>4, <2>5, <2>6 DEF HostPart
<1>12. ASSUME ~callback, NEW u \in Tags, u # t PROVE HostPart(u)'
  <2>1. \A l \in {"tick", "gate", "tock", "return"} : ~Under(u, l) /\ ~Under(u, l)'
    BY <1>1, <1>2, <1>12 DEF Under
  <2> QED BY <1>5, <1>9, <1>12, <2>1
<1> QED BY <1>6, <1>8, <1>10, <1>11, <1>12 DEF AnswerInv
-----------------------------------------------------------------------------
(* The calls. *)

\* The answer has arrived when the command returns, and is the only one.
LEMMA ReturnAnswers ==
  ASSUME Divides, LinkInv, NEW t \in Tags, t = tag, issueCommandReturns
  PROVE  AnswerInv'
<1> DEFINE h == host(t)
           k == chip(t)
<1>1. /\ StreamInv(Seen) /\ AnswerInv /\ Shape /\ tag = t
      /\ h \in Endpoint /\ k \in Endpoint /\ h # k
      /\ pc = "return" /\ op = "issueCommand" /\ ~callback /\ ~refused
  BY TagEnds DEF LinkInv, AnswerInv, Shape, issueCommandReturns
<1>2. /\ pc' = "idle"
      /\ UNCHANGED <<kind, writeflag, issued_cmds, lastread, refused, rxreg, due, op, tag, callback>>
      /\ IF HasReadData(h) THEN Read(h) ELSE UNCHANGED vars
  BY <1>1 DEF issueCommandReturns, Goto
<1>3. \A u \in Tags : HostPart(u) /\ Calm(u)
  BY <1>1 DEF AnswerInv, ChipPart, Under, Nested
<1>4. HasReadData(h) <=> rcvd[h] < InOrder(h)
  BY <1>1, CountTests
<1>5. /\ \A n \in Endpoint \ {h} : Same(n)
      /\ \A n \in Endpoint : SameTimers(n)
      /\ chan' = chan
      /\ sent'[h] = sent[h] /\ wndpos'[h] = wndpos[h] /\ sendpos'[h] = sendpos[h]
      /\ Acked(h)' = Acked(h) /\ Transmitted(h)' = Transmitted(h) /\ InOrder(h)' = InOrder(h)
      /\ rcvd'[h] = IF rcvd[h] < InOrder(h) THEN rcvd[h] + 1 ELSE rcvd[h]
  <2>1. CASE HasReadData(h)
    BY <1>1, <1>2, <1>4, <2>1, ReadSame DEF SameTimers
  <2>2. CASE ~HasReadData(h)
    <3>1. (\A n \in Endpoint : Same(n) /\ SameTimers(n)) /\ chan' = chan
      BY <1>2, <2>2, VarsSame
    <3> QED BY <1>1, <1>4, <2>2, <3>1 DEF Same
  <2> QED BY <2>1, <2>2
<1>6. \A u \in Tags : /\ ~Unsent(u) /\ ~Unsent(u)' /\ ~Asked(u)' /\ ~Busy(u) /\ ~Busy(u)'
                      /\ \A l \in {"tick", "gate", "tock"} : ~Under(u, l) /\ ~Under(u, l)'
                      /\ ~Under(u, "return")' /\ (Under(u, "return") <=> u = t)
                      /\ (Asked(u) => u = t)
                      /\ \A l : ~Nested(u, l)'
                      /\ ~Aside(u)'
  BY <1>1, <1>2 DEF Unsent, Asked, Busy, Under, Caller, Nested, Aside
<1>7. ASSUME NEW u \in Tags
      PROVE  /\ sent'[host(u)] = sent[host(u)] /\ wndpos'[host(u)] = wndpos[host(u)]
             /\ Acked(host(u))' = Acked(host(u)) /\ Transmitted(host(u))' = Transmitted(host(u))
             /\ InOrder(host(u))' = InOrder(host(u)) /\ SameTimers(host(u)) /\ Same(chip(u))
             /\ u # t => rcvd'[host(u)] = rcvd[host(u)]
             /\ Out(u)' = Out(u)
  <2>1. CASE u = t
    BY <1>1, <1>5, <2>1 DEF Out
  <2>2. CASE u # t
    <3>1. Same(host(u)) /\ Same(chip(u)) /\ SameTimers(host(u))
      BY <1>5, <2>2, TagEnds
    <3> QED BY <2>2, <3>1 DEF Same, Out
  <2> QED BY <2>1, <2>2
<1>8. Shape'
  <2>1. \A u \in Tags : sent'[host(u)] = sent[host(u)]
    BY <1>7
  <2>2. callback' \in BOOLEAN /\ issued_cmds' \in [Tags -> Nat] /\ ~callback'
    BY <1>1, <1>2 DEF Shape
  <2> QED BY <1>1, <1>2, <2>1, <2>2, ShapeKeeps
<1>9. ASSUME NEW u \in Tags PROVE HostPart(u)'
  <2>1. HostPart(u) /\ ReadsIssued(u)' = ReadsIssued(u)
    BY <1>2, <1>3 DEF ReadsIssued
  <2>2. Counts(u)'
    <3>1. rcvd[h] \in Nat
      BY <1>1, Numbers
    <3>2. /\ rcvd'[host(u)] = ReadsIssued(u) /\ InOrder(host(u)) = ReadsIssued(u)
          /\ sent[host(u)] = Transmitted(host(u)) + 0
      BY <1>5, <1>6, <1>7, <2>1, <3>1, Numbers, <1>1 DEF HostPart, Counts, One
    <3>3. InOrder(host(u)) \in Nat
      BY <1>1, Numbers
    <3> QED BY <1>6, <1>7, <2>1, <3>2, <3>3 DEF Counts, One
  <2>3. Unacked(u)'
    BY <1>2, <1>6, <1>7, <2>1 DEF HostPart, Unacked
  <2>4. HostTimers(u)'
    BY <1>6, <1>7, <2>1 DEF HostPart, HostTimers, One, SameTimers
  <2>5. Shown(u)'
    BY <1>2, <1>6, <1>7, <2>1 DEF HostPart, Shown, ClearPacket, Tagged
  <2> QED BY <2>2, <2>3, <2>4, <2>5 DEF HostPart
<1>10. ASSUME NEW u \in Tags PROVE ChipPart(u)'
  <2>1. SameLink(u)
    BY <1>2, <1>5, <1>7, TagEnds DEF SameLink, SameTimers
  <2>2. Calm(u)'
    BY <1>3, <1>6, <1>7, <2>1, CalmKeeps
  <2> QED BY <1>6, <2>2 DEF ChipPart
<1> QED BY <1>8, <1>9, <1>10 DEF AnswerInv

\* At the gate of a command the chip has acknowledged everything, and its
\* packet is the answer exactly if one was asked for.
LEMMA GateFacts ==
  ASSUME Divides, LinkInv, NEW t \in Tags, Under(t, "gate")
  PROVE  /\ rxreg.tag = t /\ Inc(rxreg.packet.ack) = sendpos[host(t)]
         /\ Acked(chip(t)) = rcvd[host(t)] /\ sent[chip(t)] = rcvd[host(t)] + One(Asked(t))
         /\ Transmitted(chip(t)) = sent[chip(t)] /\ InOrder(host(t)) = rcvd[host(t)]
         /\ Out(t) >= 1 /\ sent[host(t)] = Transmitted(host(t))
         /\ Owes(t) <=> Asked(t)
         /\ Asked(t) => /\ rxreg.packet.seqvalid /\ rxreg.packet.data = rcvd[host(t)] + 1
                        /\ issued_cmds[t] > max_issued_cmds
<1> DEFINE h == host(t)
           k == chip(t)
<1>1. /\ StreamInv(Seen) /\ h \in Endpoint /\ k \in Endpoint /\ Calm(t) /\ HostPart(t)
      /\ ~Unsent(t) /\ Busy(t) /\ ~Under(t, "tock") /\ ~Under(t, "return")
  BY TagEnds DEF LinkInv, AnswerInv, ChipPart, Under, Nested, Unsent, Busy
<1>2. /\ rxreg.tag = t /\ rxreg.packet.ack = recackpos[k]
      /\ Acked(k) = rcvd[h] /\ sent[k] = rcvd[h] + One(Asked(t))
      /\ Rests(t) /\ rcvd[k] = Transmitted(h)
  BY <1>1 DEF Calm
<1>3. Inc(rxreg.packet.ack) = sendpos[h]
  <2>1. InOrder(k) = Transmitted(h)
    BY <1>2 DEF Rests
  <2> QED BY <1>1, <1>2, <2>1, PositionFacts
<1>4. /\ InOrder(h) = rcvd[h] /\ sent[h] = Transmitted(h)
  BY <1>1, Numbers DEF HostPart, Counts, One
<1>5. Owes(t) <=> Asked(t)
  BY <1>1, <1>2, Numbers DEF Owes, One
<1>6. Out(t) >= 1 /\ (Asked(t) => issued_cmds[t] > max_issued_cmds)
  BY <1>1 DEF HostPart, Unacked
<1>7. ASSUME Asked(t) PROVE rxreg.packet.seqvalid /\ rxreg.packet.data = rcvd[h] + 1
  <2>1. rxreg = Response(t)
    BY <1>1, <1>5, <1>7 DEF Calm
  <2>2. /\ Sending(k) /\ wndpos[k] = Acked(k) % SEQ_S /\ Acked(k) \in Int
        /\ Acked(k) \in Acked(k) .. sent[k] - 1
    <3>1. Acked(k) \in Nat /\ sent[k] = Acked(k) + 1
      BY <1>1, <1>2, <1>7, Numbers DEF One
    <3> QED BY <1>1, <3>1, PositionFacts DEF StreamInv, StreamOf
  <2>3. wndpos[k] % WND_S = Acked(k) % WND_S
    BY <2>2, SlotOf
  <2>4. sendbuf[k][wndpos[k] % WND_S] = Acked(k) + 1
    BY <2>2, <2>3 DEF Sending
  <2> QED BY <1>2, <2>1, <2>4 DEF Response, Tagged, DataPacket
<1>8. Transmitted(k) = sent[k]
  BY <1>2 DEF Rests
<1> QED BY <1>2, <1>3, <1>4, <1>5, <1>6, <1>7, <1>8

\* What the host makes of it.
LEMMA GateTakes ==
  ASSUME Divides, LinkInv, (StreamInv(Seen) /\ LinkTypes)', NEW t \in Tags, t = tag,
         Under(t, "gate"), ExecGate, NewPacket(t), ManyIssued(t)
  PROVE  /\ \A n \in Endpoint \ {host(t)} : Same(n) /\ SameTimers(n)
         /\ sent'[host(t)] = sent[host(t)] /\ rcvd'[host(t)] = rcvd[host(t)]
         /\ Transmitted(host(t))' = Transmitted(host(t)) /\ Acked(host(t))' = Transmitted(host(t))
         /\ wndpos'[host(t)] = sendpos[host(t)]
         /\ InOrder(host(t))' = rcvd[host(t)] + One(Asked(t))
         /\ ~SendTimer'[host(t)].timeout /\ ~SendTimer'[host(t)].enabled
         /\ SendTimer'[host(t)].max = SendTimer[host(t)].max
         /\ RecvTimer'[host(t)].max = 0
         /\ Asked(t) => RecvTimer'[host(t)].enabled /\ RecvTimer'[host(t)].value = 0
         /\ ~Asked(t) => RecvTimer'[host(t)] = RecvTimer[host(t)]
<1> DEFINE h == host(t)
           k == chip(t)
           p == rxreg.packet
           c == Seen
<1>1. /\ StreamInv(c) /\ h \in Endpoint /\ k \in Endpoint /\ h # k /\ Peer(h) = k
      /\ TypeOK /\ SendInv /\ LinkTypes /\ p \in Packet
      /\ RecvTimer[h] \in T!TimerType /\ SendTimer[h] \in T!TimerType
      /\ chan[h] \in Seq(Packet) /\ rcvd[h] \in Nat
  BY TagEnds DEF LinkInv, StreamInv, SendInv, TypeOK, LinkTypes
<1>2. ReceivePacket(h, p)
  BY DEF ExecGate
<1>3. /\ c[h] = <<p>> \o chan[h] /\ c[h] # <<>> /\ c[h][1] = p
  <2>1. c[h] = <<p>> \o chan[h]
    BY <1>1, SeenIs
  <2>2. <<p>> \o chan[h] # <<>> /\ (<<p>> \o chan[h])[1] = p
    BY <1>1, BehindFirst
  <2> QED BY <2>1, <2>2
<1> HIDE DEF c, p
<1>4. Arrives(c, h)
  BY <1>2, <1>3 DEF Arrives
<1>5. /\ Inc(p.ack) = sendpos[h]
      /\ Acked(k) = rcvd[h] /\ sent[k] = rcvd[h] + One(Asked(t))
      /\ Transmitted(k) = sent[k] /\ InOrder(h) = rcvd[h]
      /\ Asked(t) => p.seqvalid /\ p.data = rcvd[h] + 1
  BY GateFacts DEF p
<1>6. /\ UNCHANGED <<sent, rcvd, sendpos, sendbuf>>
      /\ Transmitted(h)' = Transmitted(h)
      /\ \A n \in Endpoint \ {h} : Same(n) /\ SameTimers(n)
  BY <1>1, <1>4, ReceiveSame
<1>7. Acked(h)' = Transmitted(h) /\ wndpos'[h] = sendpos[h]
  BY <1>1, <1>3, <1>4, <1>5, ReceivesAll
<1>8. TakenSent(t)'
  <2>1. StreamInv(Seen)' => TakenSent(t)'
    BY TakenWasSent
  <2> QED BY <2>1
<1>9. ~T!Armed(SendTimer'[h])
  <2>1. Transmitted(h) \in Nat
    BY <1>1, Numbers
  <2>2. ~(Acked(h)' < Transmitted(h)')
    BY <1>6, <1>7, <2>1
  <2> QED BY <1>8, <2>2 DEF TakenSent
<1>10. SendTimer'[h].max = SendTimer[h].max
  <2>1. ReceiveAck(h, p)
    BY <1>2 DEF ReceivePacket
  <2>2. \/ SendTimer'[h] = SendTimer[h] \/ SendTimer'[h] = T!Stop(SendTimer[h])
        \/ SendTimer'[h] = T!Start(SendTimer[h])
    BY <1>1, <2>1 DEF ReceiveAck, TimerAfterAck, TypeOK
  <2> QED BY <1>1, <2>2, TimerSteps
<1>11. RecvTimer[h].max = 0 /\ ~RecvTimer[h].enabled
  BY DEF LinkInv, AnswerInv, HostPart, HostTimers, Under
<1>12. CASE Asked(t)
  <2>1. InOrder(h)' <= rcvd[h] + 1
    <3>1. InOrder(h)' <= Transmitted(k)' /\ Transmitted(k)' = Transmitted(k)
      BY <1>1, <1>6, <1>8 DEF TakenSent, Same
    <3> QED BY <1>5, <1>12, <3>1 DEF One
  <2>2. /\ InOrder(h)' = rcvd[h] + 1
        /\ RecvTimer' = [RecvTimer EXCEPT ![h] = T!Continue(@)]
    BY <1>1, <1>3, <1>4, <1>5, <1>12, <2>1, TakesNext
  <2>3. RecvTimer'[h] = T!Continue(RecvTimer[h])
    BY <1>1, <2>2 DEF TypeOK
  <2>4. RecvTimer'[h].max = 0 /\ RecvTimer'[h].enabled /\ RecvTimer'[h].value = 0
    BY <1>1, <1>11, <2>3, TimerSteps
  <2> QED BY <1>1, <1>6, <1>7, <1>9, <1>10, <1>12, <2>2, <2>4 DEF T!Armed, One
<1>13. CASE ~Asked(t)
  <2>1. ~Accepts(h, p)
    <3> SUFFICES ASSUME Accepts(h, p) PROVE FALSE
      OBVIOUS
    <3>1. /\ p.data - 1 \in rcvd[h] .. rcvd[h] + WND_S - 1
          /\ p.data - 1 < Transmitted(k)
      BY <1>1, <1>3, AcceptedInWindow DEF Window
    <3>2. Transmitted(k) = rcvd[h]
      BY <1>1, <1>5, <1>13 DEF One
    <3> QED BY <1>1, <3>1, <3>2, SizeFacts
  <2>2. UNCHANGED <<recackpos, RecvTimer, recwndpos, rcvd>>
    BY <1>2, <1>6, <2>1 DEF ReceivePacket, ReceiveData
  <2>3. InOrder(h)' = InOrder(h)
    BY <1>1, <2>2, KeepCounts
  <2> QED BY <1>1, <1>5, <1>6, <1>7, <1>9, <1>10, <1>11, <1>13, <2>2, <2>3 DEF T!Armed, One
<1> QED BY <1>12, <1>13

\* The host looks at the register as soon as it must, and what it finds there
\* is then news to it.
LEMMA GateIsNews ==
  ASSUME Divides, JtagConstants, LinkInv, NEW t \in Tags, Under(t, "gate"), ManyIssued(t)
  PROVE  NewPacket(t)
<1> DEFINE h == host(t)
<1>1. /\ StreamInv(Seen) /\ h \in Endpoint /\ SendSide(h) /\ HostPart(t) /\ Calm(t)
      /\ issued_cmds[t] \in Nat /\ max_issued_cmds \in Nat /\ max_issued_cmds <= WND_S
      /\ max_issued_cmds > 1
  BY TagEnds, LinkLayerAssumption, SizeFacts
     DEF LinkInv, StreamInv, SendInv, AnswerInv, ChipPart, Under, Nested, Shape, JtagConstants
<1>2. /\ rxreg.tag = t /\ Inc(rxreg.packet.ack) = sendpos[h] /\ Out(t) >= 1
      /\ Asked(t) => rxreg.packet.seqvalid
  BY GateFacts
<1> SUFFICES ASSUME rxreg = lastread PROVE FALSE
  BY <1>2 DEF NewPacket
<1>3. CASE Inc(rxreg.packet.ack) = wndpos[h]
  <2>1. Transmitted(h) <= Acked(h)
    <3>1. ~T!Armed(SendTimer[h])
      BY <1>1, <1>2, <1>3 DEF SendSide
    <3> QED BY <1>1, <3>1, CountTests, Numbers
  <2> QED BY <1>1, <1>2, <2>1, Numbers DEF Out
<1>4. CASE /\ lastread = ClearPacket /\ Acked(h) = 0
           /\ issued_cmds[t] <= Out(t) \/ (Busy(t) /\ Asked(t))
  <2>1. ~Asked(t) /\ Inc(rxreg.packet.ack) = 1
    <3>1. (0 + 1) % SEQ_S = 1
      BY SizeFacts, ModSmall
    <3> QED BY <1>2, <1>4, <3>1 DEF ClearPacket, Tagged, Inc
  <2>2. Out(t) = Transmitted(h) /\ Out(t) \in Nat /\ Out(t) < SEQ_S /\ issued_cmds[t] <= Out(t)
    <3>1. Out(t) <= max_issued_cmds
      BY <1>1 DEF HostPart, Unacked
    <3>2. Out(t) = Transmitted(h) /\ Transmitted(h) \in Nat
      BY <1>1, <1>4, Numbers DEF Out
    <3> QED BY <1>1, <1>4, <2>1, <3>1, <3>2, SizeFacts
  <2>3. Out(t) = 1
    <3>1. sendpos[h] = Out(t) % SEQ_S
      BY <1>1, <2>2, PositionFacts
    <3> QED BY <1>2, <2>1, <2>2, <3>1, SizeFacts, ModSmall
  <2> QED BY <1>1, <2>2, <2>3 DEF ManyIssued
<1> QED BY <1>1, <1>2, <1>3, <1>4 DEF HostPart, Shown

\* At the gate the window is emptied and the answer taken, or there is room for
\* more commands.
LEMMA GateAnswers ==
  ASSUME Divides, JtagConstants, LinkInv, (StreamInv(Seen) /\ LinkTypes)',
         NEW t \in Tags, t = tag, ExecGate
  PROVE  AnswerInv'
<1> DEFINE h == host(t)
           k == chip(t)
<1>1. /\ StreamInv(Seen) /\ AnswerInv /\ Shape /\ SendInv /\ tag = t
      /\ h \in Endpoint /\ k \in Endpoint /\ h # k
      /\ pc = "gate" /\ op = "issueCommand"
      /\ max_issued_cmds \in Nat /\ issued_cmds[t] \in Nat
  <2>1. max_issued_cmds \in Nat
    BY LinkLayerAssumption, SizeFacts
  <2>2. /\ StreamInv(Seen) /\ AnswerInv /\ Shape /\ SendInv
    BY DEF LinkInv, StreamInv, AnswerInv
  <2> QED BY <2>1, <2>2, TagEnds DEF Shape, ExecGate
<1>2. /\ pc' = "tock" /\ chan' = chan
      /\ UNCHANGED <<kind, writeflag, refused, rxreg, due, op, tag, callback>>
      /\ ~(ManyIssued(t) /\ NewPacket(t)) => UNCHANGED <<vars, issued_cmds, lastread>>
      /\ ManyIssued(t) /\ NewPacket(t) =>
           issued_cmds' = [issued_cmds EXCEPT ![t] = 0] /\ lastread' = rxreg
  BY <1>1 DEF ExecGate, Goto, vars
<1>3. \A u \in Tags : HostPart(u) /\ Calm(u)
  BY <1>1 DEF AnswerInv, ChipPart, Under, Nested
<1>4. /\ issued_cmds' \in [Tags -> Nat]
      /\ \A u \in Tags : sent'[host(u)] = sent[host(u)]
      /\ \A u \in Tags \ {t} : issued_cmds'[u] = issued_cmds[u]
  <2>1. sent' = sent
    BY DEF ExecGate, ReceivePacket, vars, history
  <2>2. issued_cmds \in [Tags -> Nat] /\ (issued_cmds' = issued_cmds
                                           \/ issued_cmds' = [issued_cmds EXCEPT ![t] = 0])
    BY <1>1, <1>2 DEF Shape
  <2> QED BY <2>1, <2>2
<1>5. Shape'
  <2>1. callback' \in BOOLEAN
    BY <1>1, <1>2 DEF Shape
  <2> QED BY <1>1, <1>2, <1>4, <2>1, ShapeKeeps
<1>6. ASSUME UNCHANGED <<vars, issued_cmds, lastread>>, NEW u \in Tags, u # t
      PROVE  HostPart(u)' /\ ChipPart(u)'
  <2>1. /\ Same(host(u)) /\ Same(chip(u)) /\ SameTimers(host(u)) /\ SameTimers(chip(u))
        /\ chan'[host(u)] = chan[host(u)] /\ chan'[chip(u)] = chan[chip(u)]
    BY <1>6, VarsSame, TagEnds
  <2> QED BY <1>1, <1>2, <1>6, <2>1, OtherStep
<1>7. ASSUME callback PROVE UNCHANGED <<vars, issued_cmds, lastread>> /\ HostPart(t)' /\ ChipPart(t)'
  <2>1. Nested(t, "gate")
    BY <1>1, <1>7 DEF Nested
  <2>2. lastread = rxreg /\ ~Owes(t) /\ Out(t) = 0
    BY <1>3, <2>1 DEF Calm
  <2>3. UNCHANGED <<vars, issued_cmds, lastread>>
    BY <1>2, <2>2 DEF NewPacket
  <2>4. Same(h) /\ Same(k) /\ SameTimers(h) /\ SameTimers(k)
    BY <1>1, <2>3, VarsSame
  <2>5. /\ SameCall(t) /\ \A l : ~Under(t, l) /\ ~Under(t, l)'
        /\ ~Nested(t, "tick")' /\ ~Nested(t, "exec")' /\ ~Nested(t, "put")' /\ ~Nested(t, "gate")'
        /\ ~Aside(t)'
    <3>1. \A l : ~Under(t, l) /\ ~Under(t, l)'
      BY <1>2, <1>7 DEF Under
    <3>2. Caller # t /\ Caller' # t
      BY <1>1, <1>2, <1>7, TagEnds DEF Caller
    <3>3. (Unsent(t)' <=> Unsent(t)) /\ (Asked(t)' <=> Asked(t))
      BY <3>2 DEF Unsent, Asked
    <3> QED BY <1>1, <1>2, <1>7, <3>1, <3>3 DEF SameCall, Nested, Aside
  <2>6. HostPart(t)'
    BY <1>2, <1>3, <2>3, <2>4, <2>5, HostKeeps DEF SameHost, SameTimers
  <2>7. ChipPart(t)'
    BY <1>2, <1>3, <2>2, <2>3, <2>4, <2>5, CalmStep DEF SameTimers
  <2> QED BY <2>3, <2>6, <2>7
<1>8. ASSUME ~callback
      PROVE  /\ Under(t, "gate") /\ Under(t, "tock")' /\ ~Under(t, "tick") /\ ~Under(t, "tock")
             /\ ~Under(t, "return") /\ ~Under(t, "tick")' /\ ~Under(t, "gate")' /\ ~Under(t, "return")'
             /\ Busy(t) /\ ~Busy(t)' /\ ~Unsent(t) /\ ~Unsent(t)' /\ (Asked(t)' <=> Asked(t))
             /\ (\A u \in Tags : \A l : ~Nested(u, l)') /\ (\A u \in Tags : ~Aside(u)')
             /\ ReadsIssued(t)' = ReadsIssued(t)
  BY <1>1, <1>2, <1>8 DEF Under, Busy, Unsent, Asked, Caller, Nested, Aside, ReadsIssued
<1>9. ASSUME ~callback, ~(ManyIssued(t) /\ NewPacket(t)) PROVE HostPart(t)' /\ ChipPart(t)'
  <2>1. /\ UNCHANGED <<vars, issued_cmds, lastread>> /\ Same(h) /\ Same(k) /\ SameTimers(h)
        /\ SameTimers(k)
    BY <1>1, <1>2, <1>9, VarsSame
  <2>2. issued_cmds[t] < max_issued_cmds
    BY <1>1, <1>8, <1>9, GateIsNews DEF ManyIssued
  <2>3. /\ ~Asked(t) /\ ~Owes(t) /\ Out(t) >= 1 /\ Transmitted(k) = sent[k]
        /\ InOrder(h) = rcvd[h] /\ sent[k] = rcvd[h] + 0 /\ sent[h] = Transmitted(h)
    BY <1>1, <1>8, <1>9, <2>2, GateFacts DEF One
  <2>4. Out(t)' = Out(t)
    BY <2>1 DEF Same, Out
  <2>5. Counts(t)'
    BY <1>3, <1>8, <1>9, <2>1, <2>3 DEF HostPart, Counts, Same, One
  <2>6. Unacked(t)'
    BY <1>2, <1>3, <1>8, <1>9, <2>1, <2>2, <2>3, <2>4 DEF HostPart, Unacked
  <2>7. HostTimers(t)'
    BY <1>3, <1>8, <1>9, <2>1, <2>4 DEF HostPart, HostTimers, SameTimers, One
  <2>8. Shown(t)'
    BY <1>2, <1>3, <1>8, <1>9, <2>1, <2>3, <2>4 DEF HostPart, Shown, Same, ClearPacket, Tagged
  <2>9. Calm(t)'
    <3>1. Response(t)' = Response(t) /\ (Owes(t)' <=> Owes(t))
      BY <2>1, ResponseKeeps
    <3>2. Rests(t)'
      BY <1>2, <1>3, <2>1, RestsKeeps DEF Calm, SameTimers
    <3>3. rcvd'[k] = Transmitted(h)' /\ sent'[k] = InOrder(h)'
      <4>1. rcvd[h] \in Nat
        BY <1>1, Numbers
      <4> QED BY <1>3, <2>1, <2>3, <4>1 DEF Calm, Same
    <3> QED BY <1>2, <1>3, <1>8, <1>9, <2>1, <2>3, <3>1, <3>2, <3>3 DEF Calm, SameTimers
  <2>10. ChipPart(t)'
    BY <1>8, <1>9, <2>9 DEF ChipPart
  <2> QED BY <2>5, <2>6, <2>7, <2>8, <2>10 DEF HostPart
<1>10. ASSUME ~callback, ManyIssued(t), NewPacket(t), NEW u \in Tags PROVE HostPart(u)' /\ ChipPart(u)'
  <2>1. /\ \A n \in Endpoint \ {h} : Same(n) /\ SameTimers(n)
        /\ sent'[h] = sent[h] /\ rcvd'[h] = rcvd[h]
        /\ Transmitted(h)' = Transmitted(h) /\ Acked(h)' = Transmitted(h) /\ wndpos'[h] = sendpos[h]
        /\ InOrder(h)' = rcvd[h] + One(Asked(t))
        /\ ~SendTimer'[h].timeout /\ ~SendTimer'[h].enabled
        /\ SendTimer'[h].max = SendTimer[h].max
        /\ RecvTimer'[h].max = 0
        /\ Asked(t) => RecvTimer'[h].enabled /\ RecvTimer'[h].value = 0
        /\ ~Asked(t) => RecvTimer'[h] = RecvTimer[h]
    BY <1>1, <1>8, <1>10, GateTakes
  <2>2. /\ rxreg.tag = t /\ Inc(rxreg.packet.ack) = sendpos[h]
        /\ sent[k] = rcvd[h] + One(Asked(t)) /\ sent[h] = Transmitted(h)
        /\ Owes(t) <=> Asked(t)
    BY <1>8, <1>10, GateFacts
  <2>3. lastread' = rxreg /\ issued_cmds' = [issued_cmds EXCEPT ![t] = 0]
    BY <1>2, <1>10
  <2>4. CASE u = t
    <3>1. Transmitted(h) \in Nat /\ Out(t)' = 0
      <4>1. Transmitted(h) \in Nat
        BY <1>1, Numbers
      <4> QED BY <2>1, <4>1 DEF Out
    <3>2. Counts(t)'
      BY <1>3, <1>8, <1>10, <2>1, <2>2, <3>1 DEF HostPart, Counts, One
    <3>3. Unacked(t)'
      BY <1>1, <1>8, <1>10, <3>1 DEF Unacked
    <3>4. HostTimers(t)'
      <4>1. ~RecvTimer[h].enabled
        BY <1>3, <1>8, <1>10 DEF HostPart, HostTimers
      <4> QED BY <1>3, <1>8, <1>10, <2>1, <3>1, <4>1 DEF HostPart, HostTimers
    <3>5. Shown(t)'
      BY <2>1, <2>2, <2>3 DEF Shown
    <3>6. Calm(t)'
      <4>1. Same(k) /\ SameTimers(k) /\ chan'[h] = chan[h] /\ chan'[k] = chan[k]
        BY <1>1, <1>2, <2>1
      <4>2. Response(t)' = Response(t) /\ (Owes(t)' <=> Owes(t))
        BY <4>1, ResponseKeeps
      <4>3. Rests(t)'
        BY <1>2, <1>3, <4>1, RestsKeeps DEF Calm, SameTimers
      <4>4. rcvd'[k] = Transmitted(h)' /\ sent'[k] = InOrder(h)'
        BY <1>3, <2>1, <2>2, <4>1 DEF Calm, Same
      <4>5. ~Asked(t) => ~T!Armed(RecvTimer'[h])
        BY <1>3, <1>8, <1>10, <2>1 DEF Calm
      <4>6. Asked(t) => T!Armed(RecvTimer'[h])
        BY <2>1 DEF T!Armed
      <4> QED BY <1>2, <1>3, <1>8, <1>10, <2>2, <2>3, <4>1, <4>2, <4>3, <4>4, <4>5, <4>6 DEF Calm
    <3>7. ChipPart(t)'
      BY <1>8, <1>10, <3>6 DEF ChipPart
    <3> QED BY <2>4, <3>2, <3>3, <3>4, <3>5, <3>7 DEF HostPart
  <2>5. CASE u # t
    <3>1. Same(host(u)) /\ Same(chip(u)) /\ SameTimers(host(u)) /\ SameTimers(chip(u))
      BY <1>1, <2>1, <2>5, TagEnds
    <3>2. /\ SameCall(u) /\ \A l : ~Under(u, l) /\ ~Under(u, l)'
      <4>1. \A l : ~Under(u, l) /\ ~Under(u, l)'
        BY <1>1, <1>2, <2>5 DEF Under
      <4>2. (Unsent(u)' <=> Unsent(u)) /\ (Asked(u)' <=> Asked(u))
        BY <1>1, <1>2, <1>10 DEF Unsent, Asked, Caller
      <4> QED BY <4>1, <4>2 DEF SameCall
    <3>3. HostPart(u)'
      BY <1>2, <1>3, <1>4, <2>2, <2>3, <2>5, <3>1, <3>2, HostKeeps DEF SameHost, SameTimers
    <3>4. Calm(u)'
      <4>1. ~Owes(u)
        <5>1. Aside(u)
          BY <1>1, <1>10, <2>5 DEF Aside
        <5> QED BY <1>3, <5>1 DEF Calm
      <4>2. ~Owes(u)'
        BY <3>1, <4>1, ResponseKeeps
      <4>3. Rests(u)'
        BY <1>2, <1>3, <3>1, RestsKeeps DEF Calm, SameTimers
      <4>4. /\ chan'[chip(u)] = <<>> /\ rcvd'[chip(u)] = Transmitted(host(u))'
            /\ chan'[host(u)] = <<>> /\ ~T!Armed(RecvTimer'[host(u)])
            /\ sent'[chip(u)] = InOrder(host(u))'
        BY <1>2, <1>3, <3>1, <3>2, <4>1 DEF Calm, Same, SameTimers
      <4> QED BY <1>8, <1>10, <3>2, <4>2, <4>3, <4>4 DEF Calm
    <3>5. ChipPart(u)'
      BY <1>8, <1>10, <3>2, <3>4 DEF ChipPart
    <3> QED BY <3>3, <3>5
  <2> QED BY <2>4, <2>5
<1>11. CASE callback
  BY <1>5, <1>6, <1>7, <1>11 DEF AnswerInv
<1>12. CASE ~callback /\ ~(ManyIssued(t) /\ NewPacket(t))
  BY <1>2, <1>5, <1>6, <1>9, <1>12 DEF AnswerInv
<1>13. CASE ~callback /\ ManyIssued(t) /\ NewPacket(t)
  BY <1>5, <1>10, <1>13 DEF AnswerInv
<1> QED BY <1>11, <1>12, <1>13

LEMMA CountsReads ==
  ASSUME NEW s \in Seq({"write", "read"}), NEW x \in {"write", "read"}
  PROVE  Cardinality({k \in DOMAIN Append(s, x) : Append(s, x)[k] = "read"})
           = Cardinality({k \in DOMAIN s : s[k] = "read"}) + One(x = "read")
<1> DEFINE u == Append(s, x)
           R == {k \in DOMAIN s : s[k] = "read"}
           n == Len(s) + 1
<1>1. /\ Len(s) \in Nat /\ DOMAIN s = 1 .. Len(s) /\ DOMAIN u = 1 .. n
      /\ \A k \in 1 .. Len(s) : u[k] = s[k]
      /\ u[n] = x
  OBVIOUS
<1>2. IsFiniteSet(R) /\ Cardinality(R) \in Nat
  <2>1. IsFiniteSet(1 .. Len(s))
    BY <1>1, FS_Interval
  <2>2. R \subseteq 1 .. Len(s)
    BY <1>1
  <2> QED BY <2>1, <2>2, FS_Subset, FS_CardinalityType
<1> HIDE DEF u
<1>3. CASE x = "read"
  <2>1. {k \in DOMAIN u : u[k] = "read"} = R \cup {n}
    BY <1>1, <1>3
  <2>2. n \notin R
    BY <1>1
  <2>3. Cardinality(R \cup {n}) = Cardinality(R) + 1
    BY <1>2, <2>2, FS_AddElement
  <2> QED BY <1>3, <2>1, <2>3 DEF u, One
<1>4. CASE x # "read"
  <2>1. {k \in DOMAIN u : u[k] = "read"} = R
    BY <1>1, <1>4
  <2>2. Cardinality(R) = Cardinality(R) + One(x = "read")
    BY <1>2, <1>4 DEF One
  <2> QED BY <2>1, <2>2 DEF u
<1> QED BY <1>3, <1>4

\* There is room in the window.
LEMMA IssueAnswers ==
  ASSUME Divides, LinkInv, NEW t \in Tags, NEW x \in {"write", "read"}, issueCommand(t, x)
  PROVE  AnswerInv'
<1> DEFINE h == host(t)
           k == chip(t)
           slot == seqpos[h] % WND_S
<1>1. /\ StreamInv(Seen) /\ AnswerInv /\ Shape /\ TypeOK /\ pc = "idle" /\ ~callback
      /\ h \in Endpoint /\ k \in Endpoint /\ h # k
      /\ max_issued_cmds \in Nat /\ max_issued_cmds <= WND_S /\ WND_S >= 1 /\ WND_S \in Nat
  <2>1. max_issued_cmds \in Nat /\ max_issued_cmds <= WND_S /\ WND_S >= 1 /\ WND_S \in Nat
    BY LinkLayerAssumption, SizeFacts
  <2>2. StreamInv(Seen) /\ TypeOK /\ AnswerInv /\ Shape
    BY DEF LinkInv, StreamInv, SendInv, AnswerInv
  <2> QED BY <2>1, <2>2, TagEnds DEF Shape, issueCommand, May
<1>2. \A u \in Tags : HostPart(u) /\ Calm(u)
  BY <1>1 DEF AnswerInv, ChipPart, Under, Nested
<1>3. \A u \in Tags : /\ ~Unsent(u) /\ ~Asked(u) /\ ~Busy(u)
                      /\ \A l \in {"tick", "gate", "tock", "return"} : ~Under(u, l)
  BY <1>1 DEF Unsent, Asked, Busy, Under
<1>4. sent[h] = Transmitted(h) /\ InOrder(h) = rcvd[h] /\ rcvd[h] = ReadsIssued(t)
  BY <1>1, <1>2, <1>3, Numbers DEF HostPart, Counts, One
<1>5. ~WindowFull(h)
  <2>1. Out(t) < WND_S
    <3>1. issued_cmds[t] \in Nat /\ Out(t) \in Nat
      BY <1>1, Numbers DEF Shape, Out
    <3> QED BY <1>1, <1>2, <1>3, <3>1 DEF HostPart, Unacked
  <2> QED BY <1>1, <1>4, <2>1, CountTests, Numbers DEF Out
<1>6. /\ Send(h) /\ refused' = FALSE
      /\ kind' = [kind EXCEPT ![t] = Append(@, x)]
      /\ writeflag' = [writeflag EXCEPT ![t][slot] = x = "write"]
      /\ op' = "issueCommand" /\ tag' = t /\ callback' = FALSE /\ pc' = "exec"
      /\ UNCHANGED <<issued_cmds, lastread, rxreg, due>>
  BY <1>5 DEF issueCommand
<1>7. /\ UNCHANGED <<chan, SendTimer, RecvTimer, rcvd, wndpos, sendpos, recackpos>>
      /\ sent'[h] = sent[h] + 1
      /\ \A n \in Endpoint \ {h} : Same(n)
      /\ \A n \in Endpoint : /\ Acked(n)' = Acked(n) /\ Transmitted(n)' = Transmitted(n)
                             /\ InOrder(n)' = InOrder(n)
  BY <1>1, <1>6, SendSame
<1>8. /\ kind \in [Tags -> Seq({"write", "read"})] /\ kind[t] \in Seq({"write", "read"})
      /\ kind'[t] = Append(kind[t], x) /\ \A u \in Tags \ {t} : kind'[u] = kind[u]
  BY <1>1, <1>6 DEF Shape
<1>9. /\ writeflag' \in [Tags -> [Slot -> BOOLEAN]] /\ writeflag'[t][slot] = (x = "write")
      /\ \A u \in Tags \ {t} : writeflag'[u] = writeflag[u]
  <2>1. seqpos[h] \in Int
    BY <1>1 DEF TypeOK, SeqNo
  <2>2. slot \in Slot
    BY <2>1, CountTypes
  <2>3. writeflag \in [Tags -> [Slot -> BOOLEAN]] /\ (x = "write") \in BOOLEAN
    BY <1>1 DEF Shape
  <2> HIDE DEF slot
  <2> QED BY <1>6, <2>2, <2>3
<1>10. Shape'
  <2>1. kind' \in [Tags -> Seq({"write", "read"})]
    BY <1>6, <1>8
  <2>2. ASSUME NEW u \in Tags PROVE Len(kind'[u]) = sent'[host(u)]
    <3>1. CASE u = t
      <4>1. Len(kind'[t]) = Len(kind[t]) + 1
        BY <1>8
      <4> QED BY <1>1, <1>7, <3>1, <4>1 DEF Shape
    <3>2. CASE u # t
      <4>1. sent'[host(u)] = sent[host(u)]
        BY <1>7, <3>2, TagEnds DEF Same
      <4> QED BY <1>1, <1>8, <3>2, <4>1 DEF Shape
    <3> QED BY <3>1, <3>2
  <2>3. due' \in [Tags -> Nat] /\ issued_cmds' \in [Tags -> Nat]
    BY <1>1, <1>6 DEF Shape
  <2> QED BY <1>6, <1>9, <2>1, <2>2, <2>3 DEF Shape
<1>11. Caller' = t
  BY <1>6 DEF Caller
<1>12. /\ Unsent(t)' /\ (Asked(t)' <=> x = "read")
       /\ \A u \in Tags \ {t} : ~Unsent(u)' /\ ~Asked(u)'
       /\ \A u \in Tags : ~Busy(u)' /\ ~Aside(u)' /\ \A l : ~Nested(u, l)'
       /\ \A u \in Tags : \A l \in {"tick", "gate", "tock", "return"} : ~Under(u, l)'
  <2>1. kind'[t][Len(kind'[t])] = x
    <3> DEFINE s == kind[t]
    <3>1. s \in Seq({"write", "read"}) /\ kind'[t] = Append(s, x)
      BY <1>8
    <3> HIDE DEF s
    <3>2. Append(s, x)[Len(Append(s, x))] = x
      BY <3>1
    <3> QED BY <3>1, <3>2
  <2> QED BY <1>6, <1>11, <2>1 DEF Unsent, Asked, Busy, Aside, Nested, Under
<1>13. \A u \in Tags : /\ SameTimers(host(u)) /\ SameTimers(chip(u)) /\ Same(chip(u))
                       /\ chan'[host(u)] = chan[host(u)] /\ chan'[chip(u)] = chan[chip(u)]
                       /\ Out(u)' = Out(u)
  BY <1>7, TagEnds DEF SameTimers, Out
<1>14. HostPart(t)'
  <2>1. Counts(t)'
    <3>1. ReadsIssued(t)' = ReadsIssued(t) + One(x = "read")
      <4> DEFINE s == kind[t]
      <4>1. s \in Seq({"write", "read"}) /\ kind'[t] = Append(s, x)
        BY <1>8
      <4>2. ReadsIssued(t) = Cardinality({i \in DOMAIN s : s[i] = "read"})
        BY DEF ReadsIssued
      <4> HIDE DEF s
      <4>3. Cardinality({i \in DOMAIN Append(s, x) : Append(s, x)[i] = "read"})
              = Cardinality({i \in DOMAIN s : s[i] = "read"}) + One(x = "read")
        BY <4>1, CountsReads
      <4>4. ReadsIssued(t)' = Cardinality({i \in DOMAIN Append(s, x) : Append(s, x)[i] = "read"})
        BY <4>1 DEF ReadsIssued
      <4> QED BY <4>2, <4>3, <4>4
    <3>2. rcvd[h] \in Nat
      BY <1>1, Numbers
    <3> QED BY <1>1, <1>4, <1>7, <1>12, <3>1, <3>2 DEF Counts, One
  <2>2. Unacked(t)'
    <3>1. sendpos[h] % WND_S = slot
      BY <1>1, <1>4, PositionFacts
    <3> QED BY <1>2, <1>3, <1>6, <1>7, <1>9, <1>12, <1>13, <3>1 DEF HostPart, Unacked
  <2>3. HostTimers(t)'
    BY <1>2, <1>3, <1>12, <1>13 DEF HostPart, HostTimers, SameTimers, One
  <2>4. Shown(t)'
    BY <1>1, <1>2, <1>3, <1>6, <1>7, <1>12, <1>13 DEF HostPart, Shown, ClearPacket, Tagged
  <2> QED BY <2>1, <2>2, <2>3, <2>4 DEF HostPart
<1>15. ASSUME NEW u \in Tags, u # t PROVE HostPart(u)'
  <2>1. SameCall(u)
    BY <1>3, <1>12, <1>15 DEF SameCall
  <2>2. Same(host(u))
    BY <1>7, <1>15, TagEnds
  <2> QED BY <1>2, <1>6, <1>8, <1>9, <1>13, <1>15, <2>1, <2>2, HostKeeps DEF SameHost, SameTimers
<1>16. ASSUME NEW u \in Tags PROVE ChipPart(u)'
  <2>1. SameLink(u) /\ Transmitted(host(u))' = Transmitted(host(u)) /\ InOrder(host(u))' = InOrder(host(u))
    BY <1>6, <1>7, <1>13, TagEnds DEF SameLink, SameTimers
  <2>2. Calm(u)'
    BY <1>2, <1>3, <1>12, <1>13, <2>1, CalmKeeps
  <2> QED BY <1>12, <2>2 DEF ChipPart
<1> QED BY <1>10, <1>14, <1>15, <1>16 DEF AnswerInv

\* The user takes a response, or nothing happens.
LEMMA RestAnswers ==
  ASSUME LinkInv, UNCHANGED <<vars, kind, writeflag, issued_cmds, lastread, op, tag, callback, pc,
                              refused, rxreg, due>>
  PROVE  AnswerInv'
<1>1. AnswerInv /\ Shape
  BY DEF LinkInv, AnswerInv
<1>2. (\A n \in Endpoint : Same(n) /\ SameTimers(n)) /\ chan' = chan
  BY VarsSame
<1>3. Shape'
  BY <1>1 DEF Shape, vars, history
<1>4. ASSUME NEW u \in Tags PROVE HostPart(u)' /\ ChipPart(u)'
  <2>1. HostPart(u) /\ ChipPart(u) /\ SameCall(u)
    BY <1>1, StageSame DEF AnswerInv
  <2>2. Same(host(u)) /\ Same(chip(u)) /\ SameTimers(host(u)) /\ SameTimers(chip(u))
    BY <1>2, TagEnds
  <2>3. SameHost(u) /\ SameLink(u)
    BY <1>2, <2>2 DEF SameHost, SameLink, SameTimers
  <2> QED BY <2>1, <2>2, <2>3, HostKeeps, ChipKeeps
<1> QED BY <1>3, <1>4 DEF AnswerInv

LEMMA UsageStays == [LLNext]_allVars => usage' = usage
<1> SUFFICES ASSUME [LLNext]_allVars PROVE usage' = usage
  OBVIOUS
<1>1. CASE UNCHANGED allVars
  BY <1>1 DEF allVars, llVars, hostVars
<1>2. CASE Return
  BY <1>2 DEF Return, Exec, ExecPut, ExecTick, ExecGate, ExecTock, issueCommandReturns,
              FlushReturns, Goto
<1>3. CASE Call
  BY <1>3 DEF Call, issueCommand, recvData, Flush, Clear, reset_hicann_arq
<1>4. CASE Chip
  BY <1>4 DEF Chip, ChipReceive, ChipExecute, ChipRespond, ChipSend, Latch, ChipSendTimeout,
              ChipRecvTimeout, llVars, hostVars
<1> QED BY <1>1, <1>2, <1>3, <1>4 DEF LLNext

LEMMA LinkInvNext ==
  ASSUME Divides, JtagConstants, LinkInv, [LLNext]_allVars
  PROVE  LinkInv'
<1>1. /\ StreamInv(Seen) /\ LinkTypes /\ SendInv /\ CommandsOnly /\ AnswerInv /\ Shape
      /\ tag \in Tags
  BY DEF LinkInv, LinkTypes, StreamInv, AnswerInv
<1>2. ~reset_hicann_arq /\ ~Flush /\ ~Clear
  BY <1>1 DEF CommandsOnly, reset_hicann_arq, Flush, Clear, May
<1>3. StreamInv(Seen)' /\ LinkTypes'
  BY <1>1, <1>2, LinkStreamNext, LinkTypesNext
<1>4. CommandsOnly'
  BY <1>1, UsageStays DEF CommandsOnly
<1> SUFFICES AnswerInv'
  BY <1>3, <1>4 DEF LinkInv
<1>5. CASE UNCHANGED allVars
  BY <1>5, RestAnswers DEF allVars, llVars, hostVars
<1>6. CASE Chip
  <2>1. PICK t \in Tags :
          \/ ChipReceive(t) \/ ChipExecute(t) \/ ChipRespond(t) \/ ChipSend(t) \/ Latch(t)
          \/ ChipTimeout(t)
    BY <1>6 DEF Chip, ChipTimeout
  <2> QED BY <1>3, <2>1, ReceiveAnswers, ExecuteAnswers, RespondAnswers, ChipSendAnswers,
             LatchAnswers, ChipTimeoutAnswers
<1>7. CASE HostMoves /\ Return
  <2>1. Settled
    BY <1>7 DEF HostMoves, JtagConstants
  <2>2. PICK t \in Tags : t = tag
    BY <1>1
  <2>3. ~FlushReturns
    BY <1>1 DEF FlushReturns, Shape
  <2>4. CASE Exec
    BY <2>4, ExecAnswers
  <2>5. CASE ExecPut
    BY <2>2, <2>5, PutAnswers
  <2>6. CASE ExecTick
    BY <2>1, <2>2, <2>6, TickAnswers
  <2>7. CASE ExecGate
    BY <1>3, <2>2, <2>7, GateAnswers
  <2>8. CASE ExecTock
    BY <2>2, <2>8, TockAnswers
  <2>9. CASE issueCommandReturns
    BY <2>2, <2>9, ReturnAnswers
  <2> QED BY <1>7, <2>3, <2>4, <2>5, <2>6, <2>7, <2>8, <2>9 DEF Return
<1>8. CASE Call
  <2>1. ASSUME NEW t \in Tags, NEW x \in {"write", "read"}, issueCommand(t, x) PROVE AnswerInv'
    BY <2>1, IssueAnswers
  <2>2. ASSUME NEW t \in Tags, recvData(t) PROVE AnswerInv'
    BY <2>2, RestAnswers DEF recvData
  <2> QED BY <1>2, <1>8, <2>1, <2>2 DEF Call
<1> QED BY <1>5, <1>6, <1>7, <1>8 DEF LLNext

LEMMA AnswerInit == ASSUME JtagConstants PROVE LLInit => AnswerInv
<1> SUFFICES ASSUME LLInit PROVE AnswerInv
  OBVIOUS
<1>1. /\ Init /\ pc = "idle" /\ op = "none" /\ callback = FALSE /\ ~refused
      /\ max_issued_cmds \in Nat /\ RECV_TIMEOUT = 0
  BY LinkLayerAssumption, SizeFacts DEF LLInit, JtagConstants
<1>2. \A n \in Endpoint :
        /\ sent[n] = 0 /\ rcvd[n] = 0 /\ chan[n] = <<>>
        /\ ~SendTimer[n].enabled /\ ~SendTimer[n].timeout /\ SendTimer[n].max = SEND_TIMEOUT
        /\ ~RecvTimer[n].enabled /\ ~RecvTimer[n].timeout /\ RecvTimer[n].max = 0
  BY <1>1 DEF Init, T!NewTimers
<1>3. \A n \in Endpoint : Acked(n) = 0 /\ Transmitted(n) = 0 /\ InOrder(n) = 0
  <2>1. Inc(SEQ_S - 1) = 0 /\ Ofs(0, 0) = 0
    BY SizeFacts, PositionTypes, IncValue, OfsZero
  <2> QED BY <1>1, <2>1 DEF Init, Acked, Transmitted, InOrder
<1>4. Shape
  <2>1. \A t \in Tags : kind[t] = <<>> /\ host(t) \in Endpoint
    BY TagEnds DEF LLInit
  <2>2. <<>> \in Seq({"write", "read"}) /\ Len(<<>>) = 0
    OBVIOUS
  <2>3. kind \in [Tags -> Seq({"write", "read"})]
    BY <2>2 DEF LLInit
  <2>4. \A t \in Tags : Len(kind[t]) = sent[host(t)]
    BY <1>2, <2>1, <2>2
  <2>5. due \in [Tags -> Nat] /\ issued_cmds \in [Tags -> Nat]
        /\ writeflag \in [Tags -> [Slot -> BOOLEAN]]
    BY DEF LLInit
  <2> QED BY <1>1, <2>3, <2>4, <2>5 DEF Shape
<1> SUFFICES ASSUME NEW t \in Tags PROVE HostPart(t) /\ ChipPart(t)
  BY <1>4 DEF AnswerInv
<1>5. /\ host(t) \in Endpoint /\ chip(t) \in Endpoint
      /\ ~Unsent(t) /\ ~Asked(t) /\ ~Busy(t) /\ ~Aside(t)
      /\ \A l \in {"tick", "gate", "tock", "return", "exec", "put"} : ~Under(t, l) /\ ~Nested(t, l)
  BY <1>1, TagEnds DEF Unsent, Asked, Busy, Aside, Under, Nested
<1>6. Out(t) = 0 /\ ~Owes(t)
  BY <1>2, <1>3, <1>5 DEF Out, Owes
<1>7. Counts(t)
  <2>1. ReadsIssued(t) = 0
    <3>1. {k \in DOMAIN kind[t] : kind[t][k] = "read"} = {}
      <4>1. kind[t] = <<>>
        BY DEF LLInit
      <4> QED BY <4>1
    <3> QED BY <3>1, FS_EmptySet DEF ReadsIssued
  <2> QED BY <1>2, <1>3, <1>5, <2>1 DEF Counts, One
<1>8. Unacked(t)
  BY <1>1, <1>5, <1>6 DEF Unacked
<1>9. HostTimers(t)
  BY <1>2, <1>5, <1>6 DEF HostTimers, T!Armed
<1>10. Shown(t)
  <2>1. lastread = ClearPacket /\ issued_cmds[t] = 0
    BY DEF LLInit
  <2> QED BY <1>3, <1>5, <1>6, <2>1 DEF Shown
<1>11. Rests(t)
  <2>1. due[t] = 0
    BY DEF LLInit
  <2> QED BY <1>2, <1>3, <1>5, <2>1 DEF Rests, T!Armed
<1>12. Calm(t)
  BY <1>2, <1>3, <1>5, <1>6, <1>11 DEF Calm, T!Armed
<1> QED BY <1>5, <1>7, <1>8, <1>9, <1>10, <1>12 DEF HostPart, ChipPart

LEMMA LinkAlways ==
  ASSUME Divides, JtagConstants PROVE LLSpec => [](CommandsOnly => LinkInv)
<1> DEFINE Inv == SendInv /\ LinkTypes /\ (CommandsOnly => LinkInv)
<1>1. LLInit => Inv
  BY SeenInit, LinkTypesInit, AnswerInit DEF LinkInv
<1>2. Inv /\ [LLNext]_allVars => Inv'
  <2> SUFFICES ASSUME Inv, [LLNext]_allVars PROVE Inv'
    OBVIOUS
  <2>1. SendInv' /\ LinkTypes'
    BY LinkSendInv, LinkTypesNext
  <2>2. CommandsOnly' => CommandsOnly
    BY UsageStays DEF CommandsOnly
  <2>3. CommandsOnly => LinkInv'
    BY LinkInvNext
  <2> QED BY <2>1, <2>2, <2>3
<1>3. Inv => (CommandsOnly => LinkInv)
  OBVIOUS
<1> QED BY <1>1, <1>2, <1>3, PTL DEF LLSpec

\* With a JTAG slower than the chip and the constants of linklayer.h, every read
\* is answered before the call that issued it returns: the recvData its caller
\* makes next never throws (ctrlmod.cpp:60-78, linklayer.h:94-95).
THEOREM ReadAnsweredHolds ==
  ASSUME Divides, JtagConstants PROVE LLSpec => []ReadAnswered
<1>1. ASSUME CommandsOnly => LinkInv PROVE ReadAnswered
  <2> SUFFICES ASSUME pc = "idle", CommandsOnly, NEW t \in Tags
               PROVE  rcvd[host(t)] = ReadsIssued(t)
    BY DEF ReadAnswered, AllAnswered
  <2>1. StreamInv(Seen) /\ Counts(t)
    BY <1>1 DEF LinkInv, AnswerInv, HostPart
  <2>2. rcvd[host(t)] \in Nat /\ ~Asked(t)
    BY <2>1, Numbers DEF Asked
  <2> QED BY <2>1, <2>2 DEF Counts, One
<1>2. (CommandsOnly => LinkInv) => ReadAnswered
  BY <1>1
<1> QED BY <1>2, LinkAlways, PTL

\* Under the same constants issueCommand always finds room in the send window: it
\* never throws "link layer (software arq) failed to transmit data"
\* (linklayer.h:112-128).
THEOREM NeverRefusedHolds ==
  ASSUME Divides, JtagConstants PROVE LLSpec => []NeverRefused
<1>1. (CommandsOnly => LinkInv) => NeverRefused
  BY DEF LinkInv, AnswerInv, Shape, NeverRefused
<1> QED BY <1>1, LinkAlways, PTL
-----------------------------------------------------------------------------
(* Flush.  Nothing is needed here of the chip, of the register or of what  *)
(* the packets say: it is enough that an end is not asked for two packets  *)
(* that are due to be repeated while more than one payload waits.          *)

\* linklayer.h:40-43: "2*WND_SIZE for minimum amount of resends", since Exec
\* ticks twice.
ExecTicks == SEND_TIMEOUT >= 2 * WND_S

\* Payloads of t's host end that were never transmitted, and those that were
\* and are not acknowledged.
Waiting(t) == Ofs(seqpos[host(t)], sendpos[host(t)])
Flying(t)  == Ofs(sendpos[host(t)], wndpos[host(t)])

At(t, stage) == t = tag /\ pc = stage

\* The payload of the call in progress had no turn yet.
Fresh(t) ==
  /\ op = "issueCommand" /\ ~refused
  /\ pc # "idle" /\ t = Caller /\ (callback \/ pc \in {"exec", "put"})

\* The Exec that Flush owes to t is done, or has transmitted what there was.
Flushed(t) ==
  /\ op = "Flush"
  /\ \/ pc = "idle"
     \/ t < Caller
     \/ t = tag /\ ~callback /\ pc \in {"tick", "gate", "tock", "return"}

CallShape ==
  /\ callback \in BOOLEAN /\ refused \in BOOLEAN
  /\ pc \in {"idle", "exec", "put", "tick", "gate", "tock", "return"}
  /\ pc \in {"idle", "return"} => ~callback
  /\ pc # "idle" => op \in {"issueCommand", "Flush"}

\* A retransmission takes the turn of one payload, never of two.
LeftBehind(t) ==
  /\ One(Fresh(t)) <= Waiting(t) /\ Waiting(t) <= One(Fresh(t)) + 1
  /\ Flushed(t) => Waiting(t) = 0

\* Ticks before the Exec of t that has looked for a packet to send is over.
TicksDue(t) == IF At(t, "tick") THEN 2 ELSE IF At(t, "gate") \/ At(t, "tock") THEN 1 ELSE 0

\* While a payload is behind, the timer that runs since the last retransmission
\* lasts until the payload is transmitted: each Exec transmits a payload and
\* takes two ticks, and after at most WND_S - 1 of them the window is full.
Clock(t) == LET timer == SendTimer[host(t)] IN
  /\ timer.max = SEND_TIMEOUT
  /\ At(t, "tick") => ~timer.timeout
  /\ timer.enabled /\ timer.timeout =>
       ~At(t, "gate") /\ timer.value + 1 >= SEND_TIMEOUT + TicksDue(t)
  /\ Waiting(t) > One(Fresh(t)) =>
       /\ ~timer.timeout
       /\ timer.enabled => timer.value + 2 * Flying(t) + 1 >= SEND_TIMEOUT + TicksDue(t)

FlushInv == CallShape /\ \A t \in Tags : LeftBehind(t) /\ Clock(t)

\* What a step leaves alone: the send side of t, and t's place in the call.
SameSend(t) ==
  /\ seqpos'[host(t)] = seqpos[host(t)] /\ wndpos'[host(t)] = wndpos[host(t)]
  /\ sendpos'[host(t)] = sendpos[host(t)] /\ SendTimer'[host(t)] = SendTimer[host(t)]

SamePlace(t) ==
  /\ Fresh(t)' <=> Fresh(t)
  /\ Flushed(t)' => Flushed(t)
  /\ At(t, "tick")' <=> At(t, "tick")
  /\ At(t, "gate")' <=> At(t, "gate")
  /\ At(t, "tock")' <=> At(t, "tock")

LEMMA BehindKeeps ==
  ASSUME NEW t \in Tags, LeftBehind(t), Clock(t), SameSend(t), SamePlace(t)
  PROVE  LeftBehind(t)' /\ Clock(t)'
<1>1. Waiting(t)' = Waiting(t) /\ Flying(t)' = Flying(t) /\ SendTimer'[host(t)] = SendTimer[host(t)]
  BY DEF Waiting, Flying, SameSend
<1>2. One(Fresh(t))' = One(Fresh(t))
  BY DEF SamePlace, One
<1>3. TicksDue(t)' = TicksDue(t)
  BY DEF SamePlace, TicksDue
<1>4. LeftBehind(t)'
  BY <1>1, <1>2 DEF LeftBehind, SamePlace
<1>5. Clock(t)'
  BY <1>1, <1>2, <1>3 DEF Clock, SamePlace
<1> QED BY <1>4, <1>5

LEMMA SendFacts ==
  ASSUME SendInv, NEW t \in Tags
  PROVE  /\ Waiting(t) \in Nat /\ Flying(t) \in Nat /\ Waiting(t) + Flying(t) <= WND_S
         /\ Waiting(t) = 0 <=> seqpos[host(t)] = sendpos[host(t)]
         /\ HasUnsent(host(t)) <=> Waiting(t) > 0
         /\ Waiting(t) + Flying(t) = Ofs(seqpos[host(t)], wndpos[host(t)])
         /\ T!Armed(SendTimer[host(t)]) <=> Flying(t) > 0
         /\ SendTimer[host(t)] \in T!TimerType
         /\ seqpos[host(t)] \in SeqNo /\ wndpos[host(t)] \in SeqNo /\ sendpos[host(t)] \in SeqNo
         /\ SEND_TIMEOUT \in Nat
<1> DEFINE n == host(t)
<1>1. n \in Endpoint /\ TypeOK /\ SendSide(n)
  BY TagEnds DEF SendInv
<1>2. /\ seqpos[n] \in SeqNo /\ wndpos[n] \in SeqNo /\ sendpos[n] \in SeqNo
      /\ SendTimer[n] \in T!TimerType
  BY <1>1, SendSideTypes
<1>3. Ofs(seqpos[n], sendpos[n]) = Ofs(seqpos[n], wndpos[n]) - Ofs(sendpos[n], wndpos[n])
  BY <1>1, <1>2, OfsDifference DEF SendSide
<1>4. /\ Ofs(seqpos[n], sendpos[n]) \in Nat /\ Ofs(sendpos[n], wndpos[n]) \in Nat
      /\ Ofs(seqpos[n], wndpos[n]) \in Nat
      /\ Ofs(seqpos[n], sendpos[n]) = 0 <=> seqpos[n] = sendpos[n]
      /\ Ofs(sendpos[n], wndpos[n]) = 0 <=> sendpos[n] = wndpos[n]
  BY <1>2, OfsZero
<1>5. Ofs(seqpos[n], wndpos[n]) <= WND_S /\ WND_S \in Nat
      /\ (T!Armed(SendTimer[n]) <=> wndpos[n] # sendpos[n])
  BY <1>1, SizeFacts DEF SendSide
<1> HIDE DEF n
<1>6. /\ Waiting(t) = Ofs(seqpos[n], sendpos[n]) /\ Flying(t) = Ofs(sendpos[n], wndpos[n])
      /\ (HasUnsent(n) <=> Ofs(seqpos[n], sendpos[n]) > 0)
  BY DEF Waiting, Flying, HasUnsent, n
<1>7. SEND_TIMEOUT \in Nat
  BY ParameterAssumption
<1>8. /\ Waiting(t) \in Nat /\ Flying(t) \in Nat /\ Waiting(t) + Flying(t) <= WND_S
      /\ (Waiting(t) = 0 <=> seqpos[n] = sendpos[n])
      /\ (HasUnsent(n) <=> Waiting(t) > 0)
      /\ Waiting(t) + Flying(t) = Ofs(seqpos[n], wndpos[n])
  BY <1>3, <1>4, <1>5, <1>6
<1>9. T!Armed(SendTimer[n]) <=> Flying(t) > 0
  BY <1>4, <1>5, <1>6
<1> QED BY <1>2, <1>7, <1>8, <1>9 DEF n

Counted(t) ==
  /\ Waiting(t) \in Nat /\ Flying(t) \in Nat
  /\ T!Armed(SendTimer[host(t)]) <=> Flying(t) > 0

\* After a step, too, the timer runs while something is unacknowledged.
LEMMA CountedNext == ASSUME NEW t \in Tags PROVE SendInv' => Counted(t)'
<1>1. SendInv => Counted(t)
  BY SendFacts DEF Counted
<1> QED BY <1>1, PTL

LEMMA SendAdds ==
  ASSUME SendInv, NEW t \in Tags, Send(host(t))
  PROVE  /\ Waiting(t)' = Waiting(t) + 1 /\ Flying(t)' = Flying(t)
         /\ SendTimer'[host(t)] = SendTimer[host(t)]
         /\ \A u \in Tags : u # t => SameSend(u)
<1> DEFINE n == host(t)
<1>1. TypeOK /\ n \in Endpoint /\ \A u \in Tags : u # t => host(u) # n /\ host(u) \in Endpoint
  BY TagEnds DEF SendInv
<1>2. /\ seqpos'[n] = Inc(seqpos[n]) /\ UNCHANGED <<wndpos, sendpos, SendTimer>>
      /\ \A m \in Endpoint : m # n => seqpos'[m] = seqpos[m]
  BY <1>1 DEF Send, TypeOK
<1>3. seqpos[n] \in SeqNo /\ sendpos[n] \in SeqNo /\ Ofs(seqpos[n], sendpos[n]) < SEQ_S - 1
  <2>1. Ofs(seqpos[n], wndpos[n]) # WND_S /\ Ofs(seqpos[n], sendpos[n]) = Waiting(t)
        /\ WND_S \in Nat \ {0} /\ SEQ_S \in Nat /\ SEQ_S >= 2 * WND_S
    BY SizeFacts DEF Send, WindowFull, send_valids, Waiting
  <2>2. /\ Waiting(t) \in Nat /\ Flying(t) \in Nat /\ Waiting(t) + Flying(t) <= WND_S
        /\ Waiting(t) + Flying(t) = Ofs(seqpos[n], wndpos[n])
        /\ seqpos[n] \in SeqNo /\ sendpos[n] \in SeqNo
    BY SendFacts
  <2> HIDE DEF n
  <2> QED BY <2>1, <2>2
<1>4. Ofs(Inc(seqpos[n]), sendpos[n]) = Ofs(seqpos[n], sendpos[n]) + 1
  BY <1>3, OfsInc
<1> QED BY <1>1, <1>2, <1>4 DEF Waiting, Flying, SameSend

\* The three cases of GetSendData, as the positions show them.
LEMMA GetTakes ==
  ASSUME SendInv, NEW t \in Tags, GetSendData(host(t))
  PROVE  LET timer == SendTimer[host(t)] IN
         /\ \/ /\ timer.timeout /\ Waiting(t)' = Waiting(t) /\ Flying(t)' = Flying(t)
               /\ Flying(t) > 0 /\ SendTimer'[host(t)] = T!Continue(T!Ack(timer))
            \/ /\ ~timer.timeout /\ Waiting(t) > 0
               /\ Waiting(t)' = Waiting(t) - 1 /\ Flying(t)' = Flying(t) + 1
               /\ SendTimer'[host(t)] = T!Continue(timer)
            \/ ~timer.timeout /\ Waiting(t) = 0 /\ SameSend(t)
         /\ \A u \in Tags : u # t => SameSend(u)
<1> DEFINE n == host(t)
           timer == SendTimer[n]
<1>1. TypeOK /\ n \in Endpoint /\ \A u \in Tags : u # t => host(u) # n /\ host(u) \in Endpoint
  BY TagEnds DEF SendInv
<1>2. UNCHANGED <<seqpos, wndpos>> /\ (Resend(n) \/ SendNew(n) \/ SendAck(n))
  BY DEF GetSendData
<1>3. /\ sendpos \in [Endpoint -> SeqNo] /\ SendTimer \in [Endpoint -> T!TimerType]
  BY <1>1 DEF TypeOK
<1>4. /\ Waiting(t) \in Nat /\ Flying(t) \in Nat /\ Waiting(t) + Flying(t) <= WND_S
      /\ Waiting(t) + Flying(t) = Ofs(seqpos[n], wndpos[n])
      /\ T!Armed(timer) <=> Flying(t) > 0
      /\ HasUnsent(n) <=> Waiting(t) > 0
      /\ seqpos[n] \in SeqNo /\ wndpos[n] \in SeqNo /\ sendpos[n] \in SeqNo
      /\ WND_S \in Nat \ {0} /\ SEQ_S \in Nat /\ SEQ_S >= 2 * WND_S
  BY SendFacts, SizeFacts
<1>5. \A u \in Tags : u # t => SameSend(u)
  <2>1. \A m \in Endpoint : m # n => sendpos'[m] = sendpos[m] /\ SendTimer'[m] = SendTimer[m]
    BY <1>1, <1>2, <1>3 DEF Resend, SendNew, SendAck
  <2> QED BY <1>1, <1>2, <2>1 DEF SameSend
<1>6. CASE Resend(n)
  <2>1. timer.timeout /\ sendpos' = sendpos
    BY <1>6 DEF Resend
  <2>2. Flying(t) > 0
    BY <1>4, <2>1 DEF T!Armed
  <2>3. seqpos[n] # wndpos[n]
    <3>1. Ofs(seqpos[n], wndpos[n]) = 0 <=> seqpos[n] = wndpos[n]
      BY <1>4, OfsZero
    <3> HIDE DEF n, timer
    <3> QED BY <1>4, <2>2, <3>1
  <2>4. SendTimer'[n] = T!Continue(T!Ack(timer))
    BY <1>1, <1>3, <1>6, <2>3 DEF Resend, ResendTimer
  <2>5. Waiting(t)' = Waiting(t) /\ Flying(t)' = Flying(t)
    BY <1>2, <2>1 DEF Waiting, Flying
  <2> QED BY <1>5, <2>1, <2>2, <2>4, <2>5
<1>7. CASE SendNew(n)
  <2>1. /\ ~timer.timeout /\ Waiting(t) > 0 /\ sendpos'[n] = Inc(sendpos[n])
        /\ SendTimer'[n] = T!Continue(timer)
    BY <1>1, <1>3, <1>4, <1>7 DEF SendNew
  <2>2. Inc(sendpos[n]) \in SeqNo /\ Ofs(Inc(sendpos[n]), wndpos[n]) = Flying(t) + 1
    <3>1. Flying(t) < SEQ_S - 1
      <4> HIDE DEF n, timer
      <4> QED BY <1>4, <2>1
    <3> QED BY <1>4, <3>1, OfsInc DEF Flying
  <2>3. Ofs(seqpos[n], Inc(sendpos[n])) = Waiting(t) - 1
    <3>1. Ofs(Inc(sendpos[n]), wndpos[n]) <= Ofs(seqpos[n], wndpos[n])
      <4> HIDE DEF n, timer
      <4> QED BY <1>4, <2>1, <2>2
    <3>2. Ofs(seqpos[n], Inc(sendpos[n]))
            = Ofs(seqpos[n], wndpos[n]) - Ofs(Inc(sendpos[n]), wndpos[n])
      BY <1>4, <2>2, <3>1, OfsDifference
    <3> HIDE DEF n, timer
    <3> QED BY <1>4, <2>2, <3>2
  <2>4. Waiting(t)' = Waiting(t) - 1 /\ Flying(t)' = Flying(t) + 1
    BY <1>2, <2>1, <2>2, <2>3 DEF Waiting, Flying
  <2> QED BY <1>5, <2>1, <2>4
<1>8. CASE SendAck(n)
  <2>1. ~timer.timeout /\ ~(Waiting(t) > 0) /\ UNCHANGED <<sendpos, SendTimer>>
    BY <1>4, <1>8 DEF SendAck
  <2>2. SameSend(t) /\ Waiting(t) = 0
    BY <1>2, <1>4, <2>1 DEF SameSend
  <2> QED BY <1>5, <2>1, <2>2
<1> QED BY <1>2, <1>6, <1>7, <1>8
-----------------------------------------------------------------------------
(* The steps of a call.                                                    *)

LEMMA MoreTimerSteps ==
  ASSUME NEW x \in T!TimerType
  PROVE  /\ T!Ack(x) \in T!TimerType /\ ~T!Ack(x).timeout
         /\ T!Ack(x).value = x.value /\ T!Ack(x).max = x.max /\ T!Ack(x).enabled = x.enabled
         /\ T!Start(x).value = x.max /\ T!Start(x).enabled /\ T!Start(x).timeout = x.timeout
         /\ T!Tick(x).timeout /\ T!Tick(x).enabled => x.timeout /\ x.value > 0
<1>1. T!Ack(x) \in T!TimerType
  BY TimerTypes
<1>2. /\ ~T!Ack(x).timeout
      /\ T!Ack(x).value = x.value /\ T!Ack(x).max = x.max /\ T!Ack(x).enabled = x.enabled
  BY DEF T!TimerType, T!Ack
<1>3. T!Start(x).value = x.max /\ T!Start(x).enabled /\ T!Start(x).timeout = x.timeout
  BY DEF T!TimerType, T!Start
<1>4. T!Tick(x).timeout /\ T!Tick(x).enabled => x.timeout /\ x.value > 0
  BY DEF T!TimerType, T!Tick, T!Stop, T!SetTimeout
<1> QED BY <1>1, <1>2, <1>3, <1>4

\* The place of a tag whose Exec does not run.
LEMMA AsideKeeps ==
  ASSUME FlushInv, NEW t \in Tags, t # tag, SameSend(t),
         UNCHANGED <<op, refused, tag, callback>>,
         pc \in {"exec", "put", "tick", "gate"}, pc' \in {"put", "tick", "gate", "tock"}
  PROVE  LeftBehind(t)' /\ Clock(t)'
<1>1. Caller' = Caller /\ callback \in BOOLEAN
  BY DEF Caller, FlushInv, CallShape
<1>2. Fresh(t)' <=> Fresh(t)
  <2>1. t = Caller => callback
    BY DEF Caller
  <2>2. pc # "idle" /\ pc' # "idle"
    OBVIOUS
  <2> QED BY <1>1, <2>1, <2>2 DEF Fresh
<1>3. Flushed(t)' => Flushed(t)
  BY <1>1 DEF Flushed
<1>4. SamePlace(t)
  BY <1>2, <1>3 DEF SamePlace, At
<1> QED BY <1>4, BehindKeeps DEF FlushInv

LEMMA PutFlushes ==
  ASSUME SendInv, LinkTypes, FlushInv, ExecPut
  PROVE  FlushInv'
<1>1. PICK t \in Tags : t = tag
  BY DEF LinkTypes
<1>2. /\ pc = "put" /\ pc' = "tick" /\ UNCHANGED <<op, refused, tag, callback>>
      /\ GetSendData(host(t))
  BY <1>1 DEF ExecPut, Goto
<1>3. CallShape /\ LeftBehind(t) /\ Clock(t)
  BY DEF FlushInv
<1>4. CallShape'
  BY <1>2, <1>3 DEF CallShape
<1>5. ASSUME NEW u \in Tags, u # t PROVE LeftBehind(u)' /\ Clock(u)'
  BY <1>1, <1>2, <1>5, GetTakes, AsideKeeps
<1> DEFINE timer == SendTimer[host(t)]
           mine == One(Fresh(t))
           left == Waiting(t)
           flying == Flying(t)
<1>6. /\ Fresh(t)' = FALSE /\ mine \in {0, 1} /\ (Flushed(t)' => mine = 0)
      /\ At(t, "tick")' = TRUE /\ At(t, "gate")' = FALSE /\ At(t, "tock")' = FALSE
      /\ At(t, "tick") = FALSE /\ At(t, "gate") = FALSE /\ At(t, "tock") = FALSE
  <2>1. Fresh(t)' = FALSE
    <3>1. Caller' = Caller /\ (callback => Caller # t)
      BY <1>1, <1>2, TagEnds DEF Caller
    <3> QED BY <1>2, <3>1 DEF Fresh
  <2>2. Flushed(t)' => ~Fresh(t)
    BY <1>2 DEF Flushed, Fresh
  <2> QED BY <1>1, <1>2, <2>1, <2>2 DEF At, One
<1>7. /\ left \in Nat /\ flying \in Nat /\ SEND_TIMEOUT \in Nat /\ timer \in T!TimerType
      /\ mine <= left /\ left <= mine + 1 /\ timer.max = SEND_TIMEOUT
      /\ timer.enabled /\ timer.timeout => timer.value + 1 >= SEND_TIMEOUT
      /\ left > mine => /\ ~timer.timeout
                        /\ timer.enabled => timer.value + 2 * flying + 1 >= SEND_TIMEOUT
  <2>1. TicksDue(t) = 0
    BY <1>6 DEF TicksDue
  <2> QED BY <1>3, <1>6, <2>1, SendFacts DEF LeftBehind, Clock
<1>8. /\ Waiting(t)' \in {0, 1} /\ (mine = 0 => Waiting(t)' = 0)
      /\ SendTimer'[host(t)].max = SEND_TIMEOUT /\ ~SendTimer'[host(t)].timeout
      /\ Waiting(t)' = 1 /\ SendTimer'[host(t)].enabled =>
           SendTimer'[host(t)].value + 2 * Flying(t)' + 1 >= SEND_TIMEOUT + 2
  <2> DEFINE after == SendTimer'[host(t)]
             left2 == Waiting(t)'
             flying2 == Flying(t)'
  <2>1. /\ T!Ack(timer) \in T!TimerType /\ ~T!Ack(timer).timeout
        /\ T!Ack(timer).value = timer.value /\ T!Ack(timer).max = timer.max
        /\ T!Ack(timer).enabled = timer.enabled /\ timer.value \in Nat
    BY <1>7, MoreTimerSteps, TimerSteps
  <2>2. \A x \in T!TimerType :
          /\ T!Continue(x).max = x.max /\ T!Continue(x).timeout = x.timeout
          /\ T!Continue(x).value = IF x.enabled THEN x.value ELSE x.max
    BY TimerSteps
  <2>3. CASE timer.timeout /\ left2 = left /\ flying2 = flying /\ flying > 0
             /\ after = T!Continue(T!Ack(timer))
    <3>1. /\ after.max = SEND_TIMEOUT /\ ~after.timeout
          /\ after.value = IF timer.enabled THEN timer.value ELSE SEND_TIMEOUT
      BY <1>7, <2>1, <2>2, <2>3
    <3>2. left = mine
      BY <1>6, <1>7, <2>3
    <3> HIDE DEF timer, left, flying, mine
    <3> QED BY <1>6, <1>7, <2>1, <2>3, <3>1, <3>2
  <2>4. CASE ~timer.timeout /\ left > 0 /\ left2 = left - 1 /\ flying2 = flying + 1
             /\ after = T!Continue(timer)
    <3>1. /\ after.max = SEND_TIMEOUT /\ ~after.timeout
          /\ after.value = IF timer.enabled THEN timer.value ELSE SEND_TIMEOUT
      BY <1>7, <2>2, <2>4
    <3> HIDE DEF timer, left, flying, mine
    <3> QED BY <1>6, <1>7, <2>1, <2>4, <3>1
  <2>5. CASE ~timer.timeout /\ left = 0 /\ left2 = left /\ after = timer
    BY <1>6, <1>7, <2>5
  <2>6. SameSend(t) => left2 = left /\ after = timer
    BY DEF SameSend, Waiting
  <2> QED BY <1>2, <2>3, <2>4, <2>5, <2>6, GetTakes
<1>9. One(Fresh(t))' = 0 /\ TicksDue(t)' = 2
  BY <1>6 DEF One, TicksDue
<1>10. LeftBehind(t)'
  BY <1>6, <1>8, <1>9 DEF LeftBehind
<1>11. Clock(t)'
  BY <1>6, <1>8, <1>9 DEF Clock
<1> QED BY <1>1, <1>4, <1>5, <1>10, <1>11 DEF FlushInv

\* One of the two ticks of an Exec, which has still d of them to take.
LEMMA TickLasts ==
  ASSUME ExecTicks, NEW x \in T!TimerType, NEW w \in Nat, NEW f \in Nat, w + f <= WND_S,
         NEW d \in {1, 2}, x.max = SEND_TIMEOUT, SEND_TIMEOUT \in Nat,
         d = 2 => ~x.timeout,
         x.enabled /\ x.timeout => x.value + 1 >= SEND_TIMEOUT + d,
         w > 0 => ~x.timeout /\ (x.enabled => x.value + 2 * f + 1 >= SEND_TIMEOUT + d)
  PROVE  /\ T!Tick(x).max = SEND_TIMEOUT
         /\ T!Tick(x).enabled /\ T!Tick(x).timeout =>
              d = 1 /\ T!Tick(x).value + 1 >= SEND_TIMEOUT
         /\ w > 0 => /\ ~T!Tick(x).timeout
                     /\ T!Tick(x).enabled => T!Tick(x).value + 2 * f + 1 >= SEND_TIMEOUT + d - 1
<1> DEFINE y == T!Tick(x)
<1>1. /\ y.max = x.max /\ (~x.enabled => y = x)
      /\ x.enabled /\ x.value > 0 => y.timeout = x.timeout /\ y.value = x.value - 1 /\ y.enabled
      /\ y.timeout /\ y.enabled => x.timeout /\ x.value > 0
      /\ x.value \in Nat
  BY TimerSteps, MoreTimerSteps
<1> HIDE DEF y
<1>2. WND_S \in Nat \ {0} /\ SEND_TIMEOUT >= 2 * WND_S
  BY SizeFacts DEF ExecTicks
<1>3. y.enabled /\ y.timeout => d = 1 /\ y.value + 1 >= SEND_TIMEOUT
  <2> SUFFICES ASSUME y.enabled, y.timeout PROVE d = 1 /\ y.value + 1 >= SEND_TIMEOUT
    OBVIOUS
  <2>1. x.timeout /\ x.value > 0
    BY <1>1
  <2>2. x.enabled
    BY <1>1
  <2> QED BY <1>1, <2>1, <2>2
<1>4. ASSUME w > 0
      PROVE  /\ ~y.timeout
             /\ y.enabled => y.value + 2 * f + 1 >= SEND_TIMEOUT + d - 1
  <2>1. CASE x.enabled
    <3>1. x.value > 0
      BY <1>1, <1>2, <1>4, <2>1
    <3> QED BY <1>1, <1>4, <2>1, <3>1
  <2>2. CASE ~x.enabled
    BY <1>1, <1>4, <2>2
  <2> QED BY <2>1, <2>2
<1> QED BY <1>1, <1>3, <1>4 DEF y

LEMMA TickSends ==
  ASSUME SendInv, NEW t \in Tags, Tick(host(t))
  PROVE  /\ UNCHANGED <<seqpos, wndpos, sendpos>>
         /\ SendTimer'[host(t)] = T!Tick(SendTimer[host(t)])
         /\ \A u \in Tags : u # t => SameSend(u)
<1>1. host(t) \in Endpoint /\ \A u \in Tags : u # t => host(u) \in Endpoint /\ host(u) # host(t)
  BY TagEnds
<1>2. /\ SendTimer'[host(t)] = T!Tick(SendTimer[host(t)])
      /\ \A n \in Endpoint \ {host(t)} : SameTimers(n)
  BY <1>1, TickSame
<1>3. UNCHANGED <<seqpos, wndpos, sendpos>>
  BY DEF Tick
<1> QED BY <1>1, <1>2, <1>3 DEF SameSend, SameTimers

LEMMA TickFlushes ==
  ASSUME ExecTicks, SendInv, LinkTypes, FlushInv, ExecTick
  PROVE  FlushInv'
<1>1. PICK t \in Tags : t = tag
  BY DEF LinkTypes
<1>2. /\ pc = "tick" /\ pc' = "gate" /\ UNCHANGED <<op, refused, tag, callback>>
      /\ Tick(host(t))
  BY <1>1 DEF ExecTick, Goto
<1>3. CallShape /\ LeftBehind(t) /\ Clock(t)
  BY DEF FlushInv
<1>4. CallShape'
  BY <1>2, <1>3 DEF CallShape
<1>5. /\ UNCHANGED <<seqpos, wndpos, sendpos>>
      /\ SendTimer'[host(t)] = T!Tick(SendTimer[host(t)])
      /\ \A u \in Tags : u # t => SameSend(u)
  BY <1>2, TickSends
<1>6. ASSUME NEW u \in Tags, u # t PROVE LeftBehind(u)' /\ Clock(u)'
  BY <1>1, <1>2, <1>5, <1>6, AsideKeeps
<1>7. /\ ~Fresh(t) /\ ~Fresh(t)' /\ (Flushed(t)' => Flushed(t))
      /\ TicksDue(t) = 2 /\ TicksDue(t)' = 1 /\ ~At(t, "tick")' /\ At(t, "tick")
  <2>1. Caller' = Caller /\ (callback => Caller # t)
    BY <1>1, <1>2, TagEnds DEF Caller
  <2> QED BY <1>1, <1>2, <2>1 DEF Fresh, Flushed, TicksDue, At
<1>8. Waiting(t)' = Waiting(t) /\ Flying(t)' = Flying(t)
  BY <1>5 DEF Waiting, Flying
<1>9. LeftBehind(t)'
  BY <1>3, <1>7, <1>8 DEF LeftBehind, One
<1>10. Clock(t)'
  <2> DEFINE x == SendTimer[host(t)]
  <2>1. /\ x \in T!TimerType /\ Waiting(t) \in Nat /\ Flying(t) \in Nat /\ SEND_TIMEOUT \in Nat
        /\ Waiting(t) + Flying(t) <= WND_S
    BY SendFacts
  <2>2. /\ x.max = SEND_TIMEOUT /\ ~x.timeout
        /\ Waiting(t) > 0 => (x.enabled => x.value + 2 * Flying(t) + 1 >= SEND_TIMEOUT + 2)
    BY <1>3, <1>7 DEF Clock, One
  <2>3. /\ T!Tick(x).max = SEND_TIMEOUT /\ ~(T!Tick(x).enabled /\ T!Tick(x).timeout)
        /\ Waiting(t) > 0 =>
             /\ ~T!Tick(x).timeout
             /\ T!Tick(x).enabled => T!Tick(x).value + 2 * Flying(t) + 1 >= SEND_TIMEOUT + 1
    <3> HIDE DEF x
    <3>1. 2 \in {1, 2} /\ 2 # 1 /\ SEND_TIMEOUT + 2 - 1 = SEND_TIMEOUT + 1
      BY <2>1
    <3> QED BY <2>1, <2>2, <3>1, TickLasts
  <2> QED BY <1>5, <1>7, <1>8, <2>3 DEF Clock, One
<1> QED BY <1>1, <1>4, <1>6, <1>9, <1>10 DEF FlushInv

LEMMA TockFlushes ==
  ASSUME ExecTicks, SendInv, LinkTypes, FlushInv, ExecTock
  PROVE  FlushInv'
<1>1. PICK t \in Tags : t = tag
  BY DEF LinkTypes
<1>2. /\ pc = "tock" /\ UNCHANGED <<op, refused>> /\ Tick(host(t))
      /\ \/ ~callback /\ pc' = "return" /\ tag' = tag /\ callback' = callback
         \/ callback /\ pc' = "exec" /\ tag' = other(tag) /\ callback' = FALSE
  BY <1>1 DEF ExecTock, Goto
<1>3. CallShape /\ LeftBehind(t) /\ Clock(t)
  BY DEF FlushInv
<1>4. CallShape'
  <2>1. callback' \in BOOLEAN /\ refused' \in BOOLEAN /\ (pc' \in {"idle", "return"} => ~callback')
    <3>1. callback \in BOOLEAN /\ refused \in BOOLEAN /\ refused' = refused
      BY <1>2, <1>3 DEF CallShape
    <3>2. CASE ~callback /\ callback' = callback
      BY <3>1, <3>2
    <3>3. CASE pc' = "exec" /\ callback' = FALSE
      BY <3>1, <3>3
    <3> QED BY <1>2, <3>2, <3>3
  <2>2. /\ pc' \in {"idle", "exec", "put", "tick", "gate", "tock", "return"}
        /\ pc' # "idle" => op' \in {"issueCommand", "Flush"}
    BY <1>2, <1>3 DEF CallShape
  <2> QED BY <2>1, <2>2 DEF CallShape
<1>5. /\ UNCHANGED <<seqpos, wndpos, sendpos>>
      /\ SendTimer'[host(t)] = T!Tick(SendTimer[host(t)])
      /\ \A u \in Tags : u # t => SameSend(u)
  BY <1>2, TickSends
<1>6. /\ other(t) \in Tags /\ other(t) # t /\ Caller' = Caller
      /\ Caller = IF callback THEN other(t) ELSE t
  BY <1>1, <1>2, <1>3, TagEnds DEF Caller, CallShape
<1>7. ASSUME NEW u \in Tags, u # t PROVE LeftBehind(u)' /\ Clock(u)'
  <2>1. (Fresh(u)' <=> Fresh(u)) /\ (Flushed(u)' => Flushed(u))
    BY <1>1, <1>2, <1>6, <1>7 DEF Fresh, Flushed
  <2>2. SamePlace(u)
    BY <1>1, <1>2, <1>7, <2>1 DEF SamePlace, At
  <2> QED BY <1>5, <1>7, <2>2, BehindKeeps DEF FlushInv
<1>8. /\ ~Fresh(t) /\ ~Fresh(t)' /\ (Flushed(t)' => Flushed(t))
      /\ TicksDue(t) = 1 /\ TicksDue(t)' = 0 /\ ~At(t, "tick")' /\ ~At(t, "gate")'
  BY <1>1, <1>2, <1>6 DEF Fresh, Flushed, TicksDue, At
<1>9. Waiting(t)' = Waiting(t) /\ Flying(t)' = Flying(t)
  BY <1>5 DEF Waiting, Flying
<1>10. LeftBehind(t)'
  BY <1>3, <1>8, <1>9 DEF LeftBehind, One
<1>11. Clock(t)'
  <2> DEFINE x == SendTimer[host(t)]
  <2>1. /\ x \in T!TimerType /\ Waiting(t) \in Nat /\ Flying(t) \in Nat /\ SEND_TIMEOUT \in Nat
        /\ Waiting(t) + Flying(t) <= WND_S
    BY SendFacts
  <2>2. /\ x.max = SEND_TIMEOUT
        /\ x.enabled /\ x.timeout => x.value + 1 >= SEND_TIMEOUT + 1
        /\ Waiting(t) > 0 =>
             ~x.timeout /\ (x.enabled => x.value + 2 * Flying(t) + 1 >= SEND_TIMEOUT + 1)
    BY <1>3, <1>8 DEF Clock, One
  <2>3. /\ T!Tick(x).max = SEND_TIMEOUT
        /\ T!Tick(x).enabled /\ T!Tick(x).timeout => T!Tick(x).value + 1 >= SEND_TIMEOUT + 0
        /\ Waiting(t) > 0 =>
             /\ ~T!Tick(x).timeout
             /\ T!Tick(x).enabled => T!Tick(x).value + 2 * Flying(t) + 1 >= SEND_TIMEOUT + 0
    <3> HIDE DEF x
    <3>1. 1 \in {1, 2} /\ 2 # 1 /\ SEND_TIMEOUT + 1 - 1 = SEND_TIMEOUT + 0 /\ SEND_TIMEOUT + 0 = SEND_TIMEOUT
      BY <2>1
    <3> QED BY <2>1, <2>2, <3>1, TickLasts
  <2> QED BY <1>5, <1>8, <1>9, <2>3 DEF Clock, One
<1> QED BY <1>1, <1>4, <1>7, <1>10, <1>11 DEF FlushInv

LEMMA GateFlushes ==
  ASSUME SendInv, SendInv', LinkTypes, FlushInv, ExecGate
  PROVE  FlushInv'
<1>1. PICK t \in Tags : t = tag
  BY DEF LinkTypes
<1>2. /\ pc = "gate" /\ pc' = "tock" /\ UNCHANGED <<op, refused, tag, callback>>
      /\ UNCHANGED vars \/ ReceivePacket(host(t), rxreg.packet)
  BY <1>1 DEF ExecGate, Goto
<1>3. CallShape /\ LeftBehind(t) /\ Clock(t)
  BY DEF FlushInv
<1>4. CallShape'
  BY <1>2, <1>3 DEF CallShape
<1> DEFINE x == SendTimer[host(t)]
           y == SendTimer'[host(t)]
<1>5. /\ UNCHANGED <<seqpos, sendpos>> /\ \A u \in Tags : u # t => SameSend(u)
      /\ \/ y = T!Stop(x)
         \/ y = T!Start(x)
         \/ y = x /\ wndpos'[host(t)] = wndpos[host(t)]
  <2>1. TypeOK /\ host(t) \in Endpoint
        /\ \A u \in Tags : u # t => host(u) \in Endpoint /\ host(u) # host(t)
    BY TagEnds DEF SendInv
  <2>2. CASE UNCHANGED vars
    BY <2>2 DEF vars, sendVars, SameSend
  <2>3. CASE ReceivePacket(host(t), rxreg.packet)
    <3>1. UNCHANGED <<seqpos, sendpos>> /\ ReceiveAck(host(t), rxreg.packet)
      BY <2>3 DEF ReceivePacket
    <3>2. \A u \in Tags : u # t => SameSend(u)
      BY <2>1, <3>1 DEF ReceiveAck, TypeOK, SameSend
    <3>3. \/ y = T!Stop(x)
          \/ y = T!Start(x)
          \/ y = x /\ wndpos'[host(t)] = wndpos[host(t)]
      BY <2>1, <3>1 DEF ReceiveAck, TypeOK, TimerAfterAck
    <3> QED BY <3>1, <3>2, <3>3
  <2> QED BY <1>2, <2>2, <2>3
<1>6. ASSUME NEW u \in Tags, u # t PROVE LeftBehind(u)' /\ Clock(u)'
  BY <1>1, <1>2, <1>5, <1>6, AsideKeeps
<1>7. /\ ~Fresh(t) /\ ~Fresh(t)' /\ (Flushed(t)' => Flushed(t)) /\ At(t, "gate")
      /\ TicksDue(t) = 1 /\ TicksDue(t)' = 1 /\ ~At(t, "tick")' /\ ~At(t, "gate")'
  <2>1. Caller' = Caller /\ (callback => Caller # t)
    BY <1>1, <1>2, TagEnds DEF Caller
  <2> QED BY <1>1, <1>2, <2>1 DEF Fresh, Flushed, TicksDue, At
<1>8. /\ Waiting(t)' = Waiting(t) /\ Waiting(t) \in Nat /\ Flying(t)' \in Nat
      /\ SEND_TIMEOUT \in Nat /\ x \in T!TimerType
  BY <1>5, SendFacts, CountedNext DEF Waiting, Counted
<1>9. LeftBehind(t)'
  BY <1>3, <1>7, <1>8 DEF LeftBehind, One
<1>10. /\ y.max = SEND_TIMEOUT
       /\ y.enabled /\ y.timeout => y.value + 1 >= SEND_TIMEOUT + 1
       /\ Waiting(t) > 0 =>
            ~y.timeout /\ (y.enabled => y.value + 2 * Flying(t)' + 1 >= SEND_TIMEOUT + 1)
  <2>1. /\ x.max = SEND_TIMEOUT /\ ~(x.enabled /\ x.timeout)
        /\ Waiting(t) > 0 =>
             ~x.timeout /\ (x.enabled => x.value + 2 * Flying(t) + 1 >= SEND_TIMEOUT + 1)
    BY <1>3, <1>7 DEF Clock, One
  <2>2. CASE y = T!Stop(x)
    <3>1. y.max = x.max /\ ~y.enabled /\ ~y.timeout
      BY <1>8, <2>2, TimerSteps
    <3> QED BY <2>1, <3>1
  <2>3. CASE y = T!Start(x)
    <3>1. y.max = x.max /\ y.value = x.max /\ y.timeout = x.timeout
      BY <1>8, <2>3, TimerSteps, MoreTimerSteps
    <3> HIDE DEF x, y
    <3> QED BY <1>8, <2>1, <3>1
  <2>4. CASE y = x /\ wndpos'[host(t)] = wndpos[host(t)]
    <3>1. Flying(t)' = Flying(t)
      BY <1>5, <2>4 DEF Flying
    <3> QED BY <2>1, <2>4, <3>1
  <2> QED BY <1>5, <2>2, <2>3, <2>4
<1>11. Clock(t)'
  BY <1>7, <1>8, <1>10 DEF Clock, One
<1> QED BY <1>1, <1>4, <1>6, <1>9, <1>11 DEF FlushInv

LEMMA ExecFlushes ==
  ASSUME SendInv, LinkTypes, FlushInv, Exec
  PROVE  FlushInv'
<1>1. PICK t \in Tags : t = tag
  BY DEF LinkTypes
<1>2. /\ pc = "exec" /\ UNCHANGED <<op, refused>> /\ UNCHANGED vars
      /\ \/ tag' = other(tag) /\ callback' = TRUE /\ pc' = pc /\ ~callback
         \/ tag' = tag /\ callback' = callback /\ pc' = "put"
         \/ tag' = tag /\ callback' = callback /\ pc' = "tick" /\ ~HasSendData(host(t))
  BY <1>1 DEF Exec, ConcFirst, Goto
<1>3. CallShape /\ \A u \in Tags : LeftBehind(u) /\ Clock(u) /\ SameSend(u)
  BY <1>2 DEF FlushInv, SameSend, vars, sendVars
<1>4. CallShape'
  <2>1. callback' \in BOOLEAN /\ pc' \in {"exec", "put", "tick"}
    BY <1>2, <1>3 DEF CallShape
  <2> QED BY <1>2, <1>3, <2>1 DEF CallShape
<1>5. ASSUME NEW u \in Tags PROVE LeftBehind(u)' /\ Clock(u)'
  <2>1. CASE tag' = other(tag) /\ callback' = TRUE /\ pc' = pc /\ ~callback
    <3>1. Caller' = Caller
      BY <1>1, <2>1, TagEnds DEF Caller
    <3>2. (Fresh(u)' <=> Fresh(u)) /\ (Flushed(u)' => Flushed(u))
      BY <1>2, <2>1, <3>1 DEF Fresh, Flushed, Caller
    <3>3. SamePlace(u)
      BY <1>2, <2>1, <3>2 DEF SamePlace, At
    <3> QED BY <1>3, <3>3, BehindKeeps
  <2>2. CASE u # t /\ tag' = tag /\ callback' = callback /\ pc' \in {"put", "tick"}
    BY <1>1, <1>2, <1>3, <2>2, AsideKeeps
  <2>3. CASE u = t /\ tag' = tag /\ callback' = callback /\ pc' = "put"
    <3>1. Caller' = Caller
      BY <2>3 DEF Caller
    <3>2. (Fresh(u)' <=> Fresh(u)) /\ (Flushed(u)' => Flushed(u))
      BY <1>2, <2>3, <3>1 DEF Fresh, Flushed
    <3>3. SamePlace(u)
      BY <1>2, <2>3, <3>2 DEF SamePlace, At
    <3> QED BY <1>3, <3>3, BehindKeeps
  <2>4. CASE /\ u = t /\ tag' = tag /\ callback' = callback /\ pc' = "tick"
             /\ ~HasSendData(host(t))
    <3>1. ~SendTimer[host(t)].timeout /\ Waiting(t) = 0
      <4>1. Waiting(t) \in Nat /\ ~HasUnsent(host(t)) /\ (HasUnsent(host(t)) <=> Waiting(t) > 0)
        BY <2>4, SendFacts DEF HasSendData
      <4> QED BY <2>4, <4>1 DEF HasSendData
    <3>2. Waiting(t)' = 0 /\ SendTimer'[host(t)] = SendTimer[host(t)]
      BY <1>3, <3>1 DEF SameSend, Waiting
    <3>3. ~Fresh(t)'
      <4>1. Caller' = Caller /\ (callback => Caller # t)
        BY <1>1, <2>4, TagEnds DEF Caller
      <4> QED BY <2>4, <4>1 DEF Fresh
    <3>4. LeftBehind(t)'
      BY <3>2, <3>3 DEF LeftBehind, One
    <3>5. Clock(t)'
      BY <1>3, <3>1, <3>2, <3>3 DEF Clock, One
    <3> QED BY <2>4, <3>4, <3>5
  <2> QED BY <1>2, <2>1, <2>2, <2>3, <2>4
<1> QED BY <1>4, <1>5 DEF FlushInv

LEMMA IssueFlushes ==
  ASSUME SendInv, FlushInv, NEW t \in Tags, NEW k \in {"write", "read"}, issueCommand(t, k)
  PROVE  FlushInv'
<1>1. /\ pc = "idle" /\ pc' = "exec" /\ op' = "issueCommand" /\ tag' = t /\ callback' = FALSE
      /\ refused' = WindowFull(host(t))
      /\ IF WindowFull(host(t)) THEN UNCHANGED vars ELSE Send(host(t))
  BY DEF issueCommand, May
<1>2. /\ WindowFull(host(t)) \in BOOLEAN
      /\ \A u \in Tags : LeftBehind(u) /\ Clock(u)
  BY DEF WindowFull, FlushInv
<1>3. CallShape'
  BY <1>1, <1>2 DEF CallShape
<1>4. Caller' = t
  BY <1>1 DEF Caller
<1>5. ASSUME NEW u \in Tags
      PROVE  /\ ~Fresh(u) /\ ~Flushed(u)' /\ TicksDue(u) = 0 /\ TicksDue(u)' = 0
             /\ \A l \in {"tick", "gate", "tock"} : ~At(u, l) /\ ~At(u, l)'
             /\ Fresh(u)' <=> ~refused' /\ u = t
  BY <1>1, <1>4 DEF Fresh, Flushed, TicksDue, At
<1>6. ASSUME NEW u \in Tags, SameSend(u), ~Fresh(u)' PROVE LeftBehind(u)' /\ Clock(u)'
  <2>1. SamePlace(u)
    BY <1>5, <1>6 DEF SamePlace
  <2> QED BY <1>2, <1>6, <2>1, BehindKeeps
<1>7. CASE WindowFull(host(t))
  <2>1. \A u \in Tags : SameSend(u) /\ ~Fresh(u)'
    BY <1>1, <1>5, <1>7 DEF SameSend, vars, sendVars
  <2> QED BY <1>3, <1>6, <2>1 DEF FlushInv
<1>8. CASE ~WindowFull(host(t))
  <2>1. /\ Waiting(t)' = Waiting(t) + 1 /\ Flying(t)' = Flying(t)
        /\ SendTimer'[host(t)] = SendTimer[host(t)]
        /\ \A u \in Tags : u # t => SameSend(u)
    BY <1>1, <1>8, SendAdds
  <2>2. Fresh(t)' /\ ~Fresh(t) /\ Waiting(t) \in Nat
    BY <1>1, <1>5, <1>8, SendFacts
  <2>3. LeftBehind(t)'
    BY <1>2, <1>5, <2>1, <2>2 DEF LeftBehind, One
  <2>4. Clock(t)'
    <3>1. Waiting(t)' > 1 => Waiting(t) > 0
      BY <2>1, <2>2
    <3> QED BY <1>2, <1>5, <2>1, <2>2, <3>1 DEF Clock, One
  <2>5. ASSUME NEW u \in Tags, u # t PROVE LeftBehind(u)' /\ Clock(u)'
    BY <1>5, <1>6, <2>1, <2>5
  <2> QED BY <1>3, <2>3, <2>4, <2>5 DEF FlushInv
<1> QED BY <1>7, <1>8

\* What returns or begins leaves the send sides alone.
LEMMA ReturnFlushes ==
  ASSUME LinkTypes, FlushInv, issueCommandReturns \/ FlushReturns \/ Flush \/ Clear
  PROVE  FlushInv'
<1>1. /\ CallShape /\ tag \in {0, 1} /\ Tags = {0, 1}
      /\ \A u \in Tags : LeftBehind(u) /\ Clock(u)
  BY TagFacts DEF FlushInv, LinkTypes
<1>2. refused' = refused /\ ~callback /\ callback' = FALSE /\ Caller = tag /\ Caller' = tag'
  BY <1>1 DEF CallShape, issueCommandReturns, FlushReturns, Flush, Clear, May, Goto, Caller
<1>3. \A u \in Tags : SameSend(u)
  BY DEF issueCommandReturns, FlushReturns, Flush, Clear, Read, vars, sendVars, SameSend
<1>4. \/ pc = "return" /\ op = "issueCommand" /\ op' = op /\ pc' = "idle"
      \/ pc = "return" /\ op = "Flush" /\ op' = op /\ tag = 1 /\ pc' = "idle"
      \/ pc = "return" /\ op = "Flush" /\ op' = op /\ tag = 0 /\ tag' = 1 /\ pc' = "exec"
      \/ pc = "idle" /\ op' = "Flush" /\ tag' = 0 /\ pc' = "exec"
      \/ pc = "idle" /\ op' = "Clear" /\ pc' = "idle"
  BY <1>1 DEF issueCommandReturns, FlushReturns, Flush, Clear, May, Goto, LastTag
<1>5. CallShape'
  <2>1. pc' \in {"idle", "exec"} /\ (pc' # "idle" => op' \in {"issueCommand", "Flush"})
    BY <1>4
  <2> QED BY <1>1, <1>2, <2>1 DEF CallShape
<1>6. ASSUME NEW u \in Tags PROVE LeftBehind(u)' /\ Clock(u)'
  <2>1. ~Fresh(u) /\ ~Fresh(u)'
    BY <1>2, <1>4 DEF Fresh
  <2>2. Flushed(u)' => Flushed(u)
    BY <1>1, <1>2, <1>4 DEF Flushed
  <2>3. SamePlace(u)
    BY <1>4, <2>1, <2>2 DEF SamePlace, At
  <2> QED BY <1>1, <1>3, <2>3, BehindKeeps
<1> QED BY <1>5, <1>6 DEF FlushInv

LEMMA ResetFlushes ==
  ASSUME SendInv, FlushInv, reset_hicann_arq
  PROVE  FlushInv'
<1>1. /\ pc = "idle" /\ pc' = "idle" /\ op' = "reset_hicann_arq" /\ Reset
      /\ UNCHANGED <<tag, callback, refused>>
  BY DEF reset_hicann_arq, May
<1>2. CallShape'
  BY <1>1 DEF FlushInv, CallShape
<1>3. ASSUME NEW u \in Tags PROVE LeftBehind(u)' /\ Clock(u)'
  <2>1. host(u) \in Endpoint /\ SendTimer[host(u)] \in T!TimerType /\ Clock(u)
    BY TagEnds, SendFacts DEF FlushInv
  <2>2. SendTimer'[host(u)] = T!Stop(SendTimer[host(u)]) /\ Waiting(u)' = 0
    <3>1. Ofs(0, 0) = 0
      BY OfsZero, PositionTypes
    <3> QED BY <1>1, <2>1, <3>1 DEF Reset, ResetPositions, Waiting
  <2>3. /\ SendTimer'[host(u)].max = SEND_TIMEOUT
        /\ ~SendTimer'[host(u)].enabled /\ ~SendTimer'[host(u)].timeout
    BY <2>1, <2>2, TimerSteps DEF Clock
  <2>4. One(Fresh(u))' = 0 /\ ~Flushed(u)'
    BY <1>1 DEF Fresh, Flushed, One
  <2> QED BY <2>2, <2>3, <2>4 DEF LeftBehind, Clock
<1> QED BY <1>2, <1>3 DEF FlushInv

LEMMA ChipFlushes ==
  ASSUME SendInv, FlushInv, Chip
  PROVE  FlushInv'
<1>1. PICK t \in Tags :
        \/ ChipReceive(t) \/ ChipExecute(t) \/ ChipRespond(t) \/ ChipSend(t) \/ Latch(t)
        \/ ChipTimeout(t)
  BY DEF Chip, ChipTimeout
<1> DEFINE c == chip(t)
<1>2. /\ TypeOK /\ c \in Endpoint /\ \A u \in Tags : host(u) \in Endpoint /\ host(u) # c
  BY TagEnds DEF SendInv
<1>3. UNCHANGED hostVars
  BY <1>1 DEF ChipReceive, ChipExecute, ChipRespond, ChipSend, Latch, ChipTimeout,
              ChipSendTimeout, ChipRecvTimeout, llVars
<1>4. \A u \in Tags : SameSend(u)
  <2>1. CASE ChipReceive(t)
    <3>1. UNCHANGED <<seqpos, sendpos>> /\ ReceiveAck(c, Head(chan[c]))
      BY <2>1 DEF ChipReceive, Receive, ReceivePacket
    <3> QED BY <1>2, <3>1 DEF ReceiveAck, TypeOK, SameSend
  <2>2. CASE ChipExecute(t) \/ Latch(t)
    BY <2>2 DEF ChipExecute, Latch, Read, sendVars, SameSend
  <2>3. CASE ChipRespond(t)
    BY <1>2, <2>3 DEF ChipRespond, Send, TypeOK, SameSend
  <2>4. CASE ChipSend(t)
    <3>1. GetSendData(c)
      BY <2>4 DEF ChipSend
    <3> QED BY <1>2, <3>1 DEF GetSendData, Resend, SendNew, SendAck, TypeOK, SameSend
  <2>5. CASE ChipTimeout(t)
    BY <1>2, <2>5 DEF ChipTimeout, ChipSendTimeout, ChipRecvTimeout, sendVars, TypeOK, SameSend
  <2> QED BY <1>1, <2>1, <2>2, <2>3, <2>4, <2>5
<1>5. CallShape'
  BY <1>3 DEF FlushInv, CallShape, hostVars
<1>6. ASSUME NEW u \in Tags PROVE SamePlace(u)
  BY <1>3 DEF hostVars, SamePlace, Fresh, Flushed, At, Caller
<1> QED BY <1>4, <1>5, <1>6, BehindKeeps DEF FlushInv

LEMMA FlushInvNext ==
  ASSUME ExecTicks, SendInv, SendInv', LinkTypes, FlushInv, [LLNext]_allVars
  PROVE  FlushInv'
<1>1. ASSUME UNCHANGED <<seqpos, wndpos, sendpos, SendTimer, op, tag, callback, pc, refused>>
      PROVE  FlushInv'
  <2>1. CallShape'
    BY <1>1 DEF FlushInv, CallShape
  <2>2. \A u \in Tags : SameSend(u) /\ SamePlace(u)
    BY <1>1 DEF SameSend, SamePlace, Fresh, Flushed, At, Caller
  <2> QED BY <2>1, <2>2, BehindKeeps DEF FlushInv
<1>2. CASE UNCHANGED allVars
  BY <1>1, <1>2 DEF allVars, vars, sendVars, llVars, hostVars
<1>3. CASE Chip
  BY <1>3, ChipFlushes
<1>4. CASE Return
  BY <1>4, ExecFlushes, PutFlushes, TickFlushes, GateFlushes, TockFlushes, ReturnFlushes DEF Return
<1>5. CASE Call
  <2>1. ASSUME NEW t \in Tags, recvData(t) PROVE FlushInv'
    BY <1>1, <2>1 DEF recvData, vars, sendVars
  <2> QED BY <1>5, <2>1, IssueFlushes, ReturnFlushes, ResetFlushes DEF Call
<1> QED BY <1>2, <1>3, <1>4, <1>5 DEF LLNext

LEMMA FlushInvInit == LLInit => FlushInv
<1> SUFFICES ASSUME LLInit PROVE FlushInv
  OBVIOUS
<1>1. /\ Init /\ pc = "idle" /\ op = "none" /\ callback = FALSE /\ refused = FALSE
  BY DEF LLInit
<1>2. CallShape
  BY <1>1 DEF CallShape
<1>3. ASSUME NEW u \in Tags PROVE LeftBehind(u) /\ Clock(u)
  <2>1. host(u) \in Endpoint
    BY TagEnds
  <2>2. ~SendTimer[host(u)].enabled /\ ~SendTimer[host(u)].timeout
        /\ SendTimer[host(u)].max = SEND_TIMEOUT
    BY <1>1, <2>1 DEF Init, T!NewTimers
  <2>3. Waiting(u) = 0
    <3>1. Ofs(0, 0) = 0
      BY OfsZero, PositionTypes
    <3> QED BY <1>1, <2>1, <3>1 DEF Init, Waiting
  <2>4. One(Fresh(u)) = 0
    BY <1>1 DEF Fresh, One
  <2> QED BY <2>2, <2>3, <2>4 DEF LeftBehind, Clock
<1> QED BY <1>2, <1>3 DEF FlushInv

\* Flush transmits all there is to transmit to the target (s2comm.h:117), whatever
\* calls were made before it, whatever the chip answers and however late it is.
THEOREM FlushTransmitsAllHolds ==
  ASSUME ExecTicks PROVE LLSpec => []FlushTransmitsAll
<1> DEFINE Inv == SendInv /\ LinkTypes /\ FlushInv
<1>1. LLInit => Inv
  BY LinkTypesInit, FlushInvInit
<1>2. Inv /\ [LLNext]_allVars => Inv'
  BY LinkSendInv, LinkTypesNext, FlushInvNext
<1>3. Inv => FlushTransmitsAll
  <2> SUFFICES ASSUME Inv, pc = "idle", op = "Flush", NEW t \in Tags PROVE ~HasUnsent(host(t))
    BY DEF FlushTransmitsAll
  <2>1. Flushed(t) /\ LeftBehind(t)
    BY DEF Flushed, FlushInv
  <2> QED BY <2>1, SendFacts DEF LeftBehind
<1> QED BY <1>1, <1>2, <1>3, PTL DEF LLSpec
=============================================================================
