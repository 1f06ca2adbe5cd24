------------------------ MODULE RealtimeLink_proofs ------------------------
(***************************************************************************)
(* The rings shared with the kernel, for any size, any number of packets   *)
(* and both kinds of senders: frames a program holds are left alone until  *)
(* it frees them, as long as the kernel has not come round to the oldest,  *)
(* and what a host queues is received once and in its order by the other.  *)
(* The rounds of sync() on a link it has for itself: one packet is on its  *)
(* way, the request or its answer.                                         *)
(***************************************************************************)
EXTENDS RealtimeLink, FiniteSetTheorems, WellFoundedInduction, TLAPS

LEMMA OtherHost == \A h \in Host : Other(h) \in Host
BY DEF Host, Other

LEMMA NextValue ==
  ASSUME NEW i \in Slots
  PROVE  Next1(i) = IF i = RING_COUNT - 1 THEN 0 ELSE i + 1
<1>1. RING_COUNT \in Nat \ {0} /\ i \in 0 .. RING_COUNT - 1
  BY RealtimeAssumption DEF Slots
<1>2. CASE i = RING_COUNT - 1
  <2>1. RING_COUNT % RING_COUNT = 0
    BY <1>1
  <2>2. i + 1 = RING_COUNT
    BY <1>1, <1>2
  <2> QED BY <1>2, <2>1, <2>2 DEF Next1
<1>3. CASE i # RING_COUNT - 1
  <2>1. i + 1 \in 0 .. RING_COUNT - 1
    BY <1>1, <1>3
  <2>2. \A j \in 0 .. RING_COUNT - 1 : j % RING_COUNT = j
    BY <1>1
  <2> QED BY <1>3, <2>1, <2>2 DEF Next1
<1> QED BY <1>2, <1>3

LEMMA NextInSlots == \A i \in Slots : Next1(i) \in Slots
BY NextValue, RealtimeAssumption DEF Slots

\* A set of numbers has a first one: sendto knows how many frames it sends.
LEMMA Least ==
  ASSUME NEW S \in SUBSET Nat, S # {}
  PROVE  \E c \in S : \A d \in S : c <= d
<1>1. PICK c \in S : \A d \in S : ~(<<d, c>> \in OpToRel(<, Nat))
  BY WFMin, NatLessThanWellFounded, Zenon
<1>2. ASSUME NEW d \in S PROVE c <= d
  <2>1. <<d, c>> \in Nat \X Nat
    BY SMT
  <2>2. <<d, c>> \notin {p \in Nat \X Nat : p[1] < p[2]}
    BY <1>1, Zenon DEF OpToRel
  <2>3. ~(<<d, c>>[1] < <<d, c>>[2])
    BY <2>1, <2>2
  <2> QED BY <2>3
<1> QED BY <1>2

\* sendto finds a run of requests.
LEMMA RequestedRun ==
  ASSUME TypeOK, NEW h \in Host
  PROVE  \E n \in 0 .. RING_COUNT :
           /\ Requested(h) = [k \in 1 .. n |-> (tx_head[h] + (k - 1)) % RING_COUNT]
           /\ \A j \in 0 .. n - 1 : tx[h][(tx_head[h] + j) % RING_COUNT].status = "SEND_REQUEST"
           /\ n < RING_COUNT =>
                tx[h][(tx_head[h] + n) % RING_COUNT].status # "SEND_REQUEST"
<1> DEFINE slot(k) == (tx_head[h] + k) % RING_COUNT
           waiting(k) == tx[h][slot(k)].status = "SEND_REQUEST"
           stops(k) == /\ \A j \in 0 .. k - 1 : waiting(j)
                       /\ k < RING_COUNT => ~waiting(k)
           n == CHOOSE k \in 0 .. RING_COUNT : stops(k)
           S == {k \in 0 .. RING_COUNT : k = RING_COUNT \/ ~waiting(k)}
<1>1. RING_COUNT \in Nat \ {0}
  BY RealtimeAssumption
<1>2. n \in 0 .. RING_COUNT /\ stops(n)
  <2>1. S \in SUBSET Nat /\ RING_COUNT \in S
    BY <1>1
  <2>2. PICK c \in S : \A d \in S : c <= d
    <3> HIDE DEF S
    <3> QED BY <2>1, Least
  <2>3. ASSUME NEW j \in 0 .. c - 1 PROVE waiting(j)
    <3>1. j \in 0 .. RING_COUNT /\ ~(c <= j)
      BY <1>1
    <3>2. j \notin S
      BY <2>2, <3>1
    <3> QED BY <3>1, <3>2
  <2>4. c < RING_COUNT => ~waiting(c)
    BY <1>1
  <2>5. c \in 0 .. RING_COUNT /\ stops(c)
    BY <2>3, <2>4
  <2> HIDE DEF stops
  <2> QED BY <2>5
<1>3. Requested(h) = [k \in 1 .. n |-> slot(k - 1)]
  BY DEF Requested
<1> HIDE DEF n
<1> QED BY <1>2, <1>3

LEMMA RequestedType ==
  ASSUME TypeOK, NEW h \in Host
  PROVE  Requested(h) \in Seq(Slots)
<1>1. RING_COUNT \in Nat \ {0} /\ tx_head[h] \in 0 .. RING_COUNT - 1
  BY RealtimeAssumption DEF TypeOK, Slots
<1>2. PICK n \in 0 .. RING_COUNT :
        Requested(h) = [k \in 1 .. n |-> (tx_head[h] + (k - 1)) % RING_COUNT]
  BY RequestedRun
<1>3. n \in Nat /\ \A k \in 1 .. n : (tx_head[h] + (k - 1)) % RING_COUNT \in Slots
  BY <1>1 DEF Slots
<1> QED BY <1>2, <1>3

LEMMA SpikesType ==
  ASSUME TypeOK, NEW h \in Host
  PROVE  Spikes(h) \in Nat
<1> DEFINE D == DOMAIN queued[h]
           T == {k \in D : queued[h][k].type = "SPIKES" /\ queued[h][k].no > 0}
<1>1. queued[h] \in Seq(Packet)
  BY DEF TypeOK
<1>2. D = 1 .. Len(queued[h]) /\ Len(queued[h]) \in Nat
  BY <1>1
<1>3. IsFiniteSet(D)
  <2>1. IsFiniteSet(1 .. Len(queued[h]))
    BY <1>2, FS_Interval
  <2> QED BY <1>2, <2>1
<1>4. IsFiniteSet(T)
  <2>1. T \subseteq D
    OBVIOUS
  <2> HIDE DEF T, D
  <2> QED BY <1>3, <2>1, FS_Subset
<1>5. Cardinality(T) \in Nat
  BY <1>4, FS_CardinalityType
<1> QED BY <1>5 DEF Spikes
-----------------------------------------------------------------------------
(* Types.                                                                  *)

LEMMA PacketTypes ==
  /\ KERNEL \in Packet /\ Foreign \in Packet /\ EndOfSync \in Packet
  /\ \A n \in Int : Sync(n) \in Packet /\ Spike(n) \in Packet
BY DEF KERNEL, Foreign, EndOfSync, Sync, Spike, Packet

LEMMA TypeInit == ASSUME Init PROVE TypeOK
<1>1. 0 \in Slots
  BY RealtimeAssumption DEF Slots
<1>2. AVAILABLE \in [status : {"AVAILABLE", "SEND_REQUEST", "SENDING"}, packet : Packet]
  BY PacketTypes DEF AVAILABLE
<1>3. Idle \in [at : {"idle", "queue", "send", "receive", "wait", "free"},
               mode : {"user", "sync"}, i : Nat, packet : Packet]
  BY PacketTypes DEF Idle
<1>4. /\ net = [h \in Host |-> <<>>] /\ queued = [h \in Host |-> <<>>]
      /\ delivered = [h \in Host |-> <<>>] /\ samples = <<>>
  BY DEF Init
<1>5. /\ net \in [Host -> Seq(Packet)] /\ samples \in Seq(Int \X Int)
      /\ queued \in [Host -> Seq(Packet)] /\ delivered \in [Host -> Seq(Packet)]
  BY <1>4
<1>6. /\ tx_ring_idx \in [Host -> Slots] /\ tx_head \in [Host -> Slots]
      /\ rx_ring_idx \in [Host -> Slots] /\ old_rx_ring_idx \in [Host -> Slots]
      /\ rx_head \in [Host -> Slots]
  BY <1>1 DEF Init
<1>7. tx \in [Host -> [Slots -> [status : {"AVAILABLE", "SEND_REQUEST", "SENDING"},
                               packet : Packet]]]
  BY <1>2 DEF Init
<1>8. rx \in [Host -> [Slots -> Packet]] /\ held \in [Host -> SUBSET Frame]
  BY PacketTypes DEF Init
<1>9. /\ op \in [Host -> [at : {"idle", "queue", "send", "receive", "wait", "free"},
                         mode : {"user", "sync"}, i : Nat, packet : Packet]]
      /\ lapped \in [Host -> BOOLEAN] /\ lost \in BOOLEAN /\ syncs \in Nat /\ foreign \in Nat
  BY <1>3 DEF Init
<1> QED BY <1>5, <1>6, <1>7, <1>8, <1>9 DEF TypeOK

\* sendto leaves the rings and the network well-formed.
LEMMA SendtoType ==
  ASSUME TypeOK, NEW h \in Host, Sendto(h)
  PROVE  /\ tx' \in [Host -> [Slots -> [status : {"AVAILABLE", "SEND_REQUEST", "SENDING"},
                                        packet : Packet]]]
         /\ tx_head' \in [Host -> Slots]
         /\ net' \in [Host -> Seq(Packet)]
<1> DEFINE slots == Requested(h)
           sent == [k \in DOMAIN slots |-> tx[h][slots[k]].packet]
<1>1. slots \in Seq(Slots)
  BY RequestedType
<1>2. Len(slots) \in Nat /\ DOMAIN slots = 1 .. Len(slots) /\ \A k \in DOMAIN slots : slots[k] \in Slots
  BY <1>1
<1>3. sent \in Seq(Packet)
  <2>1. \A k \in 1 .. Len(slots) : tx[h][slots[k]].packet \in Packet
    <3>1. \A i \in Slots : tx[h][i].packet \in Packet
      BY DEF TypeOK
    <3> HIDE DEF slots
    <3> QED BY <1>2, <3>1
  <2> HIDE DEF slots
  <2>2. sent = [k \in 1 .. Len(slots) |-> tx[h][slots[k]].packet]
    BY <1>2
  <2> QED BY <1>2, <2>1, <2>2
<1> HIDE DEF slots
<1>4. (tx_head[h] + Len(slots)) % RING_COUNT \in Slots
  <2>1. RING_COUNT \in Nat \ {0} /\ tx_head[h] \in Nat
    BY RealtimeAssumption DEF TypeOK, Slots
  <2>2. tx_head[h] + Len(slots) \in Nat
    BY <1>2, <2>1
  <2>3. \A m \in Nat : m % RING_COUNT \in 0 .. RING_COUNT - 1
    BY <2>1
  <2> QED BY <2>2, <2>3 DEF Slots
<1>5. /\ tx' = [tx EXCEPT ![h] = [i \in Slots |->
                  IF i \in ToSet(slots) THEN [tx[h][i] EXCEPT !.status = "SENDING"] ELSE tx[h][i]]]
      /\ net' = [net EXCEPT ![Other(h)] = net[Other(h)] \o sent]
      /\ tx_head' = [tx_head EXCEPT ![h] = (tx_head[h] + Len(slots)) % RING_COUNT]
  BY DEF Sendto, TypeOK, slots
<1>6. net[Other(h)] \o sent \in Seq(Packet)
  <2> HIDE DEF sent
  <2> QED BY <1>3, OtherHost DEF TypeOK
<1> HIDE DEF sent
<1>7. ASSUME NEW i \in Slots
      PROVE  (IF i \in ToSet(slots) THEN [tx[h][i] EXCEPT !.status = "SENDING"] ELSE tx[h][i])
               \in [status : {"AVAILABLE", "SEND_REQUEST", "SENDING"}, packet : Packet]
  <2>1. tx[h][i] \in [status : {"AVAILABLE", "SEND_REQUEST", "SENDING"}, packet : Packet]
    BY DEF TypeOK
  <2>2. [tx[h][i] EXCEPT !.status = "SENDING"]
          \in [status : {"AVAILABLE", "SEND_REQUEST", "SENDING"}, packet : Packet]
    BY <2>1
  <2> QED BY <2>1, <2>2
<1>8. tx' \in [Host -> [Slots -> [status : {"AVAILABLE", "SEND_REQUEST", "SENDING"},
                                  packet : Packet]]]
  BY <1>5, <1>7 DEF TypeOK
<1> QED BY <1>4, <1>5, <1>6, <1>8 DEF TypeOK

\* A frame taken from the ring.
LEMMA TakeType ==
  ASSUME TypeOK, NEW h \in Host, Take(h)
  PROVE  /\ rx' \in [Host -> [Slots -> Packet]] /\ rx_ring_idx' \in [Host -> Slots]
         /\ held' \in [Host -> SUBSET Frame] /\ delivered' \in [Host -> Seq(Packet)]
         /\ UNCHANGED <<txVars, old_rx_ring_idx, rx_head, lapped, net, queued, syncs, lost, foreign>>
         /\ Current(h) \in Packet
<1>1. Current(h) \in Packet /\ rx_ring_idx[h] \in Slots /\ Next1(rx_ring_idx[h]) \in Slots
  BY NextInSlots DEF TypeOK, Current
<1>2. [slot |-> rx_ring_idx[h], packet |-> Current(h)] \in Frame
  BY <1>1 DEF Frame
<1>3. Append(delivered[h], Current(h)) \in Seq(Packet)
  BY <1>1 DEF TypeOK
<1>4. held' \in [Host -> SUBSET Frame] /\ delivered' \in [Host -> Seq(Packet)]
  <2>1. held[h] \cup {[slot |-> rx_ring_idx[h], packet |-> Current(h)]} \in SUBSET Frame
    BY <1>2 DEF TypeOK
  <2>2. /\ held' = held \/ held' = [held EXCEPT ![h] =
                     held[h] \cup {[slot |-> rx_ring_idx[h], packet |-> Current(h)]}]
        /\ delivered' = delivered
           \/ delivered' = [delivered EXCEPT ![h] = Append(delivered[h], Current(h))]
    BY DEF Take, TypeOK
  <2>3. held \in [Host -> SUBSET Frame] /\ delivered \in [Host -> Seq(Packet)]
    BY DEF TypeOK
  <2>4. held' \in [Host -> SUBSET Frame]
    BY <2>1, <2>2, <2>3
  <2>5. delivered' \in [Host -> Seq(Packet)]
    BY <1>3, <2>2, <2>3
  <2> QED BY <2>4, <2>5
<1>5. rx' \in [Host -> [Slots -> Packet]] /\ rx_ring_idx' \in [Host -> Slots]
  BY <1>1 DEF TypeOK, Take, Kept
<1> QED BY <1>1, <1>4, <1>5 DEF Take

\* The kernel writes a frame or drops it.
LEMMA FillType ==
  ASSUME TypeOK, NEW h \in Host, NEW p \in Packet, Fill(h, p)
  PROVE  /\ rx' \in [Host -> [Slots -> Packet]] /\ rx_head' \in [Host -> Slots]
         /\ lapped' \in [Host -> BOOLEAN]
<1>1. rx_head[h] \in Slots /\ Next1(rx_head[h]) \in Slots
  BY NextInSlots DEF TypeOK
<1>2. CASE rx[h][rx_head[h]] = KERNEL
  <2>1. /\ rx' = [rx EXCEPT ![h][rx_head[h]] = p]
        /\ rx_head' = [rx_head EXCEPT ![h] = Next1(rx_head[h])]
        /\ lapped' = [lapped EXCEPT ![h] = lapped[h] \/ Next1(rx_head[h]) = old_rx_ring_idx[h]]
    BY <1>2 DEF Fill, TypeOK
  <2>2. (lapped[h] \/ Next1(rx_head[h]) = old_rx_ring_idx[h]) \in BOOLEAN
    BY DEF TypeOK
  <2>3. lapped' \in [Host -> BOOLEAN]
    BY <2>1, <2>2, Zenon DEF TypeOK
  <2> QED BY <1>1, <2>1, <2>3 DEF TypeOK
<1>3. CASE rx[h][rx_head[h]] # KERNEL
  BY <1>3 DEF Fill, TypeOK
<1> QED BY <1>2, <1>3

CallState == [at : {"idle", "queue", "send", "receive", "wait", "free"},
         mode : {"user", "sync"}, i : Nat, packet : Packet]

LEMMA OpType ==
  ASSUME TypeOK, NEW h \in Host
  PROVE  /\ op[h] \in CallState
         /\ AfterFree(h) \in CallState /\ AfterSend(h) \in CallState
         /\ \A p \in Packet : Answering(p) \in CallState
<1>1. op[h] \in CallState
  BY DEF TypeOK, CallState
<1>2. Idle \in CallState
  BY PacketTypes DEF Idle, CallState
<1>3. [op[h] EXCEPT !.at = "wait"] \in CallState /\ [op[h] EXCEPT !.at = "free"] \in CallState
  BY <1>1 DEF CallState
<1>4. AfterFree(h) \in CallState
  <2>1. op[h].i + 1 \in Nat
    BY <1>1 DEF CallState
  <2>2. (syncs - 1) * iters + op[h].i + 1 \in Int
    <3>1. syncs - 1 \in Int /\ iters \in Int
      BY RealtimeAssumption DEF TypeOK
    <3>2. (syncs - 1) * iters \in Int
      BY <3>1
    <3> QED BY <2>1, <3>2, <1>1 DEF CallState
  <2>3. CASE h = "slave"
    BY <2>3, <1>2, <1>3 DEF AfterFree
  <2>4. CASE h # "slave"
    <3> DEFINE i == op[h].i + 1
               p == IF i < iters THEN Sync((syncs - 1) * iters + i + 1) ELSE EndOfSync
    <3>1. (syncs - 1) * iters + i + 1 \in Int
      <4>1. (syncs - 1) * iters \in Int
        BY RealtimeAssumption DEF TypeOK
      <4> QED BY <2>1, <4>1
    <3>2. p \in Packet
      BY <3>1, PacketTypes
    <3>3. AfterFree(h) = [at |-> "queue", mode |-> "sync", i |-> i, packet |-> p]
      BY <2>4 DEF AfterFree
    <3> HIDE DEF p
    <3> QED BY <2>1, <3>2, <3>3 DEF CallState
  <2> QED BY <2>3, <2>4
<1>5. AfterSend(h) \in CallState
  BY <1>2, <1>3 DEF AfterSend, Host
<1>6. ASSUME NEW p \in Packet PROVE Answering(p) \in CallState
  <2>1. p.no \in Int
    BY DEF Packet, KERNEL
  <2>2. Sync(p.no) \in Packet
    BY <2>1, PacketTypes
  <2> QED BY <2>2 DEF Answering, CallState
<1> QED BY <1>1, <1>4, <1>5, <1>6

LEMMA TypeStep == ASSUME TypeOK, [Next]_vars PROVE TypeOK'
<1>1. ASSUME NEW h \in Host, QueueStep(h) PROVE TypeOK'
  <2>1. op[h] \in CallState /\ Idle \in CallState /\ [op[h] EXCEPT !.at = "send"] \in CallState
    BY OpType, PacketTypes DEF CallState, Idle
  <2>2. op' \in [Host -> CallState]
    BY <1>1, <2>1 DEF QueueStep, Goto, TypeOK, CallState
  <2>3. op[h].packet \in Packet
    BY <2>1 DEF CallState
  <2>4. tx_ring_idx[h] \in Slots /\ Next1(tx_ring_idx[h]) \in Slots
    BY NextInSlots DEF TypeOK
  <2>5. tx_ring_idx' \in [Host -> Slots]
    BY <1>1, <2>4 DEF QueueStep, TypeOK
  <2>6. tx' \in [Host -> [Slots -> [status : {"AVAILABLE", "SEND_REQUEST", "SENDING"},
                                    packet : Packet]]]
    BY <1>1, <2>3, <2>4 DEF QueueStep, TypeOK
  <2>7. queued' \in [Host -> Seq(Packet)]
    <3>1. Append(queued[h], op[h].packet) \in Seq(Packet)
      BY <2>3 DEF TypeOK
    <3> QED BY <1>1, <3>1 DEF QueueStep, TypeOK
  <2> QED BY <1>1, <2>2, <2>5, <2>6, <2>7 DEF QueueStep, rxVars, TypeOK, CallState
<1>2. ASSUME NEW h \in Host, Drop(h) PROVE TypeOK'
  <2>1. rx_ring_idx[h] \in Slots /\ Next1(rx_ring_idx[h]) \in Slots
    BY NextInSlots DEF TypeOK
  <2>2. rx' \in [Host -> [Slots -> Packet]] /\ rx_ring_idx' \in [Host -> Slots]
    BY <1>2, <2>1, PacketTypes DEF Drop, TypeOK
  <2> QED BY <1>2, <2>2 DEF Drop, txVars, TypeOK
<1>3. ASSUME NEW h \in Host, ReceiveStep(h) PROVE TypeOK'
  <2>1. CASE Take(h) /\ UNCHANGED <<op, samples>>
    BY <2>1, TakeType DEF txVars, TypeOK
  <2>2. CASE op' = [op EXCEPT ![h] = Idle]
             /\ UNCHANGED <<txVars, rxVars, net, queued, delivered, samples, syncs, lost, foreign>>
    <3>1. op' \in [Host -> CallState]
      BY <2>2, PacketTypes DEF Idle, CallState, TypeOK
    <3> QED BY <2>2, <3>1 DEF txVars, rxVars, TypeOK, CallState
  <2> QED BY <1>3, <2>1, <2>2 DEF ReceiveStep
<1>4. ASSUME NEW h \in Host, FreeStep(h) PROVE TypeOK'
  <2>1. old_rx_ring_idx[h] \in Slots /\ Next1(old_rx_ring_idx[h]) \in Slots
    BY NextInSlots DEF TypeOK
  <2>2. AfterFree(h) \in CallState /\ Idle \in CallState
    BY OpType, PacketTypes DEF Idle, CallState
  <2>3. op' \in [Host -> CallState]
    <3>1. op \in [Host -> CallState]
      BY DEF TypeOK, CallState
    <3>2. op' = op \/ \E c \in CallState : op' = [op EXCEPT ![h] = c]
      BY <1>4, <2>2 DEF FreeStep
    <3> QED BY <3>1, <3>2
  <2>4. /\ rx' \in [Host -> [Slots -> Packet]] /\ old_rx_ring_idx' \in [Host -> Slots]
        /\ held' \in [Host -> SUBSET Frame]
    <3>1. CASE Freed(h)
      BY <1>4, <3>1 DEF FreeStep, TypeOK
    <3>2. CASE ~Freed(h)
      <4>1. /\ rx' = [rx EXCEPT ![h][old_rx_ring_idx[h]] = KERNEL]
            /\ old_rx_ring_idx' = [old_rx_ring_idx EXCEPT ![h] = Next1(old_rx_ring_idx[h])]
            /\ held' = [held EXCEPT ![h] = {f \in held[h] : f.slot # old_rx_ring_idx[h]}]
        BY <1>4, <3>2 DEF FreeStep, TypeOK
      <4>2. {f \in held[h] : f.slot # old_rx_ring_idx[h]} \in SUBSET Frame
        BY DEF TypeOK
      <4> QED BY <2>1, <4>1, <4>2, PacketTypes DEF TypeOK
    <3> QED BY <3>1, <3>2
  <2> QED BY <1>4, <2>3, <2>4 DEF FreeStep, txVars, TypeOK, CallState
<1>5. ASSUME NEW h \in Host, SyncSend(h) PROVE TypeOK'
  <2>1. op' \in [Host -> CallState]
    BY <1>5, OpType DEF SyncSend, TypeOK, CallState
  <2>2. /\ tx' \in [Host -> [Slots -> [status : {"AVAILABLE", "SEND_REQUEST", "SENDING"},
                                       packet : Packet]]]
        /\ tx_head' \in [Host -> Slots] /\ net' \in [Host -> Seq(Packet)]
    BY <1>5, SendtoType DEF SyncSend, SendOrSkip, TypeOK
  <2> QED BY <1>5, <2>1, <2>2 DEF SyncSend, rxVars, TypeOK, CallState
<1>6. ASSUME NEW h \in Host, SyncWait(h) PROVE TypeOK'
  <2>1. Current(h) \in Packet /\ op[h] \in CallState
    BY <1>6, TakeType, OpType DEF SyncWait
  <2>2. Answering(Current(h)) \in CallState /\ [op[h] EXCEPT !.at = "free"] \in CallState
    BY <2>1, OpType DEF CallState
  <2>3. op' \in [Host -> CallState]
    BY <1>6, <2>2 DEF SyncWait, Goto, TypeOK, CallState
  <2>4. samples' \in Seq(Int \X Int)
    <3>1. op[h].packet.no \in Int /\ Current(h).no \in Int
      BY <2>1 DEF CallState, Packet, KERNEL
    <3>2. Append(samples, <<op[h].packet.no, Current(h).no>>) \in Seq(Int \X Int)
      BY <3>1 DEF TypeOK
    <3> QED BY <1>6, <3>2 DEF SyncWait, TypeOK
  <2> QED BY <1>6, <2>3, <2>4, TakeType DEF SyncWait, txVars, TypeOK, CallState
<1>7. ASSUME NEW h \in Host, TxDone(h) PROVE TypeOK'
  <2>1. AVAILABLE \in [status : {"AVAILABLE", "SEND_REQUEST", "SENDING"}, packet : Packet]
    BY PacketTypes DEF AVAILABLE
  <2>2. tx' \in [Host -> [Slots -> [status : {"AVAILABLE", "SEND_REQUEST", "SENDING"},
                                    packet : Packet]]]
    BY <1>7, <2>1 DEF TxDone, TypeOK
  <2> QED BY <1>7, <2>2 DEF TxDone, rxVars, TypeOK
<1>8. ASSUME NEW h \in Host, Arrive(h) PROVE TypeOK'
  <2>1. net[h] \in Seq(Packet) /\ net[h] # <<>>
    BY <1>8 DEF Arrive, TypeOK
  <2>2. Head(net[h]) \in Packet /\ Tail(net[h]) \in Seq(Packet)
    BY <2>1
  <2>3. net' \in [Host -> Seq(Packet)]
    BY <1>8, <2>2 DEF Arrive, TypeOK
  <2> QED BY <1>8, <2>2, <2>3, FillType DEF Arrive, txVars, TypeOK
<1>9. ASSUME NEW h \in Host, OtherTraffic(h) PROVE TypeOK'
  <2>1. Foreign \in Packet /\ Fill(h, Foreign) /\ foreign' = foreign + 1
    BY <1>9, PacketTypes DEF OtherTraffic
  <2>2. /\ rx' \in [Host -> [Slots -> Packet]] /\ rx_head' \in [Host -> Slots]
        /\ lapped' \in [Host -> BOOLEAN]
    BY <2>1, FillType
  <2>3. foreign' \in Nat
    BY <2>1 DEF TypeOK
  <2> QED BY <1>9, <2>2, <2>3 DEF OtherTraffic, txVars, TypeOK
<1>10. ASSUME NEW h \in Host, Lose(h) PROVE TypeOK'
  <2>1. net[h] \in Seq(Packet) /\ net[h] # <<>>
    BY <1>10 DEF Lose, TypeOK
  <2>2. Tail(net[h]) \in Seq(Packet)
    BY <2>1
  <2>3. net' \in [Host -> Seq(Packet)]
    BY <1>10, <2>2 DEF Lose, TypeOK
  <2> QED BY <1>10, <2>3 DEF Lose, txVars, rxVars, TypeOK
<1>11. ASSUME NEW h \in Host, send_thread(h) \/ send(h) PROVE TypeOK'
  <2>1. /\ tx' \in [Host -> [Slots -> [status : {"AVAILABLE", "SEND_REQUEST", "SENDING"},
                                       packet : Packet]]]
        /\ tx_head' \in [Host -> Slots] /\ net' \in [Host -> Seq(Packet)]
    BY <1>11, SendtoType DEF send_thread, send, SendOrSkip, TypeOK
  <2> QED BY <1>11, <2>1 DEF send_thread, send, rxVars, TypeOK
\* The calls begin at a host without one.
<1>12. ASSUME NEW h \in Host, queue_spike(h) \/ receive(h) \/ free_receive(h) \/ sync(h)
       PROVE  TypeOK'
  <2>1. op \in [Host -> CallState] /\ Idle \in CallState
    BY PacketTypes DEF TypeOK, CallState, Idle
  <2>2. Spike(Spikes(h) + 1) \in Packet
    <3>1. Spikes(h) + 1 \in Int
      BY SpikesType
    <3> HIDE DEF Spikes
    <3> QED BY <3>1, PacketTypes
  <2>3. Sync(syncs * iters + 1) \in Packet
    <3>1. syncs * iters + 1 \in Int
      BY RealtimeAssumption DEF TypeOK
    <3> QED BY <3>1, PacketTypes
  <2>4. /\ [Idle EXCEPT !.at = "queue", !.packet = Spike(Spikes(h) + 1)] \in CallState
        /\ [Idle EXCEPT !.at = "wait", !.mode = "sync"] \in CallState
        /\ [op[h] EXCEPT !.at = "receive"] \in CallState /\ [op[h] EXCEPT !.at = "free"] \in CallState
    BY <2>1, <2>2 DEF CallState
  <2>5. [at |-> "queue", mode |-> "sync", i |-> 0, packet |-> Sync(syncs * iters + 1)] \in CallState
    BY <2>3 DEF CallState
  <2>6. op' \in [Host -> CallState]
    <3>1. \E c \in CallState : op' = [op EXCEPT ![h] = c]
      BY <1>12, <2>1, <2>4, <2>5 DEF queue_spike, receive, free_receive, sync, Goto
    <3> QED BY <2>1, <3>1
  <2>7. syncs' \in Nat
    BY <1>12 DEF queue_spike, receive, free_receive, sync, TypeOK
  <2>8. UNCHANGED <<txVars, rxVars, net, queued, delivered, samples, lost, foreign>>
    BY <1>12 DEF queue_spike, receive, free_receive, sync, Call
  <2> QED BY <2>6, <2>7, <2>8 DEF txVars, rxVars, TypeOK, CallState
<1>13. CASE UNCHANGED vars
  BY <1>13 DEF vars, txVars, rxVars, TypeOK
<1> QED BY <1>1, <1>2, <1>3, <1>4, <1>5, <1>6, <1>7, <1>8, <1>9, <1>10, <1>11, <1>12, <1>13
     DEF Next, Step, SyncStep, Kernel

\* Slots, indices, packets and calls are what they are declared to be, for
\* rings of every size: an index never leaves its ring (RealtimeComm.h:395).
THEOREM TypeCorrect == Spec => []TypeOK
BY TypeInit, TypeStep, PTL DEF Spec
-----------------------------------------------------------------------------
(* From the oldest frame that is not freed on, the receive ring has three  *)
(* parts: frames taken or dropped, frames to be taken, and the kernel's.   *)

\* How far a slot is ahead of another.
Dist(s, o) == IF s >= o THEN s - o ELSE (s + RING_COUNT) - o

LEMMA DistFacts ==
  ASSUME NEW s \in Slots, NEW o \in Slots
  PROVE  /\ Dist(s, o) \in 0 .. RING_COUNT - 1
         /\ Dist(s, o) = 0 <=> s = o
         /\ Dist(o, Next1(o)) = RING_COUNT - 1
         /\ s # o => Dist(s, Next1(o)) = Dist(s, o) - 1
         /\ Next1(s) # o => Dist(Next1(s), o) = Dist(s, o) + 1
         /\ \A t \in Slots : Dist(s, o) = Dist(t, o) => s = t
<1>1. RING_COUNT \in Nat \ {0} /\ s \in 0 .. RING_COUNT - 1 /\ o \in 0 .. RING_COUNT - 1
  BY RealtimeAssumption DEF Slots
<1>2. /\ Next1(s) = IF s = RING_COUNT - 1 THEN 0 ELSE s + 1
      /\ Next1(o) = IF o = RING_COUNT - 1 THEN 0 ELSE o + 1
  BY NextValue
<1> HIDE DEF Next1
<1>3. /\ Dist(s, o) \in 0 .. RING_COUNT - 1 /\ (Dist(s, o) = 0 <=> s = o)
      /\ \A t \in 0 .. RING_COUNT - 1 : Dist(s, o) = Dist(t, o) => s = t
  BY <1>1 DEF Dist
<1>4. Dist(o, Next1(o)) = RING_COUNT - 1
  BY <1>1, <1>2 DEF Dist
<1>5. s # o => Dist(s, Next1(o)) = Dist(s, o) - 1
  BY <1>1, <1>2 DEF Dist
<1>6. Next1(s) # o => Dist(Next1(s), o) = Dist(s, o) + 1
  BY <1>1, <1>2 DEF Dist
<1> QED BY <1>3, <1>4, <1>5, <1>6 DEF Slots

\* r, i, o, k and F are what a host has in rx, rx_ring_idx, old_rx_ring_idx,
\* rx_head and held.
Parts(r, i, o, k, F) ==
  /\ Dist(i, o) <= Dist(k, o)
  /\ \A s \in Slots : Dist(k, o) <= Dist(s, o) => r[s] = KERNEL
  /\ \A f \in F : Dist(f.slot, o) < Dist(i, o) /\ r[f.slot] = f.packet

RingParts ==
  \A h \in Host : ~lapped[h] =>
    Parts(rx[h], rx_ring_idx[h], old_rx_ring_idx[h], rx_head[h], held[h])

RingInv == TypeOK /\ RingParts

LEMMA PartsFilled ==
  ASSUME NEW r \in [Slots -> Packet], NEW i \in Slots, NEW o \in Slots, NEW k \in Slots,
         NEW F \in SUBSET Frame, NEW p \in Packet, Parts(r, i, o, k, F), Next1(k) # o
  PROVE  Parts([r EXCEPT ![k] = p], i, o, Next1(k), F)
<1>1. /\ Dist(Next1(k), o) = Dist(k, o) + 1
      /\ Dist(i, o) \in Nat /\ Dist(k, o) \in Nat
      /\ Dist(i, o) <= Dist(k, o)
  BY DistFacts DEF Parts
<1>2. ASSUME NEW s \in Slots, Dist(k, o) + 1 <= Dist(s, o) PROVE [r EXCEPT ![k] = p][s] = KERNEL
  <2>1. Dist(s, o) \in Nat
    BY DistFacts
  <2>2. Dist(k, o) <= Dist(s, o) /\ s # k
    BY <1>1, <1>2, <2>1
  <2> QED BY <2>2 DEF Parts
<1>3. ASSUME NEW f \in F
      PROVE  Dist(f.slot, o) < Dist(i, o) /\ [r EXCEPT ![k] = p][f.slot] = f.packet
  <2>1. f.slot \in Slots
    BY DEF Frame
  <2>2. Dist(f.slot, o) < Dist(i, o) /\ r[f.slot] = f.packet /\ Dist(f.slot, o) \in Nat
    BY <2>1, DistFacts DEF Parts
  <2>3. f.slot # k
    BY <1>1, <2>2
  <2> QED BY <2>1, <2>2, <2>3
<1> QED BY <1>1, <1>2, <1>3 DEF Parts

\* A frame passed by the receive index is dropped or kept.
LEMMA PartsPassed ==
  ASSUME NEW r \in [Slots -> Packet], NEW i \in Slots, NEW o \in Slots, NEW k \in Slots,
         NEW F \in SUBSET Frame, Parts(r, i, o, k, F), r[i] # KERNEL
  PROVE  /\ Parts([r EXCEPT ![i] = KERNEL], Next1(i), o, k, F)
         /\ Parts(r, Next1(i), o, k, F \cup {[slot |-> i, packet |-> r[i]]})
<1>1. /\ Dist(i, o) \in 0 .. RING_COUNT - 1 /\ Dist(k, o) \in 0 .. RING_COUNT - 1
      /\ RING_COUNT \in Nat
  BY DistFacts, RealtimeAssumption
<1>2. Dist(i, o) < Dist(k, o)
  <2>1. ~(Dist(k, o) <= Dist(i, o))
    BY DEF Parts
  <2> QED BY <1>1, <2>1
<1>3. Dist(Next1(i), o) = Dist(i, o) + 1
  <2>1. Next1(i) # o
    <3>1. SUFFICES ASSUME Next1(i) = o PROVE FALSE
      OBVIOUS
    <3>2. Dist(i, Next1(i)) = RING_COUNT - 1
      BY DistFacts
    <3> QED BY <1>1, <1>2, <3>1, <3>2
  <2> QED BY <2>1, DistFacts
<1>4. ASSUME NEW f \in F
      PROVE  /\ f.slot \in Slots /\ f.slot # i /\ r[f.slot] = f.packet
             /\ Dist(f.slot, o) < Dist(i, o) + 1
  <2>1. f.slot \in Slots
    BY DEF Frame
  <2>2. Dist(f.slot, o) < Dist(i, o) /\ r[f.slot] = f.packet /\ Dist(f.slot, o) \in Nat
    BY <2>1, DistFacts DEF Parts
  <2> QED BY <1>1, <2>1, <2>2
<1>5. Dist(i, o) + 1 <= Dist(k, o)
  BY <1>1, <1>2
<1>6. Parts([r EXCEPT ![i] = KERNEL], Next1(i), o, k, F)
  BY <1>3, <1>4, <1>5 DEF Parts
<1>7. Parts(r, Next1(i), o, k, F \cup {[slot |-> i, packet |-> r[i]]})
  <2>1. Dist(i, o) < Dist(i, o) + 1
    BY <1>1
  <2> QED BY <1>3, <1>4, <1>5, <2>1 DEF Parts
<1> QED BY <1>6, <1>7

LEMMA PartsFreed ==
  ASSUME NEW r \in [Slots -> Packet], NEW i \in Slots, NEW o \in Slots, NEW k \in Slots,
         NEW F \in SUBSET Frame, Parts(r, i, o, k, F), i # o
  PROVE  Parts([r EXCEPT ![o] = KERNEL], i, Next1(o), k, {f \in F : f.slot # o})
<1>1. /\ Dist(i, o) \in 0 .. RING_COUNT - 1 /\ Dist(k, o) \in 0 .. RING_COUNT - 1
      /\ Dist(i, o) <= Dist(k, o) /\ Dist(i, o) # 0 /\ RING_COUNT \in Nat
  BY DistFacts, RealtimeAssumption DEF Parts
<1>2. k # o
  BY <1>1, DistFacts
<1>3. Dist(i, Next1(o)) = Dist(i, o) - 1 /\ Dist(k, Next1(o)) = Dist(k, o) - 1
  BY <1>2, DistFacts
<1>4. ASSUME NEW s \in Slots, Dist(k, o) - 1 <= Dist(s, Next1(o))
      PROVE  [r EXCEPT ![o] = KERNEL][s] = KERNEL
  <2>1. CASE s # o
    <3>1. Dist(s, Next1(o)) = Dist(s, o) - 1 /\ Dist(s, o) \in Nat
      BY <2>1, DistFacts
    <3>2. Dist(k, o) <= Dist(s, o)
      BY <1>1, <1>4, <3>1
    <3> QED BY <2>1, <3>2 DEF Parts
  <2> QED BY <2>1
<1>5. ASSUME NEW f \in {g \in F : g.slot # o}
      PROVE  Dist(f.slot, Next1(o)) < Dist(i, o) - 1 /\ [r EXCEPT ![o] = KERNEL][f.slot] = f.packet
  <2>1. f.slot \in Slots /\ f.slot # o
    BY DEF Frame
  <2>2. Dist(f.slot, o) < Dist(i, o) /\ r[f.slot] = f.packet /\ Dist(f.slot, o) \in Nat
    BY <2>1, DistFacts DEF Parts
  <2>3. Dist(f.slot, Next1(o)) = Dist(f.slot, o) - 1
    BY <2>1, DistFacts
  <2>4. Dist(f.slot, Next1(o)) < Dist(i, o) - 1
    BY <1>1, <2>2, <2>3
  <2> QED BY <2>1, <2>2, <2>4
<1>6. Dist(i, o) - 1 <= Dist(k, o) - 1
  BY <1>1
<1> QED BY <1>3, <1>4, <1>5, <1>6 DEF Parts

LEMMA RingInit == ASSUME Init PROVE RingParts
<1>1. 0 \in Slots
  BY RealtimeAssumption DEF Slots
<1>2. Dist(0, 0) <= Dist(0, 0)
  BY DEF Dist
<1> QED BY <1>1, <1>2 DEF Init, RingParts, Parts

\* What a step does to the parts of one host's ring.
LEMMA RingTake ==
  ASSUME RingInv, NEW h \in Host, Take(h)
  PROVE  RingParts'
<1> SUFFICES ASSUME NEW g \in Host, ~lapped'[g]
             PROVE  Parts(rx'[g], rx_ring_idx'[g], old_rx_ring_idx'[g], rx_head'[g], held'[g])
  BY DEF RingParts
<1>1. /\ rx[g] \in [Slots -> Packet] /\ rx_ring_idx[g] \in Slots /\ old_rx_ring_idx[g] \in Slots
      /\ rx_head[g] \in Slots /\ held[g] \in SUBSET Frame
  BY DEF RingInv, TypeOK
<1>2. Parts(rx[g], rx_ring_idx[g], old_rx_ring_idx[g], rx_head[g], held[g])
  BY DEF RingInv, RingParts, Take
<1>3. CASE g = h
  <2>1. /\ rx'[g] = rx[g] /\ rx_ring_idx'[g] = Next1(rx_ring_idx[g])
        /\ old_rx_ring_idx'[g] = old_rx_ring_idx[g] /\ rx_head'[g] = rx_head[g]
        /\ held'[g] = held[g] \cup {[slot |-> rx_ring_idx[g], packet |-> rx[g][rx_ring_idx[g]]]}
    BY <1>3 DEF Take, Kept, Current, RingInv, TypeOK
  <2>2. rx[g][rx_ring_idx[g]] # KERNEL
    BY <1>3 DEF Take, Current
  <2>3. Parts(rx[g], Next1(rx_ring_idx[g]), old_rx_ring_idx[g], rx_head[g],
              held[g] \cup {[slot |-> rx_ring_idx[g], packet |-> rx[g][rx_ring_idx[g]]]})
    BY <1>1, <1>2, <2>2, PartsPassed
  <2> QED BY <2>1, <2>3
<1>4. CASE g # h
  <2>1. /\ rx'[g] = rx[g] /\ rx_ring_idx'[g] = rx_ring_idx[g]
        /\ old_rx_ring_idx'[g] = old_rx_ring_idx[g] /\ rx_head'[g] = rx_head[g]
        /\ held'[g] = held[g]
    BY <1>4 DEF Take, RingInv, TypeOK
  <2> QED BY <1>2, <2>1
<1> QED BY <1>3, <1>4

LEMMA RingFill ==
  ASSUME RingInv, NEW h \in Host, NEW p \in Packet, Fill(h, p),
         UNCHANGED <<rx_ring_idx, old_rx_ring_idx, held>>
  PROVE  RingParts'
<1> SUFFICES ASSUME NEW g \in Host, ~lapped'[g]
             PROVE  Parts(rx'[g], rx_ring_idx'[g], old_rx_ring_idx'[g], rx_head'[g], held'[g])
  BY DEF RingParts
<1>1. /\ rx[g] \in [Slots -> Packet] /\ rx_ring_idx[g] \in Slots /\ old_rx_ring_idx[g] \in Slots
      /\ rx_head[g] \in Slots /\ held[g] \in SUBSET Frame
  BY DEF RingInv, TypeOK
<1>2. CASE g = h /\ rx[h][rx_head[h]] = KERNEL
  <2>1. /\ rx'[g] = [rx[g] EXCEPT ![rx_head[g]] = p] /\ rx_head'[g] = Next1(rx_head[g])
        /\ lapped'[g] = (lapped[g] \/ Next1(rx_head[g]) = old_rx_ring_idx[g])
    BY <1>2 DEF Fill, RingInv, TypeOK
  <2>2. ~lapped[g] /\ Next1(rx_head[g]) # old_rx_ring_idx[g]
    BY <2>1
  <2>3. Parts(rx[g], rx_ring_idx[g], old_rx_ring_idx[g], rx_head[g], held[g])
    BY <2>2 DEF RingInv, RingParts
  <2> QED BY <1>1, <2>1, <2>2, <2>3, PartsFilled
<1>3. CASE ~(g = h /\ rx[h][rx_head[h]] = KERNEL)
  <2>1. rx'[g] = rx[g] /\ rx_head'[g] = rx_head[g] /\ lapped'[g] = lapped[g]
    BY <1>3 DEF Fill, RingInv, TypeOK
  <2> QED BY <2>1 DEF RingInv, RingParts
<1> QED BY <1>2, <1>3

LEMMA RingDrop ==
  ASSUME RingInv, NEW h \in Host, Drop(h)
  PROVE  RingParts'
<1> SUFFICES ASSUME NEW g \in Host, ~lapped'[g]
             PROVE  Parts(rx'[g], rx_ring_idx'[g], old_rx_ring_idx'[g], rx_head'[g], held'[g])
  BY DEF RingParts
<1>1. /\ rx[g] \in [Slots -> Packet] /\ rx_ring_idx[g] \in Slots /\ old_rx_ring_idx[g] \in Slots
      /\ rx_head[g] \in Slots /\ held[g] \in SUBSET Frame
  BY DEF RingInv, TypeOK
<1>2. Parts(rx[g], rx_ring_idx[g], old_rx_ring_idx[g], rx_head[g], held[g])
  BY DEF RingInv, RingParts, Drop
<1>3. old_rx_ring_idx'[g] = old_rx_ring_idx[g] /\ rx_head'[g] = rx_head[g] /\ held'[g] = held[g]
  BY DEF Drop
<1>4. CASE g = h
  <2>1. rx'[g] = [rx[g] EXCEPT ![rx_ring_idx[g]] = KERNEL] /\ rx_ring_idx'[g] = Next1(rx_ring_idx[g])
    BY <1>4 DEF Drop, RingInv, TypeOK
  <2>2. rx[g][rx_ring_idx[g]] # KERNEL
    BY <1>4 DEF Drop, Current
  <2>3. Parts([rx[g] EXCEPT ![rx_ring_idx[g]] = KERNEL], Next1(rx_ring_idx[g]),
              old_rx_ring_idx[g], rx_head[g], held[g])
    BY <1>1, <1>2, <2>2, PartsPassed
  <2> QED BY <1>3, <2>1, <2>3
<1>5. CASE g # h
  <2>1. rx'[g] = rx[g] /\ rx_ring_idx'[g] = rx_ring_idx[g]
    BY <1>5 DEF Drop, RingInv, TypeOK
  <2> QED BY <1>2, <1>3, <2>1
<1> QED BY <1>4, <1>5

LEMMA RingFree ==
  ASSUME RingInv, NEW h \in Host, FreeStep(h)
  PROVE  RingParts'
<1> SUFFICES ASSUME NEW g \in Host, ~lapped'[g]
             PROVE  Parts(rx'[g], rx_ring_idx'[g], old_rx_ring_idx'[g], rx_head'[g], held'[g])
  BY DEF RingParts
<1>1. /\ rx[g] \in [Slots -> Packet] /\ rx_ring_idx[g] \in Slots /\ old_rx_ring_idx[g] \in Slots
      /\ rx_head[g] \in Slots /\ held[g] \in SUBSET Frame
  BY DEF RingInv, TypeOK
<1>2. Parts(rx[g], rx_ring_idx[g], old_rx_ring_idx[g], rx_head[g], held[g])
  BY DEF RingInv, RingParts, FreeStep
<1>3. rx_ring_idx'[g] = rx_ring_idx[g] /\ rx_head'[g] = rx_head[g]
  BY DEF FreeStep
<1>4. CASE g = h /\ Freed(h)
  <2>1. rx'[g] = rx[g] /\ old_rx_ring_idx'[g] = old_rx_ring_idx[g] /\ held'[g] = {}
    BY <1>4 DEF FreeStep, RingInv, TypeOK
  <2> QED BY <1>2, <1>3, <2>1 DEF Parts
<1>5. CASE g = h /\ ~Freed(h)
  <2>1. /\ rx'[g] = [rx[g] EXCEPT ![old_rx_ring_idx[g]] = KERNEL]
        /\ old_rx_ring_idx'[g] = Next1(old_rx_ring_idx[g])
        /\ held'[g] = {f \in held[g] : f.slot # old_rx_ring_idx[g]}
    BY <1>5 DEF FreeStep, RingInv, TypeOK
  <2>2. rx_ring_idx[g] # old_rx_ring_idx[g]
    BY <1>5 DEF Freed
  <2> QED BY <1>1, <1>2, <1>3, <2>1, <2>2, PartsFreed
<1>6. CASE g # h
  <2>1. rx'[g] = rx[g] /\ old_rx_ring_idx'[g] = old_rx_ring_idx[g] /\ held'[g] = held[g]
    BY <1>6 DEF FreeStep, RingInv, TypeOK
  <2> QED BY <1>2, <1>3, <2>1
<1> QED BY <1>4, <1>5, <1>6

LEMMA RingKept ==
  ASSUME RingInv, UNCHANGED rxVars
  PROVE  RingParts'
BY DEF RingInv, RingParts, rxVars

LEMMA RingStep == ASSUME RingInv, [Next]_vars PROVE RingInv'
<1>1. TypeOK'
  BY TypeStep DEF RingInv
<1>2. ASSUME NEW h \in Host, QueueStep(h) PROVE RingParts'
  BY <1>2, RingKept DEF QueueStep
<1>3. ASSUME NEW h \in Host, Drop(h) PROVE RingParts'
  BY <1>3, RingDrop
<1>4. ASSUME NEW h \in Host, ReceiveStep(h) PROVE RingParts'
  BY <1>4, RingTake, RingKept DEF ReceiveStep
<1>5. ASSUME NEW h \in Host, FreeStep(h) PROVE RingParts'
  BY <1>5, RingFree
<1>6. ASSUME NEW h \in Host, SyncSend(h) PROVE RingParts'
  BY <1>6, RingKept DEF SyncSend
<1>7. ASSUME NEW h \in Host, SyncWait(h) PROVE RingParts'
  BY <1>7, RingTake DEF SyncWait
<1>8. ASSUME NEW h \in Host, TxDone(h) \/ Lose(h) \/ send_thread(h) \/ send(h) PROVE RingParts'
  BY <1>8, RingKept DEF TxDone, Lose, send_thread, send
<1>9. ASSUME NEW h \in Host, Arrive(h) PROVE RingParts'
  <2>1. net[h] \in Seq(Packet) /\ net[h] # <<>>
    BY <1>9 DEF Arrive, RingInv, TypeOK
  <2>2. Head(net[h]) \in Packet
    BY <2>1
  <2> QED BY <1>9, <2>2, RingFill DEF Arrive
<1>10. ASSUME NEW h \in Host, OtherTraffic(h) PROVE RingParts'
  BY <1>10, RingFill, PacketTypes DEF OtherTraffic
<1>11. ASSUME NEW h \in Host, queue_spike(h) \/ receive(h) \/ free_receive(h) \/ sync(h)
       PROVE  RingParts'
  <2>1. Call(h)
    BY <1>11 DEF queue_spike, receive, free_receive, sync
  <2> QED BY <2>1, RingKept DEF Call
<1>12. ASSUME UNCHANGED vars PROVE RingParts'
  <2>1. UNCHANGED rxVars
    BY <1>12 DEF vars, rxVars
  <2> QED BY <2>1, RingKept
<1>13. ASSUME NEW h \in Host, Step(h) \/ Kernel(h) PROVE RingParts'
  BY <1>13, <1>2, <1>3, <1>4, <1>5, <1>6, <1>7, <1>8, <1>9 DEF Step, SyncStep, Kernel
<1>14. ASSUME Next PROVE RingParts'
  BY <1>14, <1>8, <1>10, <1>11, <1>13 DEF Next
<1>15. RingParts'
  BY <1>12, <1>14
<1> QED BY <1>1, <1>15 DEF RingInv

\* What a program reads through a pointer into the ring is what was delivered,
\* until it frees it: receive_and_spin and free_receive keep the kernel's part
\* of the ring and the program's apart, though frames of other traffic are
\* given back before older frames (RealtimeComm.h:551).
THEOREM HeldIntactHolds == Spec => []HeldIntact
<1>1. Init => RingInv
  BY TypeInit, RingInit DEF RingInv
<1>2. RingInv /\ [Next]_vars => RingInv'
  BY RingStep
<1>3. RingInv => HeldIntact
  BY DEF RingInv, RingParts, Parts, HeldIntact
<1> QED BY <1>1, <1>2, <1>3, PTL DEF Spec
-----------------------------------------------------------------------------
(* From queue_spike to receive.  The packets that a host has queued are,   *)
(* in this order, delivered to the other, in its receive ring among frames *)
(* of other traffic, on their way, and requested in the transmit ring.     *)

\* The slots with frames to be taken.
Pending(s, i, o, k) == Dist(i, o) <= Dist(s, o) /\ Dist(s, o) < Dist(k, o)

\* f numbers the slots: the packet of q that a slot holds or, where it holds another
\* frame or is the kernel's, that comes next.  D have been delivered.
RxChain(q, r, i, o, k, D, f) ==
  /\ f[i] = D + 1
  /\ \A s \in Slots : Pending(s, i, o, k) =>
       /\ f[Next1(s)] = IF check_packet(r[s]) THEN f[s] + 1 ELSE f[s]
       /\ check_packet(r[s]) => f[s] \in DOMAIN q /\ r[s] = q[f[s]]

\* The packets of q from number b + 1 on are on their way.
NetChain(q, w, b) == \A j \in DOMAIN w : b + j \in DOMAIN q /\ w[j] = q[b + j]

\* The last c packets of q are requested, from the kernel's head on.
TxChain(q, t, i, k, c) ==
  /\ c <= Len(q) /\ IF c = RING_COUNT THEN i = k ELSE Dist(i, k) = c
  /\ \A s \in Slots :
       /\ t[s].status = "SEND_REQUEST" <=> Dist(s, k) < c
       /\ Dist(s, k) < c => t[s].packet = q[Len(q) - c + Dist(s, k) + 1]

\* Two functions of slots that differ at most at one.
SameBut(e, r, k) == \A s \in Slots \ {k} : e[s] = r[s]

LEMMA RxAppended ==
  ASSUME NEW q \in Seq(Packet), NEW p \in Packet, NEW r, NEW i, NEW o, NEW k, NEW D,
         NEW f \in [Slots -> Nat], RxChain(q, r, i, o, k, D, f)
  PROVE  RxChain(Append(q, p), r, i, o, k, D, f)
<1>1. \A m \in DOMAIN q : m \in DOMAIN Append(q, p) /\ Append(q, p)[m] = q[m]
  OBVIOUS
<1> QED BY <1>1 DEF RxChain

LEMMA RxFilled ==
  ASSUME NEW q, NEW r \in [Slots -> Packet], NEW i \in Slots, NEW o \in Slots, NEW k \in Slots,
         NEW D, NEW f \in [Slots -> Nat],
         RxChain(q, r, i, o, k, D, f), Dist(i, o) <= Dist(k, o), Next1(k) # o,
         NEW e \in [Slots -> Packet], SameBut(e, r, k),
         check_packet(e[k]) => f[k] \in DOMAIN q, check_packet(e[k]) => e[k] = q[f[k]],
         NEW g \in [Slots -> Nat], g[Next1(k)] = IF check_packet(e[k]) THEN f[k] + 1 ELSE f[k],
         SameBut(g, f, Next1(k))
  PROVE  RxChain(q, e, i, o, Next1(k), D, g)
<1>1. Next1(k) \in Slots
  BY NextInSlots
<1>2. /\ Dist(Next1(k), o) = Dist(k, o) + 1 /\ Dist(i, o) \in Nat /\ Dist(k, o) \in Nat
  BY DistFacts
<1>3. /\ \A s \in Slots : s # Next1(k) => g[s] = f[s]
      /\ \A s \in Slots : s # k => e[s] = r[s]
  BY <1>1 DEF SameBut
<1>4. g[i] = D + 1
  <2>1. i # Next1(k)
    BY <1>2
  <2> QED BY <1>3, <2>1 DEF RxChain
<1>5. ASSUME NEW s \in Slots, Pending(s, i, o, Next1(k)) PROVE
        /\ g[Next1(s)] = IF check_packet(e[s]) THEN g[s] + 1 ELSE g[s]
        /\ check_packet(e[s]) => g[s] \in DOMAIN q /\ e[s] = q[g[s]]
  <2>1. Dist(s, o) \in Nat /\ Next1(s) \in Slots /\ s # Next1(k)
    BY <1>2, <1>5, DistFacts, NextInSlots DEF Pending
  <2>2. g[s] = f[s]
    BY <1>3, <2>1
  <2>3. CASE s = k
    BY <1>3, <2>2, <2>3
  <2>4. CASE s # k
    <3>1. Dist(s, o) # Dist(k, o)
      BY <2>4, DistFacts
    <3>2. Pending(s, i, o, k) /\ Dist(s, o) < Dist(k, o)
      BY <1>2, <1>5, <2>1, <3>1 DEF Pending
    <3>3. Next1(s) # Next1(k)
      <4>1. CASE Next1(s) = o
        BY <4>1
      <4>2. CASE Next1(s) # o
        <5>1. Dist(Next1(s), o) = Dist(s, o) + 1
          BY <4>2, DistFacts
        <5> QED BY <1>2, <2>1, <3>2, <5>1
      <4> QED BY <4>1, <4>2
    <3>4. g[Next1(s)] = f[Next1(s)]
      BY <1>3, <2>1, <3>3
    <3> QED BY <1>3, <2>2, <2>4, <3>2, <3>4 DEF RxChain
  <2> QED BY <2>3, <2>4
<1> QED BY <1>4, <1>5 DEF RxChain

LEMMA RxPassed ==
  ASSUME NEW q, NEW r \in [Slots -> Packet], NEW i \in Slots, NEW o \in Slots, NEW k \in Slots,
         NEW D \in Nat, NEW f \in [Slots -> Nat],
         RxChain(q, r, i, o, k, D, f), Dist(i, o) < Dist(k, o),
         NEW n \in Nat, n = IF check_packet(r[i]) THEN D + 1 ELSE D,
         NEW e, SameBut(e, r, i)
  PROVE  RxChain(q, e, Next1(i), o, k, n, f)
<1>1. /\ Dist(i, o) \in 0 .. RING_COUNT - 1 /\ Dist(k, o) \in 0 .. RING_COUNT - 1
      /\ RING_COUNT \in Nat
  BY DistFacts, RealtimeAssumption
<1>2. Dist(Next1(i), o) = Dist(i, o) + 1
  <2>1. Next1(i) # o
    <3>1. SUFFICES ASSUME Next1(i) = o PROVE FALSE
      OBVIOUS
    <3>2. Dist(i, Next1(i)) = RING_COUNT - 1
      BY DistFacts
    <3> QED BY <1>1, <3>1, <3>2
  <2> QED BY <2>1, DistFacts
<1>3. Pending(i, i, o, k)
  BY <1>1 DEF Pending
<1>4. f[Next1(i)] = n + 1
  BY <1>3 DEF RxChain
<1>5. ASSUME NEW s \in Slots, Pending(s, Next1(i), o, k) PROVE Pending(s, i, o, k) /\ s # i
  <2>1. Dist(s, o) \in Nat
    BY DistFacts
  <2> QED BY <1>1, <1>2, <1>5, <2>1 DEF Pending
<1> QED BY <1>4, <1>5 DEF RxChain, SameBut

LEMMA RxFreed ==
  ASSUME NEW q, NEW r \in [Slots -> Packet], NEW i \in Slots, NEW o \in Slots, NEW k \in Slots,
         NEW D, NEW f \in [Slots -> Nat], RxChain(q, r, i, o, k, D, f), i # o,
         Dist(i, o) <= Dist(k, o)
  PROVE  RxChain(q, [r EXCEPT ![o] = KERNEL], i, Next1(o), k, D, f)
<1>1. /\ Dist(i, o) \in 0 .. RING_COUNT - 1 /\ Dist(k, o) \in 0 .. RING_COUNT - 1
      /\ Dist(i, o) # 0 /\ RING_COUNT \in Nat
  BY DistFacts, RealtimeAssumption
<1>2. k # o
  BY <1>1, DistFacts
<1>3. Dist(i, Next1(o)) = Dist(i, o) - 1 /\ Dist(k, Next1(o)) = Dist(k, o) - 1
  BY <1>2, DistFacts
<1>4. ASSUME NEW s \in Slots, Pending(s, i, Next1(o), k) PROVE Pending(s, i, o, k) /\ s # o
  <2>1. s # o
    <3>1. Dist(o, Next1(o)) = RING_COUNT - 1
      BY DistFacts
    <3> QED BY <1>1, <1>3, <1>4, <3>1 DEF Pending
  <2>2. Dist(s, Next1(o)) = Dist(s, o) - 1 /\ Dist(s, o) \in Nat
    BY <2>1, DistFacts
  <2> QED BY <1>1, <1>3, <1>4, <2>1, <2>2 DEF Pending
<1> QED BY <1>4 DEF RxChain

LEMMA TxQueued ==
  ASSUME NEW q \in Seq(Packet), NEW p \in Packet, NEW i \in Slots, NEW k \in Slots,
         NEW t \in [Slots -> [status : {"AVAILABLE", "SEND_REQUEST", "SENDING"}, packet : Packet]],
         NEW c \in 0 .. RING_COUNT, TxChain(q, t, i, k, c), t[i].status # "SEND_REQUEST"
  PROVE  /\ c + 1 \in 0 .. RING_COUNT
         /\ TxChain(Append(q, p), [t EXCEPT ![i] = [status |-> "SEND_REQUEST", packet |-> p]],
                    Next1(i), k, c + 1)
<1> DEFINE u == [t EXCEPT ![i] = [status |-> "SEND_REQUEST", packet |-> p]]
           Q == Append(q, p)
<1>1. RING_COUNT \in Nat \ {0} /\ c \in Nat
  BY RealtimeAssumption
<1>2. c # RING_COUNT
  <2>1. SUFFICES ASSUME c = RING_COUNT PROVE FALSE
    OBVIOUS
  <2>2. i = k /\ Dist(i, k) = 0
    BY <2>1, DistFacts DEF TxChain
  <2> QED BY <1>1, <2>1, <2>2 DEF TxChain
<1>3. Dist(i, k) = c /\ c < RING_COUNT
  BY <1>1, <1>2 DEF TxChain
<1>4. IF c + 1 = RING_COUNT THEN Next1(i) = k ELSE Dist(Next1(i), k) = c + 1
  <2>1. Next1(i) # k => Dist(Next1(i), k) = c + 1 /\ c + 1 <= RING_COUNT - 1
    <3>1. ASSUME Next1(i) # k PROVE Dist(Next1(i), k) = Dist(i, k) + 1 /\ Dist(Next1(i), k) \in 0 .. RING_COUNT - 1
      BY <3>1, DistFacts, NextInSlots
    <3> QED BY <1>1, <1>3, <3>1
  <2>2. Next1(i) = k => c = RING_COUNT - 1
    <3>1. Dist(i, Next1(i)) = RING_COUNT - 1
      BY DistFacts
    <3> QED BY <1>3, <3>1
  <2> QED BY <1>1, <2>1, <2>2
<1>5. /\ Len(q) \in Nat /\ Len(Q) = Len(q) + 1 /\ Q[Len(q) + 1] = p
      /\ \A m \in 1 .. Len(q) : Q[m] = q[m]
  OBVIOUS
<1>6. ASSUME NEW s \in Slots
      PROVE  /\ u[s].status = "SEND_REQUEST" <=> Dist(s, k) < c + 1
             /\ Dist(s, k) < c + 1 => u[s].packet = Q[Len(Q) - (c + 1) + Dist(s, k) + 1]
  <2>1. Dist(s, k) \in Nat /\ (s # i => Dist(s, k) # c)
    BY <1>3, DistFacts
  <2>2. CASE s = i
    <3>1. u[s].status = "SEND_REQUEST" /\ u[s].packet = p
      BY <2>2
    <3>2. Len(Q) - (c + 1) + Dist(s, k) + 1 = Len(q) + 1
      BY <1>1, <1>3, <1>5, <2>2
    <3> QED BY <1>1, <1>3, <1>5, <2>2, <3>1, <3>2
  <2>3. CASE s # i
    <3>1. u[s] = t[s] /\ (Dist(s, k) < c + 1 <=> Dist(s, k) < c)
      BY <1>1, <2>1, <2>3
    <3>2. Len(Q) - (c + 1) + Dist(s, k) + 1 = Len(q) - c + Dist(s, k) + 1
      BY <1>1, <1>5, <2>1
    <3>3. Dist(s, k) < c => Len(q) - c + Dist(s, k) + 1 \in 1 .. Len(q)
      BY <1>1, <1>5, <2>1 DEF TxChain
    <3> QED BY <1>5, <3>1, <3>2, <3>3 DEF TxChain
  <2> QED BY <2>2, <2>3
<1> HIDE DEF u, Q
<1>7. TxChain(Q, u, Next1(i), k, c + 1)
  BY <1>1, <1>4, <1>5, <1>6 DEF TxChain
<1> QED BY <1>1, <1>3, <1>7 DEF u, Q

LEMMA Around == ASSUME NEW k \in Slots PROVE (k + RING_COUNT) % RING_COUNT = k
<1>1. RING_COUNT \in Nat \ {0} /\ k \in 0 .. RING_COUNT - 1
  BY RealtimeAssumption DEF Slots
<1> QED BY <1>1

LEMMA SlotDist ==
  ASSUME NEW k \in Slots, NEW j \in 0 .. RING_COUNT - 1
  PROVE  (k + j) % RING_COUNT \in Slots /\ Dist((k + j) % RING_COUNT, k) = j
<1>1. RING_COUNT \in Nat \ {0} /\ k \in 0 .. RING_COUNT - 1
  BY RealtimeAssumption DEF Slots
<1>2. CASE k + j < RING_COUNT
  <2>1. (k + j) % RING_COUNT = k + j
    BY <1>1, <1>2
  <2> QED BY <1>1, <1>2, <2>1 DEF Dist, Slots
<1>3. CASE ~(k + j < RING_COUNT)
  <2>1. k + j = RING_COUNT + (k + j - RING_COUNT) /\ k + j - RING_COUNT \in 0 .. RING_COUNT - 1
    BY <1>1, <1>3
  <2>2. (k + j) % RING_COUNT = k + j - RING_COUNT
    BY <1>1, <2>1
  <2> QED BY <1>1, <2>1, <2>2 DEF Dist, Slots
<1> QED BY <1>2, <1>3

\* What sendto finds are the c requests, in the order of the queue.
LEMMA RequestedIs ==
  ASSUME TypeOK, NEW h \in Host, NEW c \in 0 .. RING_COUNT, NEW q, NEW i,
         TxChain(q, tx[h], i, tx_head[h], c)
  PROVE  Requested(h) = [k \in 1 .. c |-> (tx_head[h] + (k - 1)) % RING_COUNT]
<1> DEFINE waiting(k) == tx[h][(tx_head[h] + k) % RING_COUNT].status = "SEND_REQUEST"
<1>1. RING_COUNT \in Nat \ {0} /\ tx_head[h] \in Slots /\ c \in Nat /\ c <= RING_COUNT
  BY RealtimeAssumption DEF TypeOK
<1>2. ASSUME NEW j \in 0 .. RING_COUNT - 1 PROVE waiting(j) <=> j < c
  BY <1>1, SlotDist DEF TxChain
<1>3. PICK n \in 0 .. RING_COUNT :
        /\ Requested(h) = [k \in 1 .. n |-> (tx_head[h] + (k - 1)) % RING_COUNT]
        /\ \A j \in 0 .. n - 1 : waiting(j)
        /\ n < RING_COUNT => ~waiting(n)
  BY RequestedRun
<1> HIDE DEF waiting
<1>4. ~(n < c)
  <2> SUFFICES ASSUME n < c PROVE FALSE
    OBVIOUS
  <2>1. n \in 0 .. RING_COUNT - 1 /\ ~waiting(n)
    BY <1>1, <1>3
  <2> QED BY <1>2, <2>1
<1>5. ~(c < n)
  <2> SUFFICES ASSUME c < n PROVE FALSE
    OBVIOUS
  <2>1. c \in 0 .. RING_COUNT - 1 /\ waiting(c)
    BY <1>1, <1>3
  <2> QED BY <1>1, <1>2, <2>1
<1>6. n = c
  BY <1>1, <1>4, <1>5
<1> QED BY <1>3, <1>6

LEMMA SendtoChain ==
  ASSUME TypeOK, NEW h \in Host, NEW c \in 0 .. RING_COUNT, Sendto(h),
         TxChain(queued[h], tx[h], tx_ring_idx[h], tx_head[h], c)
  PROVE  /\ TxChain(queued[h], tx'[h], tx_ring_idx[h], tx_head'[h], 0)
         /\ \E w \in Seq(Packet) :
              /\ Len(w) = c /\ net'[Other(h)] = net[Other(h)] \o w
              /\ \A j \in 1 .. c : w[j] = queued[h][Len(queued[h]) - c + j]
<1> DEFINE slots == Requested(h)
           H == tx_head[h]
           q == queued[h]
           w == [k \in DOMAIN slots |-> tx[h][slots[k]].packet]
<1>1. /\ RING_COUNT \in Nat \ {0} /\ H \in Slots /\ c \in Nat /\ c <= RING_COUNT
      /\ tx_ring_idx[h] \in Slots /\ q \in Seq(Packet) /\ Len(q) \in Nat
      /\ tx[h] \in [Slots -> [status : {"AVAILABLE", "SEND_REQUEST", "SENDING"}, packet : Packet]]
  BY RealtimeAssumption DEF TypeOK
<1>2. slots = [k \in 1 .. c |-> (H + (k - 1)) % RING_COUNT]
  BY RequestedIs
<1>3. DOMAIN slots = 1 .. c /\ Len(slots) = c
  <2> HIDE DEF slots
  <2>1. DOMAIN slots = 1 .. c
    BY <1>2
  <2> QED BY <1>1, <2>1, <1>2
<1>4. ASSUME NEW k \in 1 .. c
      PROVE  slots[k] \in Slots /\ Dist(slots[k], H) = k - 1
  <2>1. k - 1 \in 0 .. RING_COUNT - 1
    BY <1>1
  <2>2. slots[k] = (H + (k - 1)) % RING_COUNT
    BY <1>2
  <2> HIDE DEF slots, H
  <2> QED BY <1>1, <2>1, <2>2, SlotDist
<1>5. /\ tx'[h] = [i \in Slots |->
                  IF i \in ToSet(slots) THEN [tx[h][i] EXCEPT !.status = "SENDING"] ELSE tx[h][i]]
      /\ net'[Other(h)] = net[Other(h)] \o w
      /\ tx_head'[h] = (H + Len(slots)) % RING_COUNT
  BY OtherHost DEF Sendto, TypeOK, slots
<1>6. ASSUME NEW s \in Slots
      PROVE  s \in ToSet(slots) <=> Dist(s, H) < c
  <2>1. Dist(s, H) \in Nat
    BY <1>1, DistFacts
  <2> HIDE DEF slots, H
  <2>2. s \in ToSet(slots) <=> \E k \in 1 .. c : slots[k] = s
    BY <1>3 DEF ToSet
  <2>3. ASSUME NEW k \in 1 .. c, slots[k] = s PROVE Dist(s, H) < c
    BY <1>1, <1>4, <2>3
  <2>4. ASSUME Dist(s, H) < c PROVE \E k \in 1 .. c : slots[k] = s
    <3>1. Dist(s, H) + 1 \in 1 .. c
      BY <1>1, <2>1, <2>4
    <3>2. slots[Dist(s, H) + 1] \in Slots /\ Dist(slots[Dist(s, H) + 1], H) = Dist(s, H)
      BY <1>4, <2>1, <3>1
    <3>3. slots[Dist(s, H) + 1] = s
      BY <1>1, <3>2, DistFacts
    <3> QED BY <3>1, <3>3
  <2> QED BY <2>2, <2>3, <2>4
<1>7. tx_head'[h] = tx_ring_idx[h]
  <2>1. tx_head'[h] = (H + c) % RING_COUNT
    BY <1>3, <1>5
  <2>2. CASE c = RING_COUNT
    <3>1. tx_ring_idx[h] = H
      BY <2>2 DEF TxChain
    <3>2. (H + RING_COUNT) % RING_COUNT = H
      <4> HIDE DEF H
      <4> QED BY <1>1, Around
    <3> QED BY <2>1, <2>2, <3>1, <3>2
  <2>3. CASE c # RING_COUNT
    <3>1. c \in 0 .. RING_COUNT - 1 /\ Dist(tx_ring_idx[h], H) = c
      BY <1>1, <2>3 DEF TxChain
    <3>2. (H + c) % RING_COUNT \in Slots /\ Dist((H + c) % RING_COUNT, H) = c
      BY <1>1, <3>1, SlotDist
    <3>3. (H + c) % RING_COUNT = tx_ring_idx[h]
      <4> HIDE DEF H
      <4> QED BY <1>1, <3>1, <3>2, DistFacts
    <3> QED BY <2>1, <3>3
  <2> QED BY <2>2, <2>3
<1>8. TxChain(q, tx'[h], tx_ring_idx[h], tx_head'[h], 0)
  <2>1. ASSUME NEW s \in Slots PROVE tx'[h][s].status # "SEND_REQUEST"
    <3>1. CASE Dist(s, H) < c
      <4>1. tx'[h][s] = [tx[h][s] EXCEPT !.status = "SENDING"]
        BY <1>5, <1>6, <3>1
      <4> QED BY <1>1, <4>1
    <3>2. CASE ~(Dist(s, H) < c)
      <4>1. tx'[h][s] = tx[h][s]
        BY <1>5, <1>6, <3>2
      <4> QED BY <3>2, <4>1 DEF TxChain
    <3> QED BY <3>1, <3>2
  <2>2. ASSUME NEW s \in Slots PROVE ~(Dist(s, tx_head'[h]) < 0)
    BY <1>1, <1>7, DistFacts
  <2>3. Dist(tx_ring_idx[h], tx_head'[h]) = 0 /\ 0 # RING_COUNT
    BY <1>1, <1>7, DistFacts
  <2> QED BY <1>1, <2>1, <2>2, <2>3 DEF TxChain
<1>9. /\ w \in Seq(Packet) /\ Len(w) = c
      /\ \A j \in 1 .. c : w[j] = q[Len(q) - c + j]
  <2>1. ASSUME NEW j \in 1 .. c PROVE tx[h][slots[j]].packet = q[Len(q) - c + j]
                                      /\ tx[h][slots[j]].packet \in Packet
    <3> DEFINE s == slots[j]
    <3>1. s \in Slots /\ Dist(s, H) = j - 1 /\ j - 1 < c
      BY <1>1, <1>4
    <3> HIDE DEF s
    <3>2. tx[h][s].packet = q[Len(q) - c + Dist(s, H) + 1] /\ tx[h][s].packet \in Packet
      BY <1>1, <3>1 DEF TxChain
    <3>3. Len(q) - c + (j - 1) + 1 = Len(q) - c + j
      BY <1>1
    <3> QED BY <3>1, <3>2, <3>3 DEF s
  <2> HIDE DEF slots, q
  <2>2. w = [k \in 1 .. c |-> tx[h][slots[k]].packet]
    BY <1>3
  <2> QED BY <1>1, <2>1, <2>2
<1> HIDE DEF w
<1> QED BY <1>5, <1>8, <1>9

-----------------------------------------------------------------------------
\* Where the packets for h are, and what a host queues is no other traffic.
Chain(h, f, c) ==
  LET q == queued[Other(h)]
      b == f[rx_head[h]] - 1
  IN  /\ \A m \in DOMAIN delivered[h] : m \in DOMAIN q /\ delivered[h][m] = q[m]
      /\ RxChain(q, rx[h], rx_ring_idx[h], old_rx_ring_idx[h], rx_head[h], Len(delivered[h]), f)
      /\ NetChain(q, net[h], b)
      /\ TxChain(q, tx[Other(h)], tx_ring_idx[Other(h)], tx_head[Other(h)], c)
      /\ b + Len(net[h]) + c = Len(q)

Chained(h) == \E f \in [Slots -> Nat], c \in 0 .. RING_COUNT : Chain(h, f, c)

Own(h) ==
  /\ \A m \in DOMAIN queued[h] : check_packet(queued[h][m])
  /\ At(h, "queue") => check_packet(op[h].packet)

OrderInv ==
  /\ RingInv /\ \A h \in Host : Own(h)
  /\ \A h \in Host : ~lost /\ ~lapped[h] => Chained(h)

LEMMA TwoHosts ==
  \A h \in Host : Other(h) \in Host /\ Other(h) # h /\ Other(Other(h)) = h
                  /\ \A g \in Host : g = h \/ g = Other(h)
<1> TAKE h \in Host
<1>1. Other(h) \in Host /\ Other(h) # h
  BY DEF Other, Host
<1>2. Other(Other(h)) \in Host /\ Other(Other(h)) # Other(h)
  BY <1>1 DEF Other, Host
<1> QED BY <1>1, <1>2 DEF Host

LEMMA ChainKept ==
  ASSUME NEW h \in Host, Chained(h),
         UNCHANGED <<queued[Other(h)], rx[h], rx_ring_idx[h], old_rx_ring_idx[h], rx_head[h],
                     delivered[h], net[h], tx[Other(h)], tx_ring_idx[Other(h)], tx_head[Other(h)]>>
  PROVE  Chained(h)'
BY DEF Chained, Chain

LEMMA ChainQueue ==
  ASSUME RingInv, NEW h \in Host, Chained(h), NEW e \in Host, QueueStep(e)
  PROVE  Chained(h)'
<1>1. TypeOK /\ Other(h) \in Host
  BY TwoHosts DEF RingInv
<1>2. UNCHANGED <<rx, rx_ring_idx, old_rx_ring_idx, rx_head, delivered, net, tx_head>>
  BY DEF QueueStep, rxVars
<1>3. CASE e # Other(h)
  <2>1. UNCHANGED <<queued[Other(h)], tx[Other(h)], tx_ring_idx[Other(h)]>>
    BY <1>1, <1>3 DEF QueueStep, TypeOK
  <2> QED BY <1>2, <2>1, ChainKept
<1>4. CASE e = Other(h)
  <2> DEFINE q == queued[e]
             p == op[e].packet
             u == [tx[e] EXCEPT ![tx_ring_idx[e]] = [status |-> "SEND_REQUEST", packet |-> p]]
  <2>1. /\ q \in Seq(Packet) /\ p \in Packet
        /\ tx[e] \in [Slots -> [status : {"AVAILABLE", "SEND_REQUEST", "SENDING"}, packet : Packet]]
        /\ tx_ring_idx[e] \in Slots /\ tx_head[e] \in Slots
    BY <1>1, <1>4 DEF TypeOK
  <2>2. /\ queued'[e] = Append(q, p) /\ tx'[e] = u /\ tx_ring_idx'[e] = Next1(tx_ring_idx[e])
        /\ tx[e][tx_ring_idx[e]].status # "SEND_REQUEST"
    BY <1>1 DEF QueueStep, TypeOK, Free
  <2>3. PICK f \in [Slots -> Nat], c \in 0 .. RING_COUNT : Chain(h, f, c)
    BY DEF Chained
  <2> HIDE DEF q, p, u
  <2>4. /\ \A m \in DOMAIN q : m \in DOMAIN Append(q, p) /\ Append(q, p)[m] = q[m]
        /\ Len(Append(q, p)) = Len(q) + 1 /\ Len(q) \in Nat
    BY <2>1
  <2>5. c + 1 \in 0 .. RING_COUNT
        /\ TxChain(Append(q, p), u, Next1(tx_ring_idx[e]), tx_head[e], c + 1)
    <3>1. TxChain(q, tx[e], tx_ring_idx[e], tx_head[e], c)
      BY <1>4, <2>3 DEF Chain, q
    <3> QED BY <2>1, <2>2, <3>1, TxQueued DEF u
  <2>6. RxChain(Append(q, p), rx[h], rx_ring_idx[h], old_rx_ring_idx[h], rx_head[h],
                Len(delivered[h]), f)
    <3>1. RxChain(q, rx[h], rx_ring_idx[h], old_rx_ring_idx[h], rx_head[h], Len(delivered[h]), f)
      BY <1>4, <2>3 DEF Chain, q
    <3> QED BY <2>1, <3>1, RxAppended
  <2>7. /\ NetChain(Append(q, p), net[h], f[rx_head[h]] - 1)
        /\ \A m \in DOMAIN delivered[h] :
             m \in DOMAIN Append(q, p) /\ delivered[h][m] = Append(q, p)[m]
    BY <1>4, <2>3, <2>4 DEF Chain, NetChain, q
  <2>8. f[rx_head[h]] - 1 + Len(net[h]) + (c + 1) = Len(Append(q, p))
    <3>1. f[rx_head[h]] \in Nat /\ Len(net[h]) \in Nat /\ c \in Nat
      BY <1>1, <2>3, RealtimeAssumption DEF TypeOK
    <3>2. f[rx_head[h]] - 1 + Len(net[h]) + c = Len(q)
      BY <1>4, <2>3 DEF Chain, q
    <3> DEFINE a == f[rx_head[h]] - 1
               l == Len(net[h])
               n == Len(q)
    <3>3. a \in Int /\ l \in Int /\ n \in Int /\ c \in Int /\ a + l + c = n
      BY <2>4, <3>1, <3>2
    <3> HIDE DEF a, l, n
    <3>4. a + l + (c + 1) = n + 1
      BY <3>3
    <3>5. Len(Append(q, p)) = n + 1
      BY <2>4 DEF n
    <3> QED BY <3>4, <3>5 DEF a, l
  <2>9. Chain(h, f, c + 1)'
    BY <1>2, <1>4, <2>2, <2>5, <2>6, <2>7, <2>8 DEF Chain
  <2> QED BY <2>3, <2>5, <2>9 DEF Chained
<1> QED BY <1>3, <1>4

LEMMA ChainSendto ==
  ASSUME RingInv, NEW h \in Host, Chained(h), NEW e \in Host, Sendto(e),
         UNCHANGED <<queued, rxVars, tx_ring_idx, delivered>>
  PROVE  Chained(h)'
<1>1. TypeOK /\ Other(h) \in Host /\ Other(Other(h)) = h
  BY TwoHosts DEF RingInv
<1>2. UNCHANGED <<rx, rx_ring_idx, old_rx_ring_idx, rx_head>>
  BY DEF rxVars
<1>3. CASE e # Other(h)
  <2>1. Other(e) # h
    BY <1>3, TwoHosts
  <2>2. UNCHANGED <<tx[Other(h)], tx_head[Other(h)], net[h]>>
    BY <1>1, <1>3, <2>1 DEF Sendto, TypeOK
  <2> QED BY <1>2, <2>2, ChainKept
<1>4. CASE e = Other(h)
  <2>1. PICK f \in [Slots -> Nat], c \in 0 .. RING_COUNT : Chain(h, f, c)
    BY DEF Chained
  <2> DEFINE q == queued[e]
             b == f[rx_head[h]] - 1
  <2>2. /\ TxChain(q, tx[e], tx_ring_idx[e], tx_head[e], c) /\ NetChain(q, net[h], b)
        /\ b + Len(net[h]) + c = Len(q)
    BY <1>4, <2>1 DEF Chain
  <2>3. TxChain(q, tx'[e], tx_ring_idx[e], tx_head'[e], 0)
    BY <1>1, <2>2, SendtoChain
  <2>4. PICK w \in Seq(Packet) :
              /\ Len(w) = c /\ net'[h] = net[h] \o w
              /\ \A j \in 1 .. c : w[j] = q[Len(q) - c + j]
    <3>1. \E w \in Seq(Packet) :
            /\ Len(w) = c /\ net'[Other(e)] = net[Other(e)] \o w
            /\ \A j \in 1 .. c : w[j] = queued[e][Len(queued[e]) - c + j]
      BY <1>1, <2>2, SendtoChain
    <3>2. Other(e) = h
      BY <1>1, <1>4
    <3> QED BY <3>1, <3>2
  <2>5. /\ q \in Seq(Packet) /\ net[h] \in Seq(Packet) /\ b \in Int /\ c \in Nat
        /\ 0 \in 0 .. RING_COUNT
    <3>1. q \in Seq(Packet) /\ net[h] \in Seq(Packet) /\ rx_head[h] \in Slots
      BY <1>1, <1>4 DEF TypeOK
    <3>2. c \in Nat /\ 0 \in 0 .. RING_COUNT
      BY RealtimeAssumption
    <3>3. f[rx_head[h]] \in Nat
      BY <3>1
    <3> QED BY <3>1, <3>2, <3>3
  <2> HIDE DEF q, b
  <2>6. /\ Len(net[h]) \in Nat /\ Len(net'[h]) = Len(net[h]) + c
        /\ DOMAIN net'[h] = 1 .. Len(net[h]) + c
        /\ \A j \in 1 .. Len(net[h]) : net'[h][j] = net[h][j]
        /\ \A j \in 1 .. c : net'[h][Len(net[h]) + j] = w[j]
    <3>1. ASSUME NEW v \in Seq(Packet), NEW w1 \in Seq(Packet)
          PROVE  /\ Len(v) \in Nat /\ Len(w1) \in Nat /\ Len(v \o w1) = Len(v) + Len(w1)
                 /\ DOMAIN (v \o w1) = 1 .. Len(v) + Len(w1)
                 /\ \A j \in 1 .. Len(v) : (v \o w1)[j] = v[j]
                 /\ \A j \in 1 .. Len(w1) : (v \o w1)[Len(v) + j] = w1[j]
      OBVIOUS
    <3> DEFINE v == net[h]
    <3>2. /\ Len(v) \in Nat /\ Len(w) \in Nat /\ Len(v \o w) = Len(v) + Len(w)
          /\ DOMAIN (v \o w) = 1 .. Len(v) + Len(w)
          /\ \A j \in 1 .. Len(v) : (v \o w)[j] = v[j]
          /\ \A j \in 1 .. Len(w) : (v \o w)[Len(v) + j] = w[j]
      <4>1. v \in Seq(Packet)
        BY <2>5
      <4> HIDE DEF v
      <4> QED BY <3>1, <4>1
    <3> HIDE DEF v
    <3>3. Len(w) = c /\ net'[h] = v \o w
      BY <2>4 DEF v
    <3> QED BY <3>2, <3>3 DEF v
  <2>7. NetChain(q, net'[h], b)
    <3> SUFFICES ASSUME NEW j \in DOMAIN net'[h] PROVE b + j \in DOMAIN q /\ net'[h][j] = q[b + j]
      BY DEF NetChain
    <3>1. CASE j <= Len(net[h])
      <4>1. j \in DOMAIN net[h] /\ j \in 1 .. Len(net[h])
        BY <2>5, <2>6, <3>1
      <4> QED BY <2>2, <2>6, <4>1 DEF NetChain
    <3>2. CASE ~(j <= Len(net[h]))
      <4> DEFINE l == j - Len(net[h])
      <4>1. l \in 1 .. c /\ j = Len(net[h]) + l
        BY <2>6, <3>2
      <4>2. Len(q) - c + l = b + j /\ b + j \in 1 .. Len(q)
        <5>1. Len(q) \in Nat /\ c <= Len(q)
          BY <2>2, <2>5 DEF TxChain
        <5> HIDE DEF l
        <5> DEFINE m == Len(net[h])
                   n == Len(q)
        <5>2. /\ b \in Int /\ m \in Int /\ c \in Int /\ n \in Int /\ l \in Int
              /\ b + m + c = n /\ j = m + l
          BY <2>2, <2>5, <2>6, <4>1, <5>1
        <5>4. Len(q) - c + l = b + j
          <6> HIDE DEF m, n
          <6>1. n - c + l = b + j
            BY <5>2
          <6> QED BY <6>1 DEF n
        <5>5. Len(q) - c + l \in 1 .. Len(q)
          BY <2>5, <4>1, <5>1
        <5> QED BY <5>4, <5>5
      <4>3. net'[h][j] = w[l] /\ w[l] = q[Len(q) - c + l]
        <5> HIDE DEF l
        <5> QED BY <2>4, <2>6, <4>1
      <4> QED BY <2>5, <4>2, <4>3
    <3> QED BY <2>6, <3>1, <3>2
  <2>8. b + Len(net'[h]) + 0 = Len(q)
    BY <2>2, <2>5, <2>6
  <2>9. Chain(h, f, 0)'
    BY <1>2, <1>4, <2>1, <2>3, <2>7, <2>8 DEF Chain, q, b
  <2> QED BY <2>5, <2>9 DEF Chained
<1> QED BY <1>3, <1>4

LEMMA ChainTxDone ==
  ASSUME RingInv, NEW h \in Host, Chained(h), NEW e \in Host, TxDone(e)
  PROVE  Chained(h)'
<1>1. TypeOK /\ Other(h) \in Host
  BY TwoHosts DEF RingInv
<1>2. UNCHANGED <<queued, rx, rx_ring_idx, old_rx_ring_idx, rx_head, delivered, net,
                  tx_ring_idx, tx_head>>
  BY DEF TxDone, rxVars
<1>3. PICK f \in [Slots -> Nat], c \in 0 .. RING_COUNT : Chain(h, f, c)
  BY DEF Chained
<1>4. ASSUME NEW s \in Slots
      PROVE  /\ tx'[Other(h)][s].status = "SEND_REQUEST" <=> tx[Other(h)][s].status = "SEND_REQUEST"
             /\ tx[Other(h)][s].status = "SEND_REQUEST" => tx'[Other(h)][s] = tx[Other(h)][s]
  BY <1>1 DEF TxDone, TypeOK, AVAILABLE
<1>5. \A q, i, k : TxChain(q, tx[Other(h)], i, k, c) => TxChain(q, tx'[Other(h)], i, k, c)
  BY <1>4 DEF TxChain
<1>6. Chain(h, f, c)'
  BY <1>2, <1>3, <1>5 DEF Chain
<1> QED BY <1>3, <1>6 DEF Chained

\* As long as the kernel has not come round, it has a slot for what arrives.
LEMMA FillSlot ==
  ASSUME RingInv, NEW h \in Host, ~lapped[h], NEW p \in Packet, Fill(h, p)
  PROVE  /\ rx'[h] = [rx[h] EXCEPT ![rx_head[h]] = p] /\ rx_head'[h] = Next1(rx_head[h])
         /\ lapped'[h] <=> Next1(rx_head[h]) = old_rx_ring_idx[h]
<1>1. TypeOK /\ Parts(rx[h], rx_ring_idx[h], old_rx_ring_idx[h], rx_head[h], held[h])
  BY DEF RingInv, RingParts
<1>2. rx_head[h] \in Slots /\ old_rx_ring_idx[h] \in Slots
  BY <1>1 DEF TypeOK
<1>3. Dist(rx_head[h], old_rx_ring_idx[h]) <= Dist(rx_head[h], old_rx_ring_idx[h])
  BY <1>2, DistFacts
<1>4. rx[h][rx_head[h]] = KERNEL
  BY <1>1, <1>2, <1>3 DEF Parts
<1>5. /\ rx' = [rx EXCEPT ![h][rx_head[h]] = p]
      /\ rx_head' = [rx_head EXCEPT ![h] = Next1(@)]
      /\ lapped' = [lapped EXCEPT ![h] = @ \/ Next1(rx_head[h]) = old_rx_ring_idx[h]]
  BY <1>4 DEF Fill
<1>6. rx'[h] = [rx[h] EXCEPT ![rx_head[h]] = p] /\ rx_head'[h] = Next1(rx_head[h])
  BY <1>1, <1>5 DEF TypeOK
<1>7. lapped'[h] <=> Next1(rx_head[h]) = old_rx_ring_idx[h]
  BY <1>1, <1>5, Zenon DEF TypeOK
<1> QED BY <1>6, <1>7

LEMMA ChainFill ==
  ASSUME RingInv, NEW h \in Host, ~lapped[h], ~lapped'[h], NEW p \in Packet, Fill(h, p),
         NEW f \in [Slots -> Nat], NEW c \in 0 .. RING_COUNT, Chain(h, f, c),
         check_packet(p) => f[rx_head[h]] \in DOMAIN queued[Other(h)]
                            /\ p = queued[Other(h)][f[rx_head[h]]]
  PROVE  \E g \in [Slots -> Nat] :
           /\ RxChain(queued[Other(h)], rx'[h], rx_ring_idx[h], old_rx_ring_idx[h],
                      rx_head'[h], Len(delivered[h]), g)
           /\ g[rx_head'[h]] = IF check_packet(p) THEN f[rx_head[h]] + 1 ELSE f[rx_head[h]]
<1> DEFINE q == queued[Other(h)]
           r == rx[h]
           i == rx_ring_idx[h]
           o == old_rx_ring_idx[h]
           k == rx_head[h]
           D == Len(delivered[h])
           n == IF check_packet(p) THEN f[k] + 1 ELSE f[k]
           e == [r EXCEPT ![k] = p]
           g == [f EXCEPT ![Next1(k)] = n]
<1>1. rx'[h] = e /\ rx_head'[h] = Next1(k) /\ Next1(k) # o
  BY FillSlot
<1>2. i \in Slots
  BY DEF RingInv, TypeOK
<1>3. o \in Slots
  BY DEF RingInv, TypeOK
<1>4. k \in Slots /\ Next1(k) \in Slots
  BY NextInSlots DEF RingInv, TypeOK
<1>5. r \in [Slots -> Packet]
  BY DEF RingInv, TypeOK
<1>6. e \in [Slots -> Packet]
  BY <1>5
<1>7. n \in Nat
  <2>1. f[k] \in Nat
    BY <1>4
  <2> QED BY <2>1
<1>8. g \in [Slots -> Nat]
  <2> HIDE DEF n
  <2> QED BY <1>7
<1>9. RxChain(q, r, i, o, k, D, f)
  BY DEF Chain
<1>10. Dist(i, o) <= Dist(k, o)
  BY DEF RingInv, RingParts, Parts
<1>11. e[k] = p
  BY <1>4, <1>5
<1>12. SameBut(e, r, k)
  BY <1>5 DEF SameBut
<1>13. SameBut(g, f, Next1(k))
  BY <1>4 DEF SameBut
<1>14. g[Next1(k)] = n
  BY <1>4
<1>15. g[Next1(k)] = IF check_packet(e[k]) THEN f[k] + 1 ELSE f[k]
  BY <1>11, <1>14
<1>16. check_packet(e[k]) => f[k] \in DOMAIN q
  BY <1>11
<1>17. check_packet(e[k]) => e[k] = q[f[k]]
  BY <1>11
<1> HIDE DEF q, r, i, o, k, D, e, g, n
<1>18. RxChain(q, e, i, o, Next1(k), D, g)
  BY <1>1, <1>2, <1>3, <1>4, <1>5, <1>6, <1>8, <1>9, <1>10, <1>12, <1>13, <1>15, <1>16, <1>17,
     RxFilled
<1>19. RxChain(q, rx'[h], i, o, rx_head'[h], D, g) /\ g[rx_head'[h]] = n
  BY <1>1, <1>14, <1>18
<1> QED BY <1>8, <1>19 DEF q, i, o, k, D, n

LEMMA ChainArrive ==
  ASSUME RingInv, NEW h \in Host, ~lapped[h], ~lapped'[h], Chained(h), Own(Other(h)),
         NEW e \in Host, Arrive(e)
  PROVE  Chained(h)'
<1>1. /\ TypeOK /\ Other(h) \in Host /\ net[e] \in Seq(Packet) /\ net[e] # <<>>
      /\ Fill(e, Head(net[e])) /\ net' = [net EXCEPT ![e] = Tail(@)]
  BY TwoHosts DEF RingInv, TypeOK, Arrive
<1>2. UNCHANGED <<queued, rx_ring_idx, old_rx_ring_idx, delivered, tx, tx_ring_idx, tx_head>>
  BY DEF Arrive, txVars
<1>3. CASE e # h
  <2>1. UNCHANGED <<rx[h], rx_head[h], net[h]>>
    BY <1>1, <1>3 DEF Fill, TypeOK
  <2> QED BY <1>2, <2>1, ChainKept
<1>4. CASE e = h
  <2>1. PICK f \in [Slots -> Nat], c \in 0 .. RING_COUNT : Chain(h, f, c)
    BY DEF Chained
  <2> DEFINE q == queued[Other(h)]
             p == Head(net[h])
             b == f[rx_head[h]] - 1
  <2>2. /\ NetChain(q, net[h], b) /\ b + Len(net[h]) + c = Len(q)
    BY <2>1 DEF Chain
  <2>3. /\ p \in Packet /\ p = net[h][1] /\ 1 \in DOMAIN net[h] /\ net'[h] = Tail(net[h])
        /\ Len(net[h]) \in Nat /\ DOMAIN Tail(net[h]) = 1 .. Len(net[h]) - 1
        /\ Len(Tail(net[h])) = Len(net[h]) - 1
        /\ \A j \in 1 .. Len(net[h]) - 1 : Tail(net[h])[j] = net[h][j + 1] /\ j + 1 \in DOMAIN net[h]
    <3>1. ASSUME NEW v \in Seq(Packet), v # <<>>
          PROVE  /\ Head(v) \in Packet /\ Head(v) = v[1] /\ 1 \in DOMAIN v
                 /\ Len(v) \in Nat /\ DOMAIN Tail(v) = 1 .. Len(v) - 1
                 /\ Len(Tail(v)) = Len(v) - 1
                 /\ \A j \in 1 .. Len(v) - 1 : Tail(v)[j] = v[j + 1] /\ j + 1 \in DOMAIN v
      BY <3>1
    <3>2. net[h] \in Seq(Packet) /\ net[h] # <<>> /\ net'[h] = Tail(net[h])
      BY <1>1, <1>4 DEF TypeOK
    <3> QED BY <3>1, <3>2
  <2>4. b \in Int /\ b + 1 = f[rx_head[h]] /\ c \in Nat /\ Len(q) \in Nat
    <3>1. rx_head[h] \in Slots /\ q \in Seq(Packet) /\ RING_COUNT \in Nat
      BY <1>1, RealtimeAssumption DEF TypeOK
    <3>2. f[rx_head[h]] \in Nat
      BY <3>1
    <3>3. Len(q) \in Nat
      <4> HIDE DEF q
      <4> QED BY <3>1
    <3> QED BY <3>1, <3>2, <3>3
  <2>5. f[rx_head[h]] \in DOMAIN q /\ p = q[f[rx_head[h]]] /\ check_packet(p)
    <3> HIDE DEF b
    <3> QED BY <2>2, <2>3, <2>4 DEF NetChain, Own
  <2>6. PICK g \in [Slots -> Nat] :
           /\ RxChain(q, rx'[h], rx_ring_idx[h], old_rx_ring_idx[h], rx_head'[h],
                      Len(delivered[h]), g)
           /\ g[rx_head'[h]] = f[rx_head[h]] + 1
    <3>1. Fill(h, p) /\ p \in Packet /\ check_packet(p)
      BY <1>1, <1>4, <2>3, <2>5
    <3> HIDE DEF p
    <3>2. \E g \in [Slots -> Nat] :
           /\ RxChain(q, rx'[h], rx_ring_idx[h], old_rx_ring_idx[h], rx_head'[h],
                      Len(delivered[h]), g)
           /\ g[rx_head'[h]] = IF check_packet(p) THEN f[rx_head[h]] + 1 ELSE f[rx_head[h]]
      BY <2>1, <2>5, <3>1, ChainFill
    <3> QED BY <3>1, <3>2
  <2>7. g[rx_head'[h]] - 1 = b + 1
    BY <2>4, <2>6
  <2> HIDE DEF b, q
  <2>8. NetChain(q, net'[h], b + 1)
    <3>1. ASSUME NEW j \in DOMAIN Tail(net[h])
          PROVE  b + 1 + j \in DOMAIN q /\ Tail(net[h])[j] = q[b + 1 + j]
      <4>1. j \in 1 .. Len(net[h]) - 1 /\ j + 1 \in DOMAIN net[h]
        BY <2>3
      <4>2. b + (j + 1) = b + 1 + j
        BY <2>4, <4>1
      <4> QED BY <2>2, <2>3, <4>1, <4>2 DEF NetChain
    <3> QED BY <2>3, <3>1 DEF NetChain
  <2>9. b + 1 + Len(net'[h]) + c = Len(q)
    <3> DEFINE l == Len(net[h])
               n == Len(q)
    <3>1. b \in Int /\ c \in Int /\ l \in Int /\ n \in Int /\ b + l + c = n /\ Len(net'[h]) = l - 1
      BY <2>2, <2>3, <2>4
    <3> HIDE DEF l, n
    <3>2. b + 1 + (l - 1) + c = n
      BY <3>1
    <3> QED BY <3>1, <3>2 DEF n
  <2>10. Chain(h, g, c)'
    BY <1>2, <2>1, <2>6, <2>7, <2>8, <2>9 DEF Chain, q
  <2> QED BY <2>10 DEF Chained
<1> QED BY <1>3, <1>4

LEMMA ChainForeign ==
  ASSUME RingInv, NEW h \in Host, ~lapped[h], ~lapped'[h], Chained(h), NEW e \in Host,
         OtherTraffic(e)
  PROVE  Chained(h)'
<1>1. TypeOK /\ Other(h) \in Host /\ Fill(e, Foreign) /\ Foreign \in Packet /\ ~check_packet(Foreign)
  BY TwoHosts, PacketTypes DEF RingInv, OtherTraffic, check_packet, Foreign
<1>2. UNCHANGED <<queued, rx_ring_idx, old_rx_ring_idx, delivered, net, tx, tx_ring_idx, tx_head>>
  BY DEF OtherTraffic, txVars
<1>3. CASE e # h
  <2>1. UNCHANGED <<rx[h], rx_head[h]>>
    BY <1>1, <1>3 DEF Fill, TypeOK
  <2> QED BY <1>2, <2>1, ChainKept
<1>4. CASE e = h
  <2>1. PICK f \in [Slots -> Nat], c \in 0 .. RING_COUNT : Chain(h, f, c)
    BY DEF Chained
  <2>2. PICK g \in [Slots -> Nat] :
           /\ RxChain(queued[Other(h)], rx'[h], rx_ring_idx[h], old_rx_ring_idx[h], rx_head'[h],
                      Len(delivered[h]), g)
           /\ g[rx_head'[h]] = f[rx_head[h]]
    BY <1>1, <1>4, <2>1, ChainFill
  <2>3. Chain(h, g, c)'
    BY <1>2, <2>1, <2>2 DEF Chain
  <2> QED BY <2>3 DEF Chained
<1> QED BY <1>3, <1>4

\* A frame that receive passes: the next packet of the other host, or other traffic.
LEMMA ChainPassed ==
  ASSUME RingInv, NEW h \in Host, ~lapped[h], Current(h) # KERNEL,
         NEW f \in [Slots -> Nat], NEW c \in 0 .. RING_COUNT, Chain(h, f, c),
         NEW n, n = IF check_packet(Current(h)) THEN Len(delivered[h]) + 1 ELSE Len(delivered[h]),
         NEW e, SameBut(e, rx[h], rx_ring_idx[h])
  PROVE  /\ RxChain(queued[Other(h)], e, Next1(rx_ring_idx[h]), old_rx_ring_idx[h],
                    rx_head[h], n, f)
         /\ check_packet(Current(h)) =>
              /\ Len(delivered[h]) + 1 \in DOMAIN queued[Other(h)]
              /\ Current(h) = queued[Other(h)][Len(delivered[h]) + 1]
<1>1. /\ rx[h] \in [Slots -> Packet] /\ rx_ring_idx[h] \in Slots /\ old_rx_ring_idx[h] \in Slots
      /\ rx_head[h] \in Slots /\ delivered[h] \in Seq(Packet)
      /\ Parts(rx[h], rx_ring_idx[h], old_rx_ring_idx[h], rx_head[h], held[h])
  BY DEF RingInv, TypeOK, RingParts
<1>2. Dist(rx_ring_idx[h], old_rx_ring_idx[h]) < Dist(rx_head[h], old_rx_ring_idx[h])
  <2>1. /\ Dist(rx_ring_idx[h], old_rx_ring_idx[h]) \in Nat
        /\ Dist(rx_head[h], old_rx_ring_idx[h]) \in Nat
    BY <1>1, DistFacts
  <2>2. ~(Dist(rx_head[h], old_rx_ring_idx[h]) <= Dist(rx_ring_idx[h], old_rx_ring_idx[h]))
    BY <1>1 DEF Parts, Current
  <2> QED BY <2>1, <2>2
<1>3. RxChain(queued[Other(h)], rx[h], rx_ring_idx[h], old_rx_ring_idx[h], rx_head[h],
              Len(delivered[h]), f)
  BY DEF Chain
<1>4. Len(delivered[h]) \in Nat
  BY <1>1
<1> DEFINE i == rx_ring_idx[h]
           o == old_rx_ring_idx[h]
           k == rx_head[h]
           D == Len(delivered[h])
<1>5. rx[h] \in [Slots -> Packet]
  BY <1>1
<1>6. i \in Slots
  BY <1>1
<1>7. o \in Slots
  BY <1>1
<1>8. k \in Slots
  BY <1>1
<1>9. n = IF check_packet(rx[h][i]) THEN D + 1 ELSE D
  BY DEF Current
<1>10. n \in Nat
  <2> HIDE DEF D
  <2> QED BY <1>4, <1>9
<1>11. RxChain(queued[Other(h)], e, Next1(i), o, k, n, f)
  BY <1>2, <1>3, <1>4, <1>5, <1>6, <1>7, <1>8, <1>9, <1>10, RxPassed
<1>12. check_packet(Current(h)) =>
         D + 1 \in DOMAIN queued[Other(h)] /\ Current(h) = queued[Other(h)][D + 1]
  <2> SUFFICES ASSUME check_packet(Current(h))
               PROVE  D + 1 \in DOMAIN queued[Other(h)] /\ Current(h) = queued[Other(h)][D + 1]
    OBVIOUS
  <2>1. check_packet(rx[h][i])
    BY DEF Current
  <2>2. D + 1 \in DOMAIN queued[Other(h)] /\ rx[h][i] = queued[Other(h)][D + 1]
    <3>1. Dist(i, o) \in Nat
      BY <1>6, <1>7, DistFacts
    <3>2. Pending(i, i, o, k)
      BY <1>2, <3>1 DEF Pending
    <3>3. f[i] \in DOMAIN queued[Other(h)] /\ rx[h][i] = queued[Other(h)][f[i]]
      BY <1>3, <1>6, <2>1, <3>2 DEF RxChain
    <3>4. f[i] = D + 1
      BY <1>3 DEF RxChain
    <3> QED BY <3>3, <3>4
  <2> QED BY <2>2 DEF Current
<1> QED BY <1>11, <1>12

LEMMA ChainDrop ==
  ASSUME RingInv, NEW h \in Host, ~lapped[h], Chained(h), NEW e \in Host, Drop(e)
  PROVE  Chained(h)'
<1>1. TypeOK
  BY DEF RingInv
<1>2. UNCHANGED <<queued, old_rx_ring_idx, rx_head, delivered, net, tx, tx_ring_idx, tx_head>>
  BY DEF Drop, txVars
<1>3. CASE e # h
  <2>1. UNCHANGED <<rx[h], rx_ring_idx[h]>>
    BY <1>1, <1>3 DEF Drop, TypeOK
  <2> QED BY <1>2, <2>1, ChainKept
<1>4. CASE e = h
  <2>1. PICK f \in [Slots -> Nat], c \in 0 .. RING_COUNT : Chain(h, f, c)
    BY DEF Chained
  <2>2. /\ Current(h) # KERNEL /\ ~check_packet(Current(h))
        /\ rx'[h] = [rx[h] EXCEPT ![rx_ring_idx[h]] = KERNEL]
        /\ rx_ring_idx'[h] = Next1(rx_ring_idx[h])
    BY <1>1, <1>4 DEF Drop, TypeOK
  <2>3. RxChain(queued[Other(h)], rx'[h], rx_ring_idx'[h], old_rx_ring_idx[h], rx_head[h],
                Len(delivered[h]), f)
    <3>1. SameBut(rx'[h], rx[h], rx_ring_idx[h])
      BY <1>1, <2>2 DEF TypeOK, SameBut
    <3>2. Len(delivered[h]) = IF check_packet(Current(h)) THEN Len(delivered[h]) + 1 ELSE Len(delivered[h])
      BY <2>2
    <3>3. Current(h) # KERNEL
      BY <2>2
    <3> DEFINE e1 == rx'[h]
               n == Len(delivered[h])
    <3> HIDE DEF e1, n
    <3>4. RxChain(queued[Other(h)], e1, Next1(rx_ring_idx[h]), old_rx_ring_idx[h], rx_head[h], n, f)
      BY <2>1, <3>1, <3>2, <3>3, ChainPassed DEF e1, n
    <3> QED BY <2>2, <3>4 DEF e1, n
  <2>4. Chain(h, f, c)'
    BY <1>2, <2>1, <2>3 DEF Chain
  <2> QED BY <2>4 DEF Chained
<1> QED BY <1>3, <1>4

LEMMA ChainTake ==
  ASSUME RingInv, NEW h \in Host, ~lapped[h], Chained(h), NEW e \in Host, Take(e)
  PROVE  Chained(h)'
<1>1. TypeOK /\ delivered[h] \in Seq(Packet) /\ Current(e) \in Packet
  BY TakeType DEF RingInv, TypeOK
<1>2. UNCHANGED <<queued, old_rx_ring_idx, rx_head, net, tx, tx_ring_idx, tx_head>>
  BY DEF Take, txVars
<1>3. CASE e # h
  <2>1. UNCHANGED <<rx[h], rx_ring_idx[h], delivered[h]>>
    BY <1>1, <1>3 DEF Take, TypeOK
  <2> QED BY <1>2, <2>1, ChainKept
<1>4. CASE e = h
  <2>1. PICK f \in [Slots -> Nat], c \in 0 .. RING_COUNT : Chain(h, f, c)
    BY DEF Chained
  <2>2. /\ Current(h) # KERNEL /\ check_packet(Current(h))
        /\ rx'[h] = rx[h] /\ rx_ring_idx'[h] = Next1(rx_ring_idx[h])
        /\ delivered'[h] = Append(delivered[h], Current(h))
    BY <1>1, <1>4 DEF Take, TypeOK, Kept, Current
  <2> DEFINE d == delivered[h]
             q == queued[Other(h)]
  <2>3. /\ RxChain(q, rx[h], Next1(rx_ring_idx[h]), old_rx_ring_idx[h], rx_head[h], Len(d) + 1, f)
        /\ Len(d) + 1 \in DOMAIN q /\ Current(h) = q[Len(d) + 1]
    <3>1. SameBut(rx[h], rx[h], rx_ring_idx[h])
      BY DEF SameBut
    <3> DEFINE n == Len(d) + 1
    <3>2. n = IF check_packet(Current(h)) THEN Len(delivered[h]) + 1 ELSE Len(delivered[h])
      BY <2>2
    <3>3. Current(h) # KERNEL
      BY <2>2
    <3> HIDE DEF n
    <3> QED BY <2>1, <2>2, <3>1, <3>2, <3>3, ChainPassed DEF n
  <2>4. /\ Len(delivered'[h]) = Len(d) + 1 /\ DOMAIN delivered'[h] = 1 .. Len(d) + 1
        /\ \A m \in 1 .. Len(d) + 1 :
             delivered'[h][m] = IF m = Len(d) + 1 THEN Current(h) ELSE d[m]
        /\ DOMAIN d = 1 .. Len(d) /\ Len(d) \in Nat
    BY <1>1, <1>4, <2>2
  <2>5. \A m \in DOMAIN delivered'[h] : m \in DOMAIN q /\ delivered'[h][m] = q[m]
    <3>1. \A m \in DOMAIN d : m \in DOMAIN q /\ d[m] = q[m]
      BY <2>1 DEF Chain
    <3> HIDE DEF d, q
    <3>2. \A m \in 1 .. Len(d) + 1 : m # Len(d) + 1 => m \in DOMAIN d
      BY <2>4
    <3> QED BY <2>3, <2>4, <3>1, <3>2
  <2> HIDE DEF d
  <2>6. Chain(h, f, c)'
    BY <1>2, <2>1, <2>2, <2>3, <2>4, <2>5 DEF Chain
  <2> QED BY <2>6 DEF Chained
<1> QED BY <1>3, <1>4

LEMMA ChainFree ==
  ASSUME RingInv, NEW h \in Host, ~lapped[h], Chained(h), NEW e \in Host, FreeStep(e)
  PROVE  Chained(h)'
<1>1. TypeOK
  BY DEF RingInv
<1>2. UNCHANGED <<queued, rx_ring_idx, rx_head, delivered, net, tx, tx_ring_idx, tx_head>>
  BY DEF FreeStep, txVars
<1>3. CASE e # h \/ Freed(e)
  <2>1. UNCHANGED <<rx[h], old_rx_ring_idx[h]>>
    BY <1>1, <1>3 DEF FreeStep, TypeOK
  <2> QED BY <1>2, <2>1, ChainKept
<1>4. CASE e = h /\ ~Freed(h)
  <2>1. PICK f \in [Slots -> Nat], c \in 0 .. RING_COUNT : Chain(h, f, c)
    BY DEF Chained
  <2>2. /\ rx'[h] = [rx[h] EXCEPT ![old_rx_ring_idx[h]] = KERNEL]
        /\ old_rx_ring_idx'[h] = Next1(old_rx_ring_idx[h])
        /\ rx_ring_idx[h] # old_rx_ring_idx[h]
    BY <1>1, <1>4 DEF FreeStep, Freed, TypeOK
  <2>3. /\ rx[h] \in [Slots -> Packet] /\ rx_ring_idx[h] \in Slots /\ old_rx_ring_idx[h] \in Slots
        /\ rx_head[h] \in Slots
        /\ Dist(rx_ring_idx[h], old_rx_ring_idx[h]) <= Dist(rx_head[h], old_rx_ring_idx[h])
    BY DEF RingInv, TypeOK, RingParts, Parts
  <2>4. RxChain(queued[Other(h)], rx'[h], rx_ring_idx[h], old_rx_ring_idx'[h], rx_head[h],
                Len(delivered[h]), f)
    <3>1. RxChain(queued[Other(h)], rx[h], rx_ring_idx[h], old_rx_ring_idx[h], rx_head[h],
                  Len(delivered[h]), f)
      BY <2>1 DEF Chain
    <3> QED BY <2>2, <2>3, <3>1, RxFreed
  <2>5. Chain(h, f, c)'
    BY <1>2, <2>1, <2>4 DEF Chain
  <2> QED BY <2>5 DEF Chained
<1> QED BY <1>3, <1>4

\* What a host queues are spikes, requests and answers.
LEMMA OwnPackets ==
  /\ \A n \in Int : check_packet(Sync(n)) /\ check_packet(Spike(n))
  /\ check_packet(EndOfSync)
BY DEF check_packet, Sync, Spike, EndOfSync

LEMMA OwnKept ==
  ASSUME NEW h \in Host, Own(h), UNCHANGED queued[h],
         op'[h].at = "queue" => check_packet(op'[h].packet)
  PROVE  Own(h)'
BY DEF Own, At

LEMMA OwnStep ==
  ASSUME TypeOK, NEW h \in Host, Own(h), [Next]_vars
  PROVE  Own(h)'
<1>1. ASSUME UNCHANGED <<queued, op>> PROVE Own(h)'
  BY <1>1 DEF Own, At
<1>2. ASSUME NEW e \in Host, queued' = queued, NEW c, op' = [op EXCEPT ![e] = c],
             c.at = "queue" => check_packet(c.packet)
      PROVE  Own(h)'
  <2>1. UNCHANGED queued[h]
    BY <1>2
  <2>2. op'[h].at = "queue" => check_packet(op'[h].packet)
    <3>1. CASE e = h
      <4>1. op'[h] = c
        BY <1>2, <3>1 DEF TypeOK
      <4> QED BY <1>2, <4>1
    <3>2. CASE e # h
      <4>1. op'[h] = op[h]
        BY <1>2, <3>2 DEF TypeOK
      <4> QED BY <4>1 DEF Own, At
    <3> QED BY <3>1, <3>2
  <2> QED BY <2>1, <2>2, OwnKept
<1>3. Idle.at = "idle"
  BY DEF Idle
<1>4. ASSUME NEW e \in Host, queued' = queued, NEW a, a # "queue", op' = [op EXCEPT ![e].at = a]
      PROVE  Own(h)'
  <2> DEFINE c == [op[e] EXCEPT !.at = a]
  <2>1. c.at = a /\ op' = [op EXCEPT ![e] = c]
    BY <1>4 DEF TypeOK
  <2> HIDE DEF c
  <2> QED BY <1>2, <1>4, <2>1
<1>5. ASSUME NEW e \in Host, QueueStep(e) PROVE Own(h)'
  <2>1. CASE e = h
    <3>1. queued[h] \in Seq(Packet) /\ op[h].packet \in Packet /\ check_packet(op[h].packet)
      BY <1>5, <2>1 DEF TypeOK, Own, QueueStep
    <3>2. queued'[h] = Append(queued[h], op[h].packet)
      BY <1>5, <2>1 DEF QueueStep, TypeOK
    <3>3. ASSUME NEW v \in Seq(Packet), NEW p \in Packet, check_packet(p),
                 \A m \in DOMAIN v : check_packet(v[m])
          PROVE  \A m \in DOMAIN Append(v, p) : check_packet(Append(v, p)[m])
      BY <3>3
    <3>4. \A m \in DOMAIN queued'[h] : check_packet(queued'[h][m])
      <4>1. \A m \in DOMAIN queued[h] : check_packet(queued[h][m])
        BY DEF Own
      <4> QED BY <3>1, <3>2, <3>3, <4>1
    <3>5. op'[h].at # "queue"
      BY <1>3, <1>5, <2>1 DEF QueueStep, Goto, TypeOK
    <3> QED BY <3>4, <3>5 DEF Own, At
  <2>2. CASE e # h
    <3>1. queued'[h] = queued[h] /\ op'[h] = op[h]
      BY <1>5, <2>2 DEF QueueStep, Goto, TypeOK
    <3> QED BY <3>1, OwnKept DEF Own, At
  <2> QED BY <2>1, <2>2
<1>6. ASSUME NEW e \in Host, ReceiveStep(e) PROVE Own(h)'
  BY <1>1, <1>2, <1>3, <1>6 DEF ReceiveStep, Take
<1>7. ASSUME NEW e \in Host, FreeStep(e) PROVE Own(h)'
  <2>1. AfterFree(e).at = "queue" => check_packet(AfterFree(e).packet)
    <3>1. \A n : check_packet(Sync(n)) /\ check_packet(EndOfSync)
      BY DEF check_packet, Sync, Spike, EndOfSync
    <3>2. [op[e] EXCEPT !.at = "wait"].at = "wait"
      BY DEF TypeOK
    <3>3. CASE e = "slave"
      BY <1>3, <3>2, <3>3 DEF AfterFree
    <3>4. CASE e # "slave"
      BY <3>1, <3>4 DEF AfterFree
    <3> QED BY <3>3, <3>4
  <2>2. queued' = queued /\ (op' = op \/ op' = [op EXCEPT ![e] = AfterFree(e)]
                             \/ op' = [op EXCEPT ![e] = Idle])
    BY <1>7 DEF FreeStep
  <2> QED BY <1>1, <1>2, <1>3, <2>1, <2>2
<1>8. ASSUME NEW e \in Host, SyncSend(e) PROVE Own(h)'
  <2>1. AfterSend(e).at # "queue"
    <3>1. [op[e] EXCEPT !.at = "wait"].at = "wait" /\ [op[e] EXCEPT !.at = "free"].at = "free"
      BY DEF TypeOK
    <3> QED BY <1>3, <3>1 DEF AfterSend, Host
  <2> QED BY <1>2, <1>8, <2>1 DEF SyncSend
<1>9. ASSUME NEW e \in Host, SyncWait(e) PROVE Own(h)'
  <2>1. queued' = queued
    BY <1>9 DEF SyncWait, Take
  <2>2. CASE e = "slave"
    <3>1. check_packet(Answering(Current(e)).packet)
      BY DEF Answering, check_packet, Sync
    <3>2. op' = [op EXCEPT ![e] = Answering(Current(e))]
      BY <1>9, <2>2 DEF SyncWait
    <3> QED BY <1>2, <2>1, <3>1, <3>2
  <2>3. CASE e # "slave"
    <3>1. op' = [op EXCEPT ![e].at = "free"]
      BY <1>9, <2>3 DEF SyncWait, Goto
    <3> QED BY <1>4, <2>1, <3>1
  <2> QED BY <2>2, <2>3
<1>10. ASSUME NEW e \in Host, queue_spike(e) PROVE Own(h)'
  <2> DEFINE c == [Idle EXCEPT !.at = "queue", !.packet = Spike(Spikes(e) + 1)]
  <2>1. check_packet(c.packet)
    BY DEF check_packet, Spike, Idle
  <2>2. queued' = queued /\ op' = [op EXCEPT ![e] = c]
    BY <1>10 DEF queue_spike, Call
  <2> HIDE DEF c
  <2> QED BY <1>2, <2>1, <2>2
<1>11. ASSUME NEW e \in Host, receive(e) \/ free_receive(e) PROVE Own(h)'
  <2>1. queued' = queued
        /\ (op' = [op EXCEPT ![e].at = "receive"] \/ op' = [op EXCEPT ![e].at = "free"])
    BY <1>11 DEF receive, free_receive, Call, Goto
  <2> QED BY <1>4, <2>1
<1>12. ASSUME NEW e \in Host, sync(e) PROVE Own(h)'
  <2>1. queued' = queued
    BY <1>12 DEF sync, Call
  <2>2. CASE e = "slave"
    <3> DEFINE c == [Idle EXCEPT !.at = "wait", !.mode = "sync"]
    <3>1. c.at = "wait"
      BY DEF Idle
    <3>2. op' = [op EXCEPT ![e] = c]
      BY <1>12, <2>2 DEF sync
    <3> HIDE DEF c
    <3> QED BY <1>2, <2>1, <3>1, <3>2
  <2>3. CASE e # "slave"
    <3> DEFINE c == [at |-> "queue", mode |-> "sync", i |-> 0, packet |-> Sync(syncs * iters + 1)]
    <3>1. check_packet(c.packet)
      BY DEF check_packet, Sync
    <3>2. op' = [op EXCEPT ![e] = c]
      BY <1>12, <2>3 DEF sync
    <3> HIDE DEF c
    <3> QED BY <1>2, <2>1, <3>1, <3>2
  <2> QED BY <2>2, <2>3
<1>13. ASSUME NEW e \in Host, \/ Drop(e) \/ TxDone(e) \/ Arrive(e) \/ send_thread(e)
                              \/ OtherTraffic(e) \/ Lose(e) \/ send(e)
       PROVE  Own(h)'
  BY <1>1, <1>13 DEF Drop, TxDone, Arrive, send_thread, OtherTraffic, Lose, send
<1>14. ASSUME UNCHANGED vars PROVE Own(h)'
  BY <1>1, <1>14 DEF vars
<1>15. ASSUME NEW e \in Host, Step(e) \/ Kernel(e) PROVE Own(h)'
  BY <1>5, <1>6, <1>7, <1>8, <1>9, <1>13, <1>15 DEF Step, SyncStep, Kernel
<1> QED BY <1>10, <1>11, <1>12, <1>13, <1>14, <1>15 DEF Next

LEMMA OrderInit == ASSUME Init PROVE OrderInv
<1>1. RingInv /\ 0 \in Slots /\ RING_COUNT \in Nat \ {0} /\ 0 \in 0 .. RING_COUNT
  BY TypeInit, RingInit, RealtimeAssumption DEF RingInv, Slots
<1>2. ASSUME NEW h \in Host PROVE Own(h)
  BY DEF Init, Own, At, Idle
<1>3. ASSUME NEW h \in Host PROVE Chained(h)
  <2> DEFINE f == [s \in Slots |-> 1]
  <2>1. Other(h) \in Host /\ f \in [Slots -> Nat]
    BY TwoHosts
  <2>2. ASSUME NEW s \in Slots PROVE ~Pending(s, 0, 0, 0) /\ ~(Dist(s, 0) < 0)
    <3>1. Dist(0, 0) = 0 /\ Dist(s, 0) \in Nat
      BY <1>1, DistFacts
    <3> QED BY <3>1 DEF Pending
  <2>3. /\ queued[Other(h)] = <<>> /\ delivered[h] = <<>> /\ net[h] = <<>> /\ rx_head[h] = 0
        /\ rx_ring_idx[h] = 0 /\ old_rx_ring_idx[h] = 0
        /\ tx_ring_idx[Other(h)] = 0 /\ tx_head[Other(h)] = 0
        /\ \A s \in Slots : tx[Other(h)][s].status # "SEND_REQUEST"
    BY <2>1 DEF Init, AVAILABLE
  <2>4. RxChain(queued[Other(h)], rx[h], 0, 0, 0, 0, f)
    BY <1>1, <2>2 DEF RxChain
  <2>5. TxChain(<<>>, tx[Other(h)], 0, 0, 0)
    <3>1. Dist(0, 0) = 0
      BY <1>1, DistFacts
    <3> QED BY <1>1, <2>2, <2>3, <3>1 DEF TxChain
  <2>6. f[0] = 1
    BY <1>1
  <2> HIDE DEF f
  <2>7. Chain(h, f, 0)
    BY <2>3, <2>4, <2>5, <2>6 DEF Chain, NetChain
  <2> QED BY <1>1, <2>1, <2>7 DEF Chained
<1> QED BY <1>1, <1>2, <1>3 DEF OrderInv

LEMMA ChainStep ==
  ASSUME OrderInv, NEW h \in Host, [Next]_vars, ~lost', ~lapped'[h]
  PROVE  Chained(h)'
<1>1. RingInv /\ TypeOK /\ Own(Other(h)) /\ Other(h) \in Host
  BY TwoHosts DEF OrderInv, RingInv
<1>2. CASE Next
  <2> PICK e \in Host :
        \/ Step(e) \/ Kernel(e) \/ send_thread(e) \/ OtherTraffic(e) \/ Lose(e)
        \/ queue_spike(e) \/ send(e) \/ receive(e) \/ free_receive(e) \/ sync(e)
    BY <1>2 DEF Next
  <2>1. CASE QueueStep(e)
    <3>1. Chained(h)
      BY <2>1 DEF OrderInv, QueueStep, rxVars
    <3> QED BY <1>1, <2>1, <3>1, ChainQueue
  <2>2. CASE Drop(e)
    <3>1. ~lapped[h] /\ Chained(h)
      BY <2>2 DEF OrderInv, Drop
    <3> QED BY <1>1, <2>2, <3>1, ChainDrop
  <2>3. CASE Take(e)
    <3>1. ~lapped[h] /\ Chained(h)
      BY <2>3 DEF OrderInv, Take
    <3> QED BY <1>1, <2>3, <3>1, ChainTake
  <2>4. CASE FreeStep(e)
    <3>1. ~lapped[h] /\ Chained(h)
      BY <2>4 DEF OrderInv, FreeStep
    <3> QED BY <1>1, <2>4, <3>1, ChainFree
  <2>5. CASE TxDone(e)
    <3>1. Chained(h)
      BY <2>5 DEF OrderInv, TxDone, rxVars
    <3> QED BY <1>1, <2>5, <3>1, ChainTxDone
  <2>6. ASSUME Arrive(e) \/ OtherTraffic(e) PROVE Chained(h)'
    <3>1. \E p : Fill(e, p)
      BY <2>6 DEF Arrive, OtherTraffic
    <3>2. ~lapped[h]
      BY <1>1, <3>1 DEF Fill, TypeOK
    <3>3. Chained(h)
      BY <2>6, <3>2 DEF OrderInv, Arrive, OtherTraffic
    <3> QED BY <1>1, <2>6, <3>2, <3>3, ChainArrive, ChainForeign
  <2>7. ASSUME Sendto(e), UNCHANGED <<queued, rxVars, tx_ring_idx, delivered, lost>> PROVE Chained(h)'
    <3>1. Chained(h)
      BY <2>7 DEF OrderInv, rxVars
    <3> QED BY <1>1, <2>7, <3>1, ChainSendto
  <2>8. ASSUME UNCHANGED <<txVars, rxVars, net, queued, delivered, lost>> PROVE Chained(h)'
    <3>1. Chained(h)
      BY <2>8 DEF OrderInv, rxVars
    <3> QED BY <2>8, <3>1, ChainKept DEF txVars, rxVars
  <2>9. CASE ReceiveStep(e)
    BY <2>3, <2>8, <2>9 DEF ReceiveStep
  <2>10. ASSUME SyncSend(e) \/ send(e) \/ send_thread(e) PROVE Chained(h)'
    <3>1. UNCHANGED <<tx_ring_idx, rxVars, queued, delivered, lost>>
          /\ (Sendto(e) \/ UNCHANGED <<tx, tx_head, net>>)
      BY <2>10 DEF SyncSend, send, send_thread, SendOrSkip
    <3> QED BY <2>7, <2>8, <3>1 DEF txVars
  <2>11. CASE SyncWait(e)
    BY <2>3, <2>11 DEF SyncWait
  <2>12. CASE Lose(e)
    BY <2>12 DEF Lose
  <2>13. ASSUME queue_spike(e) \/ receive(e) \/ free_receive(e) \/ sync(e) PROVE Chained(h)'
    <3>1. Call(e)
      BY <2>13 DEF queue_spike, receive, free_receive, sync
    <3> QED BY <2>8, <3>1 DEF Call
  <2> QED BY <2>1, <2>2, <2>4, <2>5, <2>6, <2>9, <2>10, <2>11, <2>12, <2>13
       DEF Step, SyncStep, Kernel
<1>3. CASE UNCHANGED vars
  <2>1. UNCHANGED <<txVars, rxVars, net, queued, delivered, lost>>
    BY <1>3 DEF vars
  <2>2. Chained(h)
    BY <2>1 DEF OrderInv, rxVars
  <2> QED BY <2>1, <2>2, ChainKept DEF txVars, rxVars
<1> QED BY <1>2, <1>3

LEMMA OrderStep == ASSUME OrderInv, [Next]_vars PROVE OrderInv'
<1>1. RingInv'
  BY RingStep DEF OrderInv
<1>2. ASSUME NEW h \in Host PROVE Own(h)'
  BY OwnStep DEF OrderInv, RingInv
<1>3. ASSUME NEW h \in Host, ~lost', ~lapped'[h] PROVE Chained(h)'
  BY <1>3, ChainStep
<1> QED BY <1>1, <1>2, <1>3 DEF OrderInv

\* Spikes and the packets of sync() are received in the order in which the other
\* host queued them, none of them twice, whoever sends them, at whatever moment its
\* thread, the kernels and free_receive run, and whatever other traffic is dropped
\* between them (RealtimeComm.h:395).
THEOREM InOrderOnceHolds == Spec => []InOrderOnce
<1>1. OrderInv => InOrderOnce
  <2> SUFFICES ASSUME OrderInv, NEW h \in Host, ~lost, ~lapped[h]
               PROVE  IsPrefix(delivered[h], queued[Other(h)])
    BY DEF InOrderOnce
  <2> DEFINE d == delivered[h]
             q == queued[Other(h)]
  <2>1. d \in Seq(Packet) /\ q \in Seq(Packet)
    BY TwoHosts DEF OrderInv, RingInv, TypeOK
  <2>2. \A m \in DOMAIN d : m \in DOMAIN q /\ d[m] = q[m]
    BY DEF OrderInv, Chained, Chain
  <2> HIDE DEF d, q
  <2>3. /\ Len(d) \in Nat /\ Len(q) \in Nat /\ DOMAIN d = 1 .. Len(d) /\ DOMAIN q = 1 .. Len(q)
    BY <2>1
  <2>4. Len(d) <= Len(q)
    <3>1. CASE Len(d) = 0
      BY <2>3, <3>1
    <3>2. CASE Len(d) # 0
      <4>1. Len(d) \in DOMAIN d
        BY <2>3, <3>2
      <4> QED BY <2>2, <2>3, <4>1
    <3> QED BY <3>1, <3>2
  <2>5. d = SubSeq(q, 1, Len(d))
    <3> DEFINE n == Len(d)
    <3>1. n \in 0 .. Len(q) /\ d = [m \in 1 .. n |-> d[m]]
      BY <2>1, <2>3, <2>4
    <3>2. \A m \in 1 .. n : d[m] = q[m]
      BY <2>2, <2>3
    <3> HIDE DEF n
    <3>3. SubSeq(q, 1, n) = [m \in 1 .. n |-> q[m]]
      BY <2>1, <3>1
    <3> QED BY <3>1, <3>2, <3>3 DEF n
  <2>6. IsPrefix(d, q)
    BY <2>4, <2>5 DEF IsPrefix
  <2> QED BY <2>6 DEF d, q
<1> QED BY <1>1, OrderInit, OrderStep, PTL DEF Spec
-----------------------------------------------------------------------------
(* The rounds of sync().  While the master is in sync(), one packet is on  *)
(* its way in either direction: its request, or the slave's answer to it.  *)

\* The packets for h: in its receive ring, in the network, in the other's transmit ring.
InRing(h, s) ==
  /\ Pending(s, rx_ring_idx[h], old_rx_ring_idx[h], rx_head[h])
  /\ rx[h][s].type \notin {"KERNEL", "FOREIGN"}
Requests(h, s) == tx[Other(h)][s].status = "SEND_REQUEST"

None(h) ==
  /\ net[h] = <<>>
  /\ \A s \in Slots : ~InRing(h, s) /\ ~Requests(h, s)

\* If there is one, it is p.
One(h, p) ==
  /\ \A s \in Slots : InRing(h, s) => rx[h][s] = p /\ net[h] = <<>>
  /\ net[h] \in {<<>>, <<p>>}
  /\ \A s \in Slots : Requests(h, s) => tx[Other(h)][s].packet = p /\ net[h] = <<>>
  /\ \A s, t \in Slots : /\ InRing(h, s) => ~Requests(h, t)
                         /\ InRing(h, s) /\ InRing(h, t) => s = t
                         /\ Requests(h, s) /\ Requests(h, t) => s = t

Round ==
  LET p == op["master"].packet
      answer == Sync(p.no)
  IN  InSync("master") =>
        IF At("master", "queue") \/ At("master", "free")
        THEN None("slave") /\ None("master") /\ ~At("slave", "queue")
        ELSE /\ One("slave", p) /\ One("master", answer)
             /\ None("slave") \/ None("master")
             /\ At("slave", "queue") =>
                  op["slave"].packet = answer /\ None("slave") /\ None("master")

ModeOf(c) ==
  IF c.mode = "sync" THEN c.at \in {"queue", "send", "wait", "free"}
  ELSE c.at \in {"idle", "queue", "receive", "free"}

Modes == \A h \in Host : ModeOf(op[h])

RoundInv ==
  /\ RingInv /\ Modes
  /\ (\A h \in Host : ~lapped[h]) => Round /\ SampleMatches

LEMMA MasterSlave ==
  /\ Other("master") = "slave" /\ Other("slave") = "master"
  /\ "master" \in Host /\ "slave" \in Host
  /\ \A h \in Host : h = "master" \/ h = "slave"
<1>1. "master" \in Host /\ "slave" \in Host /\ \A h \in Host : h = "master" \/ h = "slave"
  BY DEF Host
<1>2. Other("master") \in Host /\ Other("master") # "master"
      /\ Other("slave") \in Host /\ Other("slave") # "slave"
  BY <1>1, TwoHosts
<1> QED BY <1>1, <1>2

\* The frame that receive finds is one to be taken.
LEMMA CurrentPending ==
  ASSUME RingInv, NEW h \in Host, ~lapped[h], Current(h) # KERNEL
  PROVE  Pending(rx_ring_idx[h], rx_ring_idx[h], old_rx_ring_idx[h], rx_head[h])
<1>1. /\ rx_ring_idx[h] \in Slots /\ old_rx_ring_idx[h] \in Slots /\ rx_head[h] \in Slots
      /\ Parts(rx[h], rx_ring_idx[h], old_rx_ring_idx[h], rx_head[h], held[h])
  BY DEF RingInv, TypeOK, RingParts
<1>2. /\ Dist(rx_ring_idx[h], old_rx_ring_idx[h]) \in Nat
      /\ Dist(rx_head[h], old_rx_ring_idx[h]) \in Nat
  BY <1>1, DistFacts
<1>3. ~(Dist(rx_head[h], old_rx_ring_idx[h]) <= Dist(rx_ring_idx[h], old_rx_ring_idx[h]))
  BY <1>1 DEF Parts, Current
<1> QED BY <1>2, <1>3 DEF Pending

\* A step that leaves packets where they are, or takes them away.
LEMMA OneLess ==
  ASSUME NEW h \in Host, NEW p, One(h, p), net'[h] = net[h] \/ net'[h] = <<>>,
         \A s \in Slots : InRing(h, s)' => InRing(h, s) /\ rx'[h][s] = rx[h][s],
         \A s \in Slots : Requests(h, s)' =>
           Requests(h, s) /\ tx'[Other(h)][s].packet = tx[Other(h)][s].packet
  PROVE  One(h, p)'
<1>1. \A s \in Slots : InRing(h, s)' => rx'[h][s] = p /\ net'[h] = <<>>
  BY DEF One
<1>2. net'[h] \in {<<>>, <<p>>}
  BY DEF One
<1>3. \A s \in Slots : Requests(h, s)' => tx'[Other(h)][s].packet = p /\ net'[h] = <<>>
  BY DEF One
<1>4. \A s, t \in Slots : /\ InRing(h, s)' => ~Requests(h, t)'
                          /\ InRing(h, s)' /\ InRing(h, t)' => s = t
                          /\ Requests(h, s)' /\ Requests(h, t)' => s = t
  BY DEF One
<1> QED BY <1>1, <1>2, <1>3, <1>4 DEF One

LEMMA RingSame ==
  ASSUME NEW h \in Host,
         UNCHANGED <<rx[h], rx_ring_idx[h], old_rx_ring_idx[h], rx_head[h]>>
  PROVE  \A s \in Slots : InRing(h, s)' => InRing(h, s) /\ rx'[h][s] = rx[h][s]
BY DEF InRing

LEMMA RequestsSame ==
  ASSUME NEW h \in Host, UNCHANGED tx[Other(h)]
  PROVE  \A s \in Slots : Requests(h, s)' =>
           Requests(h, s) /\ tx'[Other(h)][s].packet = tx[Other(h)][s].packet
BY DEF Requests

\* A frame that the kernel writes is the last of those to be taken.
LEMMA InRingFill ==
  ASSUME RingInv, NEW h \in Host, ~lapped[h], ~lapped'[h], NEW p \in Packet, Fill(h, p),
         UNCHANGED <<rx_ring_idx, old_rx_ring_idx>>, NEW s \in Slots, InRing(h, s)'
  PROVE  \/ InRing(h, s) /\ rx'[h][s] = rx[h][s]
         \/ s = rx_head[h] /\ rx'[h][s] = p /\ p.type \notin {"KERNEL", "FOREIGN"}
<1> DEFINE i == rx_ring_idx[h]
           o == old_rx_ring_idx[h]
           k == rx_head[h]
<1>1. /\ rx'[h] = [rx[h] EXCEPT ![k] = p] /\ rx_head'[h] = Next1(k) /\ Next1(k) # o
  BY FillSlot
<1>2. rx[h] \in [Slots -> Packet] /\ i \in Slots /\ o \in Slots /\ k \in Slots
  BY DEF RingInv, TypeOK
<1>3. CASE s = k
  BY <1>1, <1>2, <1>3 DEF InRing
<1>4. CASE s # k
  <2>1. rx'[h][s] = rx[h][s]
    BY <1>1, <1>2, <1>4
  <2>2. Pending(s, i, o, Next1(k)) /\ rx[h][s].type \notin {"KERNEL", "FOREIGN"}
    BY <1>1, <2>1 DEF InRing
  <2> HIDE DEF i, o, k
  <2>3. Dist(Next1(k), o) = Dist(k, o) + 1 /\ Dist(s, o) # Dist(k, o)
        /\ Dist(s, o) \in Nat /\ Dist(k, o) \in Nat
    BY <1>1, <1>2, <1>4, DistFacts
  <2>4. Pending(s, i, o, k)
    BY <2>2, <2>3 DEF Pending
  <2> QED BY <2>1, <2>2, <2>4 DEF InRing, i, o, k
<1> QED BY <1>3, <1>4

LEMMA OneArrive ==
  ASSUME RingInv, NEW h \in Host, ~lapped[h], ~lapped'[h], NEW p \in Packet, One(h, p),
         NEW e \in Host, Arrive(e)
  PROVE  One(h, p)'
<1>1. TypeOK /\ UNCHANGED <<tx, rx_ring_idx, old_rx_ring_idx>>
      /\ Fill(e, Head(net[e])) /\ net[e] # <<>> /\ net' = [net EXCEPT ![e] = Tail(@)]
  BY DEF RingInv, Arrive, txVars
<1>2. CASE e # h
  <2>1. UNCHANGED <<rx[h], rx_head[h], net[h]>>
    BY <1>1, <1>2 DEF Fill, TypeOK
  <2> QED BY <1>1, <2>1, OneLess, RingSame, RequestsSame
<1>3. CASE e = h
  <2>1. net[h] = <<p>> /\ Head(net[h]) = p
    BY <1>1, <1>3 DEF One
  <2>2. net'[h] = <<>>
    <3>1. net'[h] = Tail(net[h])
      BY <1>1, <1>3 DEF TypeOK
    <3> QED BY <2>1, <3>1
  <2>3. \A s \in Slots : ~InRing(h, s) /\ ~Requests(h, s)
    <3>1. net[h] # <<>>
      BY <1>1, <1>3
    <3> QED BY <3>1 DEF One
  <2>4. \A s \in Slots : ~Requests(h, s)'
    BY <1>1, <2>3 DEF Requests
  <2>5. Fill(h, p)
    BY <1>1, <1>3, <2>1
  <2>6. ASSUME NEW s \in Slots, InRing(h, s)' PROVE s = rx_head[h] /\ rx'[h][s] = p
    BY <1>1, <2>3, <2>5, <2>6, InRingFill
  <2> QED BY <2>2, <2>4, <2>6 DEF One
<1> QED BY <1>2, <1>3

LEMMA OneSendto ==
  ASSUME RingInv, NEW h \in Host, NEW p \in Packet, One(h, p), NEW e \in Host, Sendto(e),
         UNCHANGED rxVars
  PROVE  One(h, p)'
<1>1. TypeOK /\ Other(h) \in Host /\ Other(Other(h)) = h
      /\ UNCHANGED <<rx, rx_ring_idx, old_rx_ring_idx, rx_head>>
  BY TwoHosts DEF RingInv, rxVars
<1>2. CASE e # Other(h)
  <2>1. Other(e) # h
    BY <1>2, TwoHosts
  <2>2. UNCHANGED <<tx[Other(h)], net[h]>>
    BY <1>1, <1>2, <2>1 DEF Sendto, TypeOK
  <2> QED BY <1>1, <2>2, OneLess, RingSame, RequestsSame
<1>3. CASE e = Other(h)
  <2>1. PICK n \in 0 .. RING_COUNT :
          /\ Requested(e) = [k \in 1 .. n |-> (tx_head[e] + (k - 1)) % RING_COUNT]
          /\ \A j \in 0 .. n - 1 : tx[e][(tx_head[e] + j) % RING_COUNT].status = "SEND_REQUEST"
    BY <1>1, RequestedRun
  <2>2. tx_head[e] \in Slots /\ RING_COUNT \in Nat \ {0} /\ Other(e) = h
    BY <1>1, <1>3, RealtimeAssumption DEF TypeOK
  <2>3. ASSUME NEW j \in 0 .. n - 1
        PROVE  (tx_head[e] + j) % RING_COUNT \in Slots
               /\ Dist((tx_head[e] + j) % RING_COUNT, tx_head[e]) = j
               /\ Requests(h, (tx_head[e] + j) % RING_COUNT)
    <3>1. j \in 0 .. RING_COUNT - 1
      BY <2>2
    <3> QED BY <1>3, <2>1, <2>2, <3>1, SlotDist DEF Requests
  <2>4. n = 0 \/ n = 1
    <3> SUFFICES ASSUME n >= 2 PROVE FALSE
      BY <2>2
    <3>1. 0 \in 0 .. n - 1 /\ 1 \in 0 .. n - 1
      BY <2>2
    <3>2. (tx_head[e] + 0) % RING_COUNT = (tx_head[e] + 1) % RING_COUNT
      BY <2>3, <3>1 DEF One
    <3> QED BY <2>3, <3>1, <3>2
  <2> DEFINE slots == Requested(e)
             w == [k \in DOMAIN slots |-> tx[e][slots[k]].packet]
  <2>5. /\ tx'[e] = [i \in Slots |->
                      IF i \in ToSet(slots) THEN [tx[e][i] EXCEPT !.status = "SENDING"] ELSE tx[e][i]]
        /\ net'[h] = net[h] \o w
    BY <1>1, <1>3, <2>2 DEF Sendto, TypeOK
  <2>6. CASE n = 0
    <3>1. DOMAIN slots = {} /\ slots = <<>>
      BY <2>1, <2>6
    <3>2. w = <<>> /\ ToSet(slots) = {}
      BY <3>1 DEF ToSet
    <3> HIDE DEF w, slots
    <3>3. net'[h] = net[h]
      <4>1. net[h] \in Seq(Packet)
        BY <1>1 DEF TypeOK
      <4> QED BY <2>5, <3>2, <4>1
    <3>4. tx'[e] = tx[e]
      <4>1. tx[e] \in [Slots -> [status : {"AVAILABLE", "SEND_REQUEST", "SENDING"}, packet : Packet]]
        BY <1>1 DEF TypeOK
      <4> QED BY <2>5, <3>2, <4>1
    <3> QED BY <1>1, <1>3, <3>3, <3>4, OneLess, RingSame, RequestsSame
  <2>7. CASE n = 1
    <3> DEFINE a == (tx_head[e] + 0) % RING_COUNT
    <3>1. a \in Slots /\ Requests(h, a) /\ tx[e][a].packet = p /\ net[h] = <<>>
      <4>1. 0 \in 0 .. n - 1
        BY <2>7
      <4>2. a \in Slots /\ Requests(h, a)
        BY <2>3, <4>1
      <4> HIDE DEF a
      <4> QED BY <1>3, <4>2 DEF One
    <3>2. slots = [k \in {1} |-> a]
      <4>1. slots = [k \in 1 .. 1 |-> (tx_head[e] + (k - 1)) % RING_COUNT]
        BY <2>1, <2>7
      <4>2. \A k \in 1 .. 1 : k = 1 /\ k - 1 = 0
        OBVIOUS
      <4> HIDE DEF slots
      <4> QED BY <4>1, <4>2
    <3> HIDE DEF slots, a
    <3>3. DOMAIN slots = {1} /\ slots[1] = a /\ ToSet(slots) = {a}
      BY <3>2 DEF ToSet
    <3>4. w = <<p>>
      <4>1. w = [k \in {1} |-> p]
        BY <3>1, <3>3
      <4> HIDE DEF w
      <4> QED BY <4>1
    <3>5. net'[h] = <<p>>
      <4> HIDE DEF w
      <4> QED BY <2>5, <3>1, <3>4
    <3>6. ASSUME NEW s \in Slots PROVE ~Requests(h, s)'
      <4>1. CASE s = a
        <5>1. tx[e][a] \in [status : {"AVAILABLE", "SEND_REQUEST", "SENDING"}, packet : Packet]
          BY <1>1, <3>1 DEF TypeOK
        <5>2. tx'[e][s].status = "SENDING"
          BY <2>5, <3>3, <4>1, <5>1
        <5> QED BY <1>3, <5>2 DEF Requests
      <4>2. CASE s # a
        <5>1. ~Requests(h, s)
          BY <3>1, <4>2 DEF One
        <5>2. tx'[e][s] = tx[e][s]
          BY <2>5, <3>3, <4>2
        <5> QED BY <1>3, <5>1, <5>2 DEF Requests
      <4> QED BY <4>1, <4>2
    <3>7. \A s \in Slots : ~InRing(h, s)'
      BY <1>1, <3>1 DEF One, InRing
    <3> QED BY <3>5, <3>6, <3>7 DEF One
  <2> QED BY <2>4, <2>6, <2>7
<1> QED BY <1>2, <1>3

LEMMA PassedPending ==
  ASSUME NEW i \in Slots, NEW o \in Slots, NEW k \in Slots, Dist(i, o) < Dist(k, o),
         NEW s \in Slots, Pending(s, Next1(i), o, k)
  PROVE  Pending(s, i, o, k) /\ s # i
<1>1. /\ Dist(i, o) \in 0 .. RING_COUNT - 1 /\ Dist(k, o) \in 0 .. RING_COUNT - 1
      /\ RING_COUNT \in Nat /\ Dist(s, o) \in Nat
  BY DistFacts, RealtimeAssumption
<1>2. Next1(i) # o
  <2>1. SUFFICES ASSUME Next1(i) = o PROVE FALSE
    OBVIOUS
  <2>2. Dist(i, Next1(i)) = RING_COUNT - 1
    BY DistFacts
  <2> QED BY <1>1, <2>1, <2>2
<1>3. Dist(Next1(i), o) = Dist(i, o) + 1
  BY <1>2, DistFacts
<1> QED BY <1>1, <1>3 DEF Pending

LEMMA FreedPending ==
  ASSUME NEW i \in Slots, NEW o \in Slots, NEW k \in Slots, Dist(i, o) <= Dist(k, o), i # o,
         NEW s \in Slots, Pending(s, i, Next1(o), k)
  PROVE  Pending(s, i, o, k) /\ s # o
<1>1. /\ Dist(i, o) \in 0 .. RING_COUNT - 1 /\ Dist(k, o) \in 0 .. RING_COUNT - 1
      /\ Dist(i, o) # 0 /\ RING_COUNT \in Nat
  BY DistFacts, RealtimeAssumption
<1>2. k # o
  BY <1>1, DistFacts
<1>3. Dist(i, Next1(o)) = Dist(i, o) - 1 /\ Dist(k, Next1(o)) = Dist(k, o) - 1
  BY <1>2, DistFacts
<1>4. s # o
  <2>1. Dist(o, Next1(o)) = RING_COUNT - 1
    BY DistFacts
  <2> QED BY <1>1, <1>3, <2>1 DEF Pending
<1>5. Dist(s, Next1(o)) = Dist(s, o) - 1 /\ Dist(s, o) \in Nat
  BY <1>4, DistFacts
<1> QED BY <1>1, <1>3, <1>4, <1>5 DEF Pending

\* What a host takes is no longer on its way.
LEMMA InRingPassed ==
  ASSUME RingInv, NEW h \in Host, ~lapped[h], Current(h) # KERNEL,
         rx_ring_idx'[h] = Next1(rx_ring_idx[h]), UNCHANGED <<old_rx_ring_idx, rx_head>>,
         SameBut(rx'[h], rx[h], rx_ring_idx[h]), NEW s \in Slots, InRing(h, s)'
  PROVE  InRing(h, s) /\ rx'[h][s] = rx[h][s] /\ s # rx_ring_idx[h]
<1>1. /\ rx_ring_idx[h] \in Slots /\ old_rx_ring_idx[h] \in Slots /\ rx_head[h] \in Slots
  BY DEF RingInv, TypeOK
<1>2. Dist(rx_ring_idx[h], old_rx_ring_idx[h]) < Dist(rx_head[h], old_rx_ring_idx[h])
  BY CurrentPending DEF Pending
<1>3. Pending(s, Next1(rx_ring_idx[h]), old_rx_ring_idx[h], rx_head[h])
  BY DEF InRing
<1>4. Pending(s, rx_ring_idx[h], old_rx_ring_idx[h], rx_head[h]) /\ s # rx_ring_idx[h]
  BY <1>1, <1>2, <1>3, PassedPending
<1> QED BY <1>4 DEF InRing, SameBut

LEMMA OneDrop ==
  ASSUME RingInv, NEW h \in Host, ~lapped[h], NEW p, One(h, p), NEW e \in Host, Drop(e)
  PROVE  One(h, p)'
<1>1. TypeOK /\ UNCHANGED <<tx, net, old_rx_ring_idx, rx_head>>
  BY DEF RingInv, Drop, txVars
<1>2. CASE e # h
  <2>1. UNCHANGED <<rx[h], rx_ring_idx[h]>>
    BY <1>1, <1>2 DEF Drop, TypeOK
  <2> QED BY <1>1, <2>1, OneLess, RingSame, RequestsSame
<1>3. CASE e = h
  <2>1. /\ Current(h) # KERNEL /\ rx_ring_idx'[h] = Next1(rx_ring_idx[h])
        /\ SameBut(rx'[h], rx[h], rx_ring_idx[h])
    BY <1>1, <1>3 DEF Drop, TypeOK, SameBut
  <2>2. \A s \in Slots : InRing(h, s)' => InRing(h, s) /\ rx'[h][s] = rx[h][s]
    BY <1>1, <2>1, InRingPassed
  <2> QED BY <1>1, <2>2, OneLess, RequestsSame
<1> QED BY <1>2, <1>3

LEMMA TakePasses ==
  ASSUME RingInv, NEW h \in Host, Take(h)
  PROVE  /\ Current(h) # KERNEL /\ rx_ring_idx'[h] = Next1(rx_ring_idx[h])
         /\ SameBut(rx'[h], rx[h], rx_ring_idx[h])
         /\ UNCHANGED <<tx, net, old_rx_ring_idx, rx_head>>
         /\ \A g \in Host \ {h} : UNCHANGED <<rx[g], rx_ring_idx[g]>>
BY DEF Take, RingInv, TypeOK, SameBut, txVars

LEMMA OneTake ==
  ASSUME RingInv, NEW h \in Host, ~lapped[h], NEW p, One(h, p), NEW e \in Host, Take(e)
  PROVE  One(h, p)'
<1>1. UNCHANGED <<tx, net, old_rx_ring_idx, rx_head>>
  BY TakePasses
<1>2. CASE e # h
  <2>1. UNCHANGED <<rx[h], rx_ring_idx[h]>>
    BY <1>2, TakePasses
  <2> QED BY <1>1, <2>1, OneLess, RingSame, RequestsSame
<1>3. CASE e = h
  <2>1. \A s \in Slots : InRing(h, s)' => InRing(h, s) /\ rx'[h][s] = rx[h][s]
    BY <1>1, <1>3, TakePasses, InRingPassed
  <2> QED BY <1>1, <2>1, OneLess, RequestsSame
<1> QED BY <1>2, <1>3

LEMMA OneFree ==
  ASSUME RingInv, NEW h \in Host, ~lapped[h], NEW p, One(h, p), NEW e \in Host, FreeStep(e)
  PROVE  One(h, p)'
<1>1. TypeOK /\ UNCHANGED <<tx, net, rx_ring_idx, rx_head>>
  BY DEF RingInv, FreeStep, txVars
<1>2. CASE e # h \/ Freed(e)
  <2>1. UNCHANGED <<rx[h], old_rx_ring_idx[h]>>
    BY <1>1, <1>2 DEF FreeStep, TypeOK
  <2> QED BY <1>1, <2>1, OneLess, RingSame, RequestsSame
<1>3. CASE e = h /\ ~Freed(h)
  <2>1. /\ rx_ring_idx[h] # old_rx_ring_idx[h] /\ old_rx_ring_idx'[h] = Next1(old_rx_ring_idx[h])
        /\ SameBut(rx'[h], rx[h], old_rx_ring_idx[h])
    BY <1>1, <1>3 DEF FreeStep, Freed, TypeOK, SameBut
  <2>2. /\ rx_ring_idx[h] \in Slots /\ old_rx_ring_idx[h] \in Slots /\ rx_head[h] \in Slots
        /\ Dist(rx_ring_idx[h], old_rx_ring_idx[h]) <= Dist(rx_head[h], old_rx_ring_idx[h])
    BY DEF RingInv, TypeOK, RingParts, Parts
  <2>3. ASSUME NEW s \in Slots, InRing(h, s)' PROVE InRing(h, s) /\ rx'[h][s] = rx[h][s]
    <3>1. Pending(s, rx_ring_idx[h], Next1(old_rx_ring_idx[h]), rx_head[h])
      BY <1>1, <2>1, <2>3 DEF InRing
    <3>2. Pending(s, rx_ring_idx[h], old_rx_ring_idx[h], rx_head[h]) /\ s # old_rx_ring_idx[h]
      BY <2>1, <2>2, <3>1, FreedPending
    <3> QED BY <2>1, <2>3, <3>2 DEF InRing, SameBut
  <2> QED BY <1>1, <2>3, OneLess, RequestsSame
<1> QED BY <1>2, <1>3

LEMMA OneForeign ==
  ASSUME RingInv, NEW h \in Host, ~lapped[h], ~lapped'[h], NEW p, One(h, p), NEW e \in Host,
         OtherTraffic(e)
  PROVE  One(h, p)'
<1>1. TypeOK /\ UNCHANGED <<tx, net, rx_ring_idx, old_rx_ring_idx>> /\ Fill(e, Foreign)
      /\ Foreign \in Packet /\ Foreign.type = "FOREIGN"
  BY PacketTypes DEF RingInv, OtherTraffic, txVars, Foreign
<1>2. CASE e # h
  <2>1. UNCHANGED <<rx[h], rx_head[h]>>
    BY <1>1, <1>2 DEF Fill, TypeOK
  <2> QED BY <1>1, <2>1, OneLess, RingSame, RequestsSame
<1>3. CASE e = h
  <2>1. ASSUME NEW s \in Slots, InRing(h, s)' PROVE InRing(h, s) /\ rx'[h][s] = rx[h][s]
    BY <1>1, <1>3, <2>1, InRingFill
  <2> QED BY <1>1, <2>1, OneLess, RequestsSame
<1> QED BY <1>2, <1>3

LEMMA OneTxDone ==
  ASSUME RingInv, NEW h \in Host, NEW p, One(h, p), NEW e \in Host, TxDone(e)
  PROVE  One(h, p)'
<1>1. TypeOK /\ UNCHANGED <<net, rx, rx_ring_idx, old_rx_ring_idx, rx_head>> /\ Other(h) \in Host
  BY TwoHosts DEF RingInv, TxDone, rxVars
<1>2. \A s \in Slots : Requests(h, s)' =>
        Requests(h, s) /\ tx'[Other(h)][s].packet = tx[Other(h)][s].packet
  <2>1. \A s \in Slots : tx'[Other(h)][s] = tx[Other(h)][s] \/ tx'[Other(h)][s] = AVAILABLE
    BY <1>1 DEF TxDone, TypeOK
  <2>2. AVAILABLE.status # "SEND_REQUEST"
    BY DEF AVAILABLE
  <2> QED BY <2>1, <2>2 DEF Requests
<1> QED BY <1>1, <1>2, OneLess, RingSame

LEMMA OneLose ==
  ASSUME RingInv, NEW h \in Host, NEW p, One(h, p), NEW e \in Host, Lose(e)
  PROVE  One(h, p)'
<1>1. TypeOK /\ UNCHANGED <<tx, rx, rx_ring_idx, old_rx_ring_idx, rx_head>> /\ net[e] # <<>>
      /\ net' = [net EXCEPT ![e] = Tail(@)]
  BY DEF RingInv, Lose, rxVars, txVars
<1>2. net'[h] = net[h] \/ net'[h] = <<>>
  <2>1. CASE e # h
    BY <1>1, <2>1 DEF TypeOK
  <2>2. CASE e = h
    <3>1. net[h] = <<p>> /\ net'[h] = Tail(net[h])
      BY <1>1, <2>2 DEF TypeOK, One
    <3>2. Tail(<<p>>) = <<>>
      OBVIOUS
    <3> QED BY <3>1, <3>2
  <2> QED BY <2>1, <2>2
<1> QED BY <1>1, <1>2, OneLess, RingSame, RequestsSame

\* The other host's own sending does not concern what is on its way to it.
LEMMA OneQueue ==
  ASSUME RingInv, NEW h \in Host, NEW p, One(h, p), QueueStep(h)
  PROVE  One(h, p)'
<1>1. UNCHANGED <<net, rx, rx_ring_idx, old_rx_ring_idx, rx_head, tx[Other(h)]>>
  BY TwoHosts DEF RingInv, TypeOK, QueueStep, rxVars
<1> QED BY <1>1, OneLess, RingSame, RequestsSame

LEMMA OneQueued ==
  ASSUME RingInv, NEW h \in Host, None(h), QueueStep(Other(h))
  PROVE  \E p \in Packet : p = op[Other(h)].packet /\ One(h, p)'
<1> DEFINE e == Other(h)
<1>1. TypeOK /\ e \in Host /\ UNCHANGED <<net, rx, rx_ring_idx, old_rx_ring_idx, rx_head>>
  BY TwoHosts DEF RingInv, QueueStep, rxVars
<1> PICK p \in Packet : p = op[e].packet
  BY <1>1 DEF TypeOK
<1>2. tx_ring_idx[e] \in Slots
  BY <1>1 DEF TypeOK
<1>3. tx'[e] = [tx[e] EXCEPT ![tx_ring_idx[e]] = [status |-> "SEND_REQUEST", packet |-> p]]
  BY <1>1 DEF QueueStep, TypeOK
<1>4. \A s \in Slots : ~InRing(h, s)' /\ net'[h] = <<>>
  BY <1>1 DEF None, InRing
<1>5. ASSUME NEW s \in Slots, Requests(h, s)' PROVE s = tx_ring_idx[e] /\ tx'[e][s].packet = p
  <2>1. s = tx_ring_idx[e]
    <3> SUFFICES ASSUME s # tx_ring_idx[e] PROVE FALSE
      OBVIOUS
    <3>1. tx'[e][s] = tx[e][s]
      BY <1>1, <1>2, <1>3 DEF TypeOK
    <3> QED BY <1>5, <3>1 DEF None, Requests
  <2>2. tx'[e][tx_ring_idx[e]] = [status |-> "SEND_REQUEST", packet |-> p]
    BY <1>1, <1>2, <1>3 DEF TypeOK
  <2> QED BY <2>1, <2>2
<1>6. net'[h] = <<>>
  BY <1>1 DEF None
<1>7. One(h, p)'
  BY <1>4, <1>5, <1>6 DEF One
<1> QED BY <1>7

LEMMA OneKept ==
  ASSUME RingInv, NEW h \in Host, ~lapped[h], ~lapped'[h], NEW p \in Packet, One(h, p),
         [Next]_vars, ~QueueStep(Other(h))
  PROVE  One(h, p)'
<1>1. CASE Next
  <2> PICK e \in Host :
        \/ Step(e) \/ Kernel(e) \/ send_thread(e) \/ OtherTraffic(e) \/ Lose(e)
        \/ queue_spike(e) \/ send(e) \/ receive(e) \/ free_receive(e) \/ sync(e)
    BY <1>1 DEF Next
  <2>1. CASE QueueStep(e)
    <3>1. e = h
      BY <2>1, TwoHosts
    <3> QED BY <2>1, <3>1, OneQueue
  <2>2. CASE Drop(e)
    BY <2>2, OneDrop
  <2>3. ASSUME Take(e) PROVE One(h, p)'
    BY <2>3, OneTake
  <2>4. CASE FreeStep(e)
    BY <2>4, OneFree
  <2>5. CASE TxDone(e)
    BY <2>5, OneTxDone
  <2>6. CASE Arrive(e)
    BY <2>6, OneArrive
  <2>7. CASE OtherTraffic(e)
    BY <2>7, OneForeign
  <2>8. CASE Lose(e)
    BY <2>8, OneLose
  <2>9. ASSUME Sendto(e), UNCHANGED rxVars PROVE One(h, p)'
    BY <2>9, OneSendto
  <2>10. ASSUME UNCHANGED <<txVars, rxVars, net>> PROVE One(h, p)'
    BY <2>10, OneLess, RingSame, RequestsSame DEF txVars, rxVars
  <2>11. CASE ReceiveStep(e)
    BY <2>3, <2>10, <2>11 DEF ReceiveStep
  <2>12. ASSUME SyncSend(e) \/ send(e) \/ send_thread(e) PROVE One(h, p)'
    <3>1. UNCHANGED <<tx_ring_idx, rxVars>> /\ (Sendto(e) \/ UNCHANGED <<tx, tx_head, net>>)
      BY <2>12 DEF SyncSend, send, send_thread, SendOrSkip
    <3> QED BY <2>9, <2>10, <3>1 DEF txVars
  <2>13. CASE SyncWait(e)
    BY <2>3, <2>13 DEF SyncWait
  <2>14. ASSUME queue_spike(e) \/ receive(e) \/ free_receive(e) \/ sync(e) PROVE One(h, p)'
    <3>1. Call(e)
      BY <2>14 DEF queue_spike, receive, free_receive, sync
    <3> QED BY <2>10, <3>1 DEF Call
  <2> QED BY <2>1, <2>2, <2>4, <2>5, <2>6, <2>7, <2>8, <2>11, <2>12, <2>13, <2>14
       DEF Step, SyncStep, Kernel
<1>2. CASE UNCHANGED vars
  <2>1. UNCHANGED <<txVars, rxVars, net>>
    BY <1>2 DEF vars
  <2> QED BY <2>1, OneLess, RingSame, RequestsSame DEF txVars, rxVars
<1> QED BY <1>1, <1>2

\* Nothing is on its way: whatever there is, it is two packets at once.
LEMMA NoneIsOne ==
  ASSUME NEW h \in Host
  PROVE  None(h) <=> One(h, KERNEL) /\ One(h, EndOfSync)
<1>1. KERNEL # EndOfSync
  BY DEF KERNEL, EndOfSync, Spike
<1>2. <<KERNEL>> # <<EndOfSync>> /\ <<KERNEL>> # <<>> /\ <<EndOfSync>> # <<>>
  BY <1>1
<1>3. ASSUME None(h) PROVE One(h, KERNEL) /\ One(h, EndOfSync)
  BY <1>3 DEF None, One
<1>4. ASSUME One(h, KERNEL), One(h, EndOfSync) PROVE None(h)
  <2>1. net[h] = <<>>
    BY <1>2, <1>4 DEF One
  <2>2. \A s \in Slots : ~InRing(h, s) /\ ~Requests(h, s)
    BY <1>1, <1>4 DEF One
  <2> QED BY <2>1, <2>2 DEF None
<1> QED BY <1>3, <1>4

LEMMA NoneKept ==
  ASSUME RingInv, NEW h \in Host, ~lapped[h], ~lapped'[h], None(h), [Next]_vars,
         ~QueueStep(Other(h))
  PROVE  None(h)'
<1>1. One(h, KERNEL)' /\ One(h, EndOfSync)'
  BY NoneIsOne, OneKept, PacketTypes
<1>2. (None(h) <=> One(h, KERNEL) /\ One(h, EndOfSync))'
  BY NoneIsOne, PTL
<1> QED BY <1>1, <1>2

\* receive takes the packet that is on its way, and then nothing is.
LEMMA OneTaken ==
  ASSUME RingInv, NEW h \in Host, ~lapped[h], ~lapped'[h], NEW p \in Packet, One(h, p), Take(h)
  PROVE  ~None(h) /\ Current(h) = p /\ None(h)'
<1> DEFINE i == rx_ring_idx[h]
<1>1. /\ Current(h) # KERNEL /\ check_packet(Current(h)) /\ Current(h) \in Packet /\ i \in Slots
  BY TakeType DEF Take, RingInv, TypeOK
<1>2. InRing(h, i)
  <2>1. Pending(i, i, old_rx_ring_idx[h], rx_head[h])
    BY <1>1, CurrentPending
  <2>2. Current(h).type # "KERNEL" \/ check_packet(Current(h))
    BY <1>1
  <2> QED BY <1>1, <2>1 DEF InRing, Current, check_packet, KERNEL, Packet
<1>3. ~None(h) /\ Current(h) = p
  BY <1>1, <1>2 DEF None, One, Current
<1>4. UNCHANGED <<tx, net>> /\ \A s \in Slots : InRing(h, s)' => InRing(h, s) /\ s # i
  BY TakePasses, InRingPassed
<1>5. None(h)'
  BY <1>1, <1>2, <1>4 DEF One, None, Requests
<1> QED BY <1>3, <1>5

LEMMA NothingIsNone ==
  ASSUME RingInv, NEW h \in Host, NothingFrom(Other(h))
  PROVE  None(h)
<1>1. Other(h) \in Host /\ Other(Other(h)) = h
  BY TwoHosts
<1> QED BY <1>1 DEF NothingFrom, None, InRing, Requests

LEMMA ModesStep == ASSUME TypeOK, Modes, [Next]_vars PROVE Modes'
<1>1. ASSUME NEW e \in Host, NEW c, ModeOf(c), op' = op \/ op' = [op EXCEPT ![e] = c] PROVE Modes'
  BY <1>1 DEF Modes, TypeOK
<1>2. ModeOf(Idle)
  BY DEF ModeOf, Idle
<1>3. \A e \in Host : op[e] \in CallState /\ ModeOf(op[e])
  BY OpType DEF Modes
<1>4. ASSUME NEW e \in Host, NEW a, op' = [op EXCEPT ![e].at = a], ModeOf([op[e] EXCEPT !.at = a])
      PROVE  Modes'
  <2> DEFINE c == [op[e] EXCEPT !.at = a]
  <2>1. op' = [op EXCEPT ![e] = c]
    BY <1>4 DEF TypeOK
  <2> HIDE DEF c
  <2> QED BY <1>1, <1>4, <2>1 DEF c
<1>5. ASSUME NEW e \in Host, QueueStep(e) PROVE Modes'
  <2>1. CASE InSync(e)
    <3>1. op' = [op EXCEPT ![e].at = "send"]
      BY <1>5, <2>1 DEF QueueStep, Goto
    <3>2. ModeOf([op[e] EXCEPT !.at = "send"])
      BY <1>3, <2>1 DEF ModeOf, InSync, CallState
    <3> QED BY <1>4, <3>1, <3>2
  <2>2. CASE ~InSync(e)
    BY <1>1, <1>2, <1>5, <2>2 DEF QueueStep
  <2> QED BY <2>1, <2>2
<1>6. ASSUME NEW e \in Host, ReceiveStep(e) PROVE Modes'
  BY <1>1, <1>2, <1>6 DEF ReceiveStep
<1>7. ASSUME NEW e \in Host, FreeStep(e) PROVE Modes'
  <2>1. CASE InSync(e)
    <3>1. op' = op \/ op' = [op EXCEPT ![e] = AfterFree(e)]
      BY <1>7, <2>1 DEF FreeStep
    <3>2. ModeOf(AfterFree(e))
      <4>1. CASE e = "slave"
        BY <1>2, <1>3, <2>1, <4>1 DEF AfterFree, ModeOf, InSync, CallState
      <4>2. CASE e # "slave"
        BY <4>2 DEF AfterFree, ModeOf
      <4> QED BY <4>1, <4>2
    <3> QED BY <1>1, <3>1, <3>2
  <2>2. CASE ~InSync(e)
    BY <1>1, <1>2, <1>7, <2>2 DEF FreeStep
  <2> QED BY <2>1, <2>2
<1>8. ASSUME NEW e \in Host, SyncSend(e) PROVE Modes'
  <2>1. op[e].mode = "sync"
    BY <1>3, <1>8 DEF SyncSend, At, ModeOf
  <2>2. ModeOf([op[e] EXCEPT !.at = "free"]) /\ ModeOf([op[e] EXCEPT !.at = "wait"])
    BY <1>3, <2>1 DEF ModeOf, CallState
  <2>3. ModeOf(AfterSend(e))
    BY <1>2, <2>2 DEF AfterSend, Host
  <2> QED BY <1>1, <1>8, <2>3 DEF SyncSend
<1>9. ASSUME NEW e \in Host, SyncWait(e) PROVE Modes'
  <2>1. CASE e = "slave"
    <3>1. ModeOf(Answering(Current(e)))
      BY DEF ModeOf, Answering
    <3> QED BY <1>1, <1>9, <2>1, <3>1 DEF SyncWait
  <2>2. CASE e # "slave"
    <3>1. op' = [op EXCEPT ![e].at = "free"]
      BY <1>9, <2>2 DEF SyncWait, Goto
    <3>2. ModeOf([op[e] EXCEPT !.at = "free"])
      BY <1>3 DEF ModeOf, CallState
    <3> QED BY <1>4, <3>1, <3>2
  <2> QED BY <2>1, <2>2
<1>10. ASSUME NEW e \in Host, queue_spike(e) PROVE Modes'
  <2> DEFINE c == [Idle EXCEPT !.at = "queue", !.packet = Spike(Spikes(e) + 1)]
  <2>1. ModeOf(c)
    BY DEF ModeOf, Idle
  <2>2. op' = [op EXCEPT ![e] = c]
    BY <1>10 DEF queue_spike
  <2> HIDE DEF c
  <2> QED BY <1>1, <2>1, <2>2
<1>11. ASSUME NEW e \in Host, receive(e) \/ free_receive(e) PROVE Modes'
  <2>1. op[e].at = "idle" /\ op[e].mode # "sync"
    BY <1>3, <1>11 DEF receive, free_receive, Call, At, ModeOf
  <2>2. ModeOf([op[e] EXCEPT !.at = "receive"]) /\ ModeOf([op[e] EXCEPT !.at = "free"])
    BY <1>3, <2>1 DEF ModeOf, CallState
  <2>3. op' = [op EXCEPT ![e].at = "receive"] \/ op' = [op EXCEPT ![e].at = "free"]
    BY <1>11 DEF receive, free_receive, Goto
  <2> QED BY <1>4, <2>2, <2>3
<1>12. ASSUME NEW e \in Host, sync(e) PROVE Modes'
  <2> DEFINE c == [Idle EXCEPT !.at = "wait", !.mode = "sync"]
             d == [at |-> "queue", mode |-> "sync", i |-> 0, packet |-> Sync(syncs * iters + 1)]
  <2>1. ModeOf(c) /\ ModeOf(d)
    BY DEF ModeOf, Idle
  <2>2. op' = [op EXCEPT ![e] = c] \/ op' = [op EXCEPT ![e] = d]
    BY <1>12 DEF sync
  <2> HIDE DEF c, d
  <2> QED BY <1>1, <2>1, <2>2
<1>13. ASSUME UNCHANGED op PROVE Modes'
  BY <1>13 DEF Modes
<1>14. ASSUME NEW e \in Host, \/ Drop(e) \/ TxDone(e) \/ Arrive(e) \/ send_thread(e)
                              \/ OtherTraffic(e) \/ Lose(e) \/ send(e)
       PROVE  Modes'
  BY <1>13, <1>14 DEF Drop, TxDone, Arrive, send_thread, OtherTraffic, Lose, send
<1>15. ASSUME UNCHANGED vars PROVE Modes'
  BY <1>13, <1>15 DEF vars
<1>16. ASSUME NEW e \in Host, Step(e) \/ Kernel(e) PROVE Modes'
  BY <1>5, <1>6, <1>7, <1>8, <1>9, <1>14, <1>16 DEF Step, SyncStep, Kernel
<1> QED BY <1>10, <1>11, <1>12, <1>14, <1>15, <1>16 DEF Next

\* A step of the slave or of the kernels that is not one of the round.
LEMMA RoundKept ==
  ASSUME RingInv, [Next]_vars, \A h \in Host : ~lapped[h] /\ ~lapped'[h], Round,
         op'["master"] = op["master"],
         op'["slave"].at = "queue" => op'["slave"] = op["slave"],
         \A h \in Host : ~QueueStep(h)
  PROVE  Round'
<1>1. ASSUME NEW h \in Host, None(h) PROVE None(h)'
  BY <1>1, NoneKept, TwoHosts
<1>2. ASSUME NEW h \in Host, NEW p \in Packet, One(h, p) PROVE One(h, p)'
  BY <1>2, OneKept, TwoHosts
<1>3. PICK p \in Packet : p = op["master"].packet
  BY MasterSlave DEF RingInv, TypeOK
<1>4. PICK a \in Packet : a = Sync(p.no)
  <2>1. p.no \in Int
    BY DEF Packet, KERNEL
  <2> QED BY <2>1, PacketTypes
<1>5. SUFFICES ASSUME InSync("master")'
               PROVE  IF At("master", "queue") \/ At("master", "free")
                      THEN None("slave")' /\ None("master")' /\ ~At("slave", "queue")'
                      ELSE /\ One("slave", p)' /\ One("master", a)'
                           /\ None("slave")' \/ None("master")'
                           /\ At("slave", "queue")' =>
                                op'["slave"].packet = a /\ None("slave")' /\ None("master")'
  BY <1>3, <1>4 DEF Round, At
<1>6. InSync("master")
  BY <1>5 DEF InSync
<1>7. At("slave", "queue")' => At("slave", "queue") /\ op'["slave"] = op["slave"]
  BY DEF At
<1>8. CASE At("master", "queue") \/ At("master", "free")
  BY <1>1, <1>6, <1>7, <1>8, MasterSlave DEF Round
<1>9. CASE ~(At("master", "queue") \/ At("master", "free"))
  BY <1>1, <1>2, <1>3, <1>4, <1>6, <1>7, <1>9, MasterSlave DEF Round
<1> QED BY <1>8, <1>9

\* Who queues leaves "queue", and is the only one to move.
LEMMA QueueAlone ==
  ASSUME TypeOK, NEW h \in Host, NEW c, op' = [op EXCEPT ![h] = c], op[h].at # "queue" \/ op' = op,
         NEW g \in Host, QueueStep(g)
  PROVE  FALSE
<1>1. op[g] \in CallState /\ op[g].at = "queue"
  BY OpType DEF QueueStep, At
<1>2. op'[g].at # "queue"
  <2>1. CASE InSync(g)
    BY <1>1, <2>1 DEF QueueStep, Goto, TypeOK
  <2>2. CASE ~InSync(g)
    BY <2>2 DEF QueueStep, Idle, TypeOK
  <2> QED BY <2>1, <2>2
<1>3. op'[g] = op[g]
  BY <1>1 DEF TypeOK
<1> QED BY <1>1, <1>2, <1>3

LEMMA RoundSame ==
  ASSUME RingInv, [Next]_vars, \A h \in Host : ~lapped[h] /\ ~lapped'[h], Round, UNCHANGED op
  PROVE  Round'
<1>1. TypeOK /\ op' = [op EXCEPT !["slave"] = op["slave"]]
  BY MasterSlave DEF RingInv, TypeOK
<1>2. \A h \in Host : ~QueueStep(h)
  BY <1>1, MasterSlave, QueueAlone
<1> QED BY <1>2, RoundKept

LEMMA RoundSlave ==
  ASSUME RingInv, [Next]_vars, \A h \in Host : ~lapped[h] /\ ~lapped'[h], Round,
         NEW c, op' = [op EXCEPT !["slave"] = c], c.at # "queue", op["slave"].at # "queue"
  PROVE  Round'
<1>1. TypeOK /\ op'["slave"] = c /\ op'["master"] = op["master"]
  BY MasterSlave DEF RingInv, TypeOK
<1>2. \A h \in Host : ~QueueStep(h)
  BY <1>1, MasterSlave, QueueAlone
<1> QED BY <1>1, <1>2, RoundKept

\* The master is in no round, or between two of them.
LEMMA RoundOver == ASSUME op'["master"].mode # "sync" PROVE Round'
BY DEF Round, InSync

LEMMA RoundNone ==
  ASSUME op'["master"].at \in {"queue", "free"}, op'["slave"].at # "queue",
         None("slave")', None("master")'
  PROVE  Round'
BY DEF Round, At

\* After the request, or the answer to it, is taken the other is not there.
LEMMA RoundOne ==
  ASSUME NEW p \in Packet, op'["master"].packet = p,
         op'["master"].at \notin {"queue", "free"}, op'["slave"].at # "queue",
         \/ One("slave", p)' /\ None("master")'
         \/ None("slave")' /\ One("master", Sync(p.no))'
  PROVE  Round'
<1>1. \A q : \A h \in Host : None(h)' => One(h, q)'
  BY DEF None, One
<1>2. One("slave", p)' /\ One("master", Sync(p.no))' /\ (None("slave")' \/ None("master")')
  BY <1>1, MasterSlave
<1> QED BY <1>2 DEF Round, At

\* The slave turns the request into its answer.
LEMMA RoundAnswer ==
  ASSUME NEW p \in Packet, op'["master"].packet = p,
         op'["master"].at \notin {"queue", "free"}, op'["slave"].packet = Sync(p.no),
         None("slave")', None("master")'
  PROVE  Round'
<1>1. \A q : \A h \in Host : None(h)' => One(h, q)'
  BY DEF None, One
<1>2. One("slave", p)' /\ One("master", Sync(p.no))'
  BY <1>1, MasterSlave
<1> QED BY <1>2 DEF Round, At

LEMMA RoundQueue ==
  ASSUME RoundInv, [Next]_vars, \A h \in Host : ~lapped[h] /\ ~lapped'[h], NEW e \in Host,
         QueueStep(e)
  PROVE  Round'
<1>1. /\ RingInv /\ TypeOK /\ Round /\ op[e].at = "queue"
      /\ \A h \in Host : op[h] \in CallState
  BY OpType DEF RoundInv, RingInv, QueueStep, At
<1>2. \A h \in Host : QueueStep(h) => h = e
  <2>1. PICK c : op' = [op EXCEPT ![e] = c]
    <3>1. CASE InSync(e)
      <4>1. op' = [op EXCEPT ![e] = [op[e] EXCEPT !.at = "send"]]
        BY <1>1, <3>1 DEF QueueStep, Goto, TypeOK
      <4> QED BY <4>1
    <3>2. CASE ~InSync(e)
      BY <3>2 DEF QueueStep
    <3> QED BY <3>1, <3>2
  <2>2. ASSUME NEW h \in Host, QueueStep(h), h # e PROVE FALSE
    <3>1. op[h].at = "queue" /\ op'[h] = op[h]
      BY <1>1, <2>1, <2>2 DEF TypeOK, QueueStep, At
    <3>2. op'[h].at # "queue"
      BY <1>1, <2>2 DEF QueueStep, Goto, TypeOK, Idle
    <3> QED BY <3>1, <3>2
  <2> QED BY <2>2
<1>3. CASE ~InSync("master")
  <2>1. CASE e = "master"
    <3>1. op' = [op EXCEPT !["master"] = Idle]
      BY <1>3, <2>1 DEF QueueStep
    <3>2. op'["master"].mode # "sync"
      BY <1>1, <3>1, MasterSlave DEF TypeOK, Idle
    <3> QED BY <3>2, RoundOver
  <2>2. CASE e = "slave"
    <3>1. op'["master"] = op["master"]
      BY <1>1, <2>2, MasterSlave DEF QueueStep, Goto, TypeOK
    <3> QED BY <1>3, <3>1, RoundOver DEF InSync
  <2> QED BY <2>1, <2>2, MasterSlave
<1>4. CASE InSync("master") /\ e = "master"
  <2>1. None("slave") /\ None("master") /\ ~At("slave", "queue")
    BY <1>1, <1>4 DEF Round, At
  <2>2. op' = [op EXCEPT !["master"].at = "send"]
    BY <1>4 DEF QueueStep, Goto
  <2>3. /\ op'["master"].packet = op["master"].packet /\ op'["master"].at = "send"
        /\ op'["slave"] = op["slave"]
    BY <1>1, <2>2, MasterSlave DEF TypeOK
  <2>4. PICK p \in Packet : p = op["master"].packet /\ One("slave", p)'
    BY <1>1, <1>4, <2>1, MasterSlave, OneQueued
  <2>5. None("master")'
    BY <1>1, <1>2, <1>4, <2>1, MasterSlave, NoneKept
  <2> QED BY <2>1, <2>3, <2>4, <2>5, RoundOne DEF At
<1>5. CASE InSync("master") /\ e = "slave"
  <2>1. op'["master"] = op["master"] /\ op'["slave"].at # "queue"
    BY <1>1, <1>5, MasterSlave DEF QueueStep, Goto, TypeOK, Idle
  <2>2. PICK p \in Packet : p = op["master"].packet
    BY <1>1, MasterSlave DEF TypeOK
  <2>3. /\ ~At("master", "queue") /\ ~At("master", "free") /\ None("slave") /\ None("master")
        /\ op["slave"].packet = Sync(p.no)
    BY <1>1, <1>5, <2>2 DEF Round, At
  <2>4. One("master", Sync(p.no))'
    <3>1. PICK a \in Packet : a = op["slave"].packet /\ One("master", a)'
      BY <1>1, <1>5, <2>3, MasterSlave, OneQueued
    <3> QED BY <2>3, <3>1
  <2>5. None("slave")'
    BY <1>1, <1>2, <1>5, <2>3, MasterSlave, NoneKept
  <2> QED BY <2>1, <2>2, <2>3, <2>4, <2>5, RoundOne DEF At
<1> QED BY <1>3, <1>4, <1>5, MasterSlave

\* What a program does outside sync(), and what the slave does to free a frame.
LEMMA RoundFree ==
  ASSUME RoundInv, [Next]_vars, \A h \in Host : ~lapped[h] /\ ~lapped'[h], NEW e \in Host,
         FreeStep(e)
  PROVE  Round'
<1>1. RingInv /\ TypeOK /\ Round /\ op[e] \in CallState /\ op[e].at = "free"
  BY OpType DEF RoundInv, RingInv, FreeStep, At
<1>2. CASE op' = op
  BY <1>1, <1>2, RoundSame
<1>3. CASE op' # op /\ e = "slave"
  <2>1. PICK c : op' = [op EXCEPT !["slave"] = c] /\ (c = Idle \/ c = [op["slave"] EXCEPT !.at = "wait"])
    BY <1>3 DEF FreeStep, AfterFree
  <2>2. c.at # "queue"
    BY <1>1, <1>3, <2>1 DEF Idle, CallState
  <2> QED BY <1>1, <1>3, <2>1, <2>2, RoundSlave
<1>4. CASE op' # op /\ e = "master" /\ ~InSync("master")
  <2>1. op' = [op EXCEPT !["master"] = Idle]
    BY <1>4 DEF FreeStep
  <2>2. op'["master"].mode # "sync"
    BY <1>1, <2>1, MasterSlave DEF TypeOK, Idle
  <2> QED BY <2>2, RoundOver
<1>5. CASE op' # op /\ e = "master" /\ InSync("master")
  <2>1. op' = [op EXCEPT !["master"] = AfterFree("master")]
    BY <1>5 DEF FreeStep
  <2>2. op'["master"].at = "queue" /\ op'["slave"] = op["slave"]
    BY <1>1, <2>1, MasterSlave DEF TypeOK, AfterFree
  <2>3. None("slave") /\ None("master") /\ op["slave"].at # "queue"
    BY <1>1, <1>5 DEF Round, At
  <2>4. \A h \in Host : ~QueueStep(h)
    BY <1>1, <1>5, <2>1, MasterSlave, QueueAlone
  <2>5. None("slave")' /\ None("master")'
    BY <1>1, <2>3, <2>4, MasterSlave, NoneKept
  <2> QED BY <2>2, <2>3, <2>5, RoundNone
<1> QED BY <1>2, <1>3, <1>4, <1>5, MasterSlave

LEMMA RoundSend ==
  ASSUME RoundInv, [Next]_vars, \A h \in Host : ~lapped[h] /\ ~lapped'[h], NEW e \in Host,
         SyncSend(e)
  PROVE  Round'
<1>1. /\ RingInv /\ TypeOK /\ Round /\ op[e] \in CallState /\ op[e].at = "send"
      /\ op' = [op EXCEPT ![e] = AfterSend(e)]
  BY OpType DEF RoundInv, RingInv, SyncSend, At
<1>2. CASE e = "slave"
  <2>1. AfterSend("slave").at # "queue"
    BY <1>1, <1>2 DEF AfterSend, CallState
  <2> QED BY <1>1, <1>2, <2>1, RoundSlave
<1>3. CASE e = "master" /\ op["master"].packet.type # "SYNC"
  <2>1. op'["master"] = Idle
    BY <1>1, <1>3, MasterSlave DEF TypeOK, AfterSend
  <2> QED BY <2>1, RoundOver DEF Idle
<1>4. CASE e = "master" /\ op["master"].packet.type = "SYNC"
  <2>1. /\ op'["master"].packet = op["master"].packet /\ op'["master"].at = "wait"
        /\ op'["slave"] = op["slave"]
    BY <1>1, <1>4, MasterSlave DEF TypeOK, AfterSend, CallState
  <2>2. InSync("master")
    BY <1>1, <1>4 DEF RoundInv, Modes, ModeOf, InSync
  <2>3. \A h \in Host : ~QueueStep(h)
    BY <1>1, <1>4, MasterSlave, QueueAlone
  <2>4. PICK p \in Packet : p = op["master"].packet
    BY <1>1, MasterSlave DEF TypeOK
  <2>5. PICK a \in Packet : a = Sync(p.no)
    <3>1. p.no \in Int
      BY DEF Packet, KERNEL
    <3> QED BY <3>1, PacketTypes
  <2>6. /\ One("slave", p) /\ One("master", a)
        /\ None("slave") \/ None("master")
        /\ At("slave", "queue") => op["slave"].packet = a /\ None("slave") /\ None("master")
    BY <1>1, <1>4, <2>2, <2>4, <2>5 DEF Round, At
  <2>7. One("slave", p)' /\ One("master", a)'
    BY <1>1, <2>3, <2>6, MasterSlave, OneKept
  <2>8. /\ None("slave") => None("slave")'
        /\ None("master") => None("master")'
    BY <1>1, <2>3, MasterSlave, NoneKept
  <2> QED BY <2>1, <2>4, <2>5, <2>6, <2>7, <2>8 DEF Round, At
<1> QED BY <1>2, <1>3, <1>4, MasterSlave

LEMMA RoundCall ==
  ASSUME RoundInv, Orderly, [Next]_vars, \A h \in Host : ~lapped[h] /\ ~lapped'[h], NEW e \in Host,
         queue_spike(e) \/ receive(e) \/ free_receive(e) \/ sync(e)
  PROVE  Round'
<1>1. /\ RingInv /\ TypeOK /\ Round /\ op[e] \in CallState /\ op[e].at = "idle"
      /\ op[e].mode # "sync"
  <2>1. RingInv /\ TypeOK /\ Round /\ op[e] \in CallState
    BY OpType DEF RoundInv, RingInv
  <2>2. op[e].at = "idle"
    BY DEF queue_spike, receive, free_receive, sync, Call, At
  <2> QED BY <2>1, <2>2 DEF RoundInv, Modes, ModeOf
<1>2. CASE e = "master" /\ ~sync(e)
  <2>1. CASE queue_spike(e)
    <3>1. [Idle EXCEPT !.at = "queue", !.packet = Spike(Spikes("master") + 1)].mode = "user"
      BY DEF Idle
    <3>2. op'["master"] = [Idle EXCEPT !.at = "queue", !.packet = Spike(Spikes("master") + 1)]
      BY <1>1, <1>2, <2>1, MasterSlave DEF queue_spike, TypeOK
    <3> QED BY <3>1, <3>2, RoundOver
  <2>2. CASE receive(e) \/ free_receive(e)
    <3>1. op' = [op EXCEPT !["master"].at = "receive"] \/ op' = [op EXCEPT !["master"].at = "free"]
      BY <1>2, <2>2 DEF receive, free_receive, Goto
    <3>2. op'["master"].mode = op["master"].mode
      BY <1>1, <3>1, MasterSlave DEF TypeOK
    <3> QED BY <1>1, <1>2, <3>2, RoundOver
  <2> QED BY <1>2, <2>1, <2>2
<1>3. CASE e = "slave" /\ queue_spike(e)
  <2>1. ~InSync("master")
    BY <1>3, MasterSlave DEF queue_spike, Undisturbing
  <2>2. op'["master"] = op["master"]
    BY <1>1, <1>3, MasterSlave DEF queue_spike, TypeOK
  <2> QED BY <2>1, <2>2, RoundOver DEF InSync
<1>4. CASE e = "slave" /\ ~queue_spike(e)
  <2> DEFINE s == op["slave"]
  <2>1. \/ op' = [op EXCEPT !["slave"] = [s EXCEPT !.at = "receive"]]
        \/ op' = [op EXCEPT !["slave"] = [s EXCEPT !.at = "free"]]
        \/ op' = [op EXCEPT !["slave"] = [Idle EXCEPT !.at = "wait", !.mode = "sync"]]
    BY <1>1, <1>4 DEF receive, free_receive, sync, Goto, TypeOK
  <2>2. /\ [s EXCEPT !.at = "receive"].at # "queue" /\ [s EXCEPT !.at = "free"].at # "queue"
        /\ [Idle EXCEPT !.at = "wait", !.mode = "sync"].at # "queue"
    BY <1>1, <1>4 DEF CallState, Idle
  <2> QED BY <1>1, <1>4, <2>1, <2>2, RoundSlave
<1>5. CASE e = "master" /\ sync(e)
  <2>1. /\ NothingFrom("master") /\ NothingFrom("slave")
        /\ op["slave"].at # "queue"
    BY <1>5, MasterSlave DEF sync, At
  <2>2. None("slave") /\ None("master")
    BY <1>1, <2>1, MasterSlave, NothingIsNone
  <2>3. PICK c : op' = [op EXCEPT !["master"] = c] /\ c.at = "queue"
    <3> DEFINE d == [at |-> "queue", mode |-> "sync", i |-> 0, packet |-> Sync(syncs * iters + 1)]
    <3>1. op' = [op EXCEPT !["master"] = d] /\ d.at = "queue"
      BY <1>5 DEF sync
    <3> HIDE DEF d
    <3> QED BY <3>1
  <2>4. \A h \in Host : ~QueueStep(h)
    BY <1>1, <1>5, <2>3, MasterSlave, QueueAlone
  <2>5. None("slave")' /\ None("master")'
    BY <1>1, <2>2, <2>4, MasterSlave, NoneKept
  <2>6. op'["master"].at = "queue" /\ op'["slave"] = op["slave"]
    BY <1>1, <2>3, MasterSlave DEF TypeOK
  <2> QED BY <2>1, <2>5, <2>6, RoundNone
<1> QED BY <1>2, <1>3, <1>4, <1>5, MasterSlave

LEMMA RoundWait ==
  ASSUME RoundInv, [Next]_vars, \A h \in Host : ~lapped[h] /\ ~lapped'[h], NEW e \in Host,
         SyncWait(e)
  PROVE  Round' /\ SampleMatches'
<1>1. /\ RingInv /\ TypeOK /\ Round /\ SampleMatches /\ op[e] \in CallState /\ op[e].at = "wait"
      /\ Take(e) /\ Current(e) \in Packet
  BY OpType, TakeType DEF RoundInv, RingInv, SyncWait, At
<1>2. PICK c : op' = [op EXCEPT ![e] = c]
  <2>1. CASE e = "slave"
    BY <2>1 DEF SyncWait
  <2>2. CASE e # "slave"
    <3>1. op' = [op EXCEPT ![e] = [op[e] EXCEPT !.at = "free"]]
      BY <1>1, <2>2 DEF SyncWait, Goto, TypeOK
    <3> QED BY <3>1
  <2> QED BY <2>1, <2>2
<1>3. \A h \in Host : ~QueueStep(h)
  BY <1>1, <1>2, QueueAlone
<1>4. PICK p \in Packet : p = op["master"].packet
  BY <1>1, MasterSlave DEF TypeOK
<1>5. Sync(p.no) \in Packet /\ Sync(p.no).no = p.no /\ p.no \in Int
  <2>1. p.no \in Int
    BY DEF Packet, KERNEL
  <2> QED BY <2>1, PacketTypes DEF Sync
<1>6. CASE e = "slave"
  <2>1. samples' = samples /\ op' = [op EXCEPT !["slave"] = Answering(Current("slave"))]
    BY <1>6 DEF SyncWait
  <2>2. SampleMatches'
    BY <1>1, <2>1 DEF SampleMatches
  <2>3. op'["master"] = op["master"] /\ op'["slave"].packet = Sync(Current("slave").no)
    BY <1>1, <2>1, MasterSlave DEF TypeOK, Answering
  <2>4. CASE ~InSync("master")
    BY <2>2, <2>3, <2>4, RoundOver DEF InSync
  <2>5. CASE InSync("master")
    <3>1. ~None("slave")
      <4>1. ASSUME None("slave") PROVE FALSE
        <5>1. One("slave", KERNEL)
          BY <4>1, MasterSlave, NoneIsOne
        <5> QED BY <1>1, <1>6, <4>1, <5>1, MasterSlave, OneTaken, PacketTypes
      <4> QED BY <4>1
    <3>2. /\ op["master"].at \notin {"queue", "free"} /\ One("slave", p) /\ None("master")
      BY <1>1, <1>4, <2>5, <3>1 DEF Round, At
    <3>3. Current("slave") = p /\ None("slave")'
      BY <1>1, <1>6, <3>2, MasterSlave, OneTaken
    <3>4. None("master")'
      BY <1>1, <1>3, <3>2, MasterSlave, NoneKept
    <3> QED BY <1>4, <2>2, <2>3, <3>2, <3>3, <3>4, RoundAnswer
  <2> QED BY <2>4, <2>5
<1>7. CASE e = "master"
  <2>1. /\ op' = [op EXCEPT !["master"].at = "free"]
        /\ samples' = Append(samples, <<p.no, Current("master").no>>)
    BY <1>4, <1>7, MasterSlave DEF SyncWait, Goto
  <2>2. op'["master"].at = "free" /\ op'["slave"] = op["slave"]
    BY <1>1, <2>1, MasterSlave DEF TypeOK
  <2>3. InSync("master")
    BY <1>1, <1>7 DEF RoundInv, Modes, ModeOf, InSync
  <2>4. One("master", Sync(p.no))
    BY <1>1, <1>4, <1>7, <2>3 DEF Round, At
  <2>5. ~None("master") /\ Current("master") = Sync(p.no) /\ None("master")'
    BY <1>1, <1>5, <1>7, <2>4, MasterSlave, OneTaken
  <2>6. None("slave") /\ op["slave"].at # "queue"
    BY <1>1, <1>4, <1>7, <2>3, <2>5 DEF Round, At
  <2>7. None("slave")'
    BY <1>1, <1>3, <2>6, MasterSlave, NoneKept
  <2>8. Round'
    BY <2>2, <2>5, <2>6, <2>7, RoundNone
  <2>9. SampleMatches'
    <3> DEFINE n == p.no
    <3>1. n \in Int /\ samples' = Append(samples, <<n, n>>) /\ samples \in Seq(Int \X Int)
      BY <1>1, <1>5, <2>1, <2>5 DEF TypeOK
    <3>2. \A k \in DOMAIN samples : samples[k][1] = samples[k][2]
      BY <1>1 DEF SampleMatches
    <3> HIDE DEF n
    <3>3. \A k \in DOMAIN samples' : samples'[k][1] = samples'[k][2]
      BY <3>1, <3>2
    <3> QED BY <3>3 DEF SampleMatches
  <2> QED BY <2>8, <2>9
<1> QED BY <1>6, <1>7, MasterSlave

LEMMA LappedGrows ==
  ASSUME TypeOK, [Next]_vars, \A h \in Host : ~lapped'[h]
  PROVE  \A h \in Host : ~lapped[h]
<1>1. CASE Next
  <2> PICK e \in Host :
        \/ Step(e) \/ Kernel(e) \/ send_thread(e) \/ OtherTraffic(e) \/ Lose(e)
        \/ queue_spike(e) \/ send(e) \/ receive(e) \/ free_receive(e) \/ sync(e)
    BY <1>1 DEF Next
  <2>1. ASSUME NEW p, Fill(e, p) PROVE \A h \in Host : lapped[h] => lapped'[h]
    BY <2>1 DEF Fill, TypeOK
  <2>2. CASE Arrive(e) \/ OtherTraffic(e)
    BY <2>1, <2>2 DEF Arrive, OtherTraffic
  <2>3. CASE Step(e) \/ TxDone(e)
    BY <2>3 DEF Step, TxDone, QueueStep, Drop, ReceiveStep, FreeStep, SyncStep, SyncSend, SyncWait,
                Take, rxVars
  <2>4. CASE \/ send_thread(e) \/ Lose(e)
             \/ queue_spike(e) \/ send(e) \/ receive(e) \/ free_receive(e) \/ sync(e)
    BY <2>4 DEF send_thread, Lose, queue_spike, send, receive, free_receive, sync, Call, rxVars
  <2> QED BY <2>2, <2>3, <2>4 DEF Kernel
<1>2. CASE UNCHANGED vars
  BY <1>2 DEF vars, rxVars
<1> QED BY <1>1, <1>2

\* receive is called outside sync().
LEMMA RoundReceive ==
  ASSUME RoundInv, [Next]_vars, \A h \in Host : ~lapped[h] /\ ~lapped'[h], NEW e \in Host,
         ReceiveStep(e)
  PROVE  Round' /\ UNCHANGED samples
<1>1. /\ RingInv /\ TypeOK /\ Round /\ op[e].at = "receive"
      /\ op' = op \/ op' = [op EXCEPT ![e] = Idle]
  BY DEF RoundInv, RingInv, ReceiveStep, At
<1>2. ASSUME op' = op PROVE Round'
  BY <1>1, <1>2, RoundSame
<1>3. ASSUME op' = [op EXCEPT !["slave"] = Idle], e = "slave" PROVE Round'
  BY <1>1, <1>3, RoundSlave DEF Idle
<1>4. ASSUME op' = [op EXCEPT !["master"] = Idle] PROVE Round'
  BY <1>1, <1>4, MasterSlave, RoundOver DEF TypeOK, Idle
<1>5. UNCHANGED samples
  BY DEF ReceiveStep
<1> QED BY <1>1, <1>2, <1>3, <1>4, <1>5, MasterSlave

LEMMA RoundStep == ASSUME RoundInv, Orderly, [Next]_vars PROVE RoundInv'
<1>1. RingInv /\ RingInv' /\ Modes' /\ TypeOK
  BY RingStep, ModesStep DEF RoundInv, RingInv
<1>2. SUFFICES ASSUME \A h \in Host : ~lapped'[h] PROVE Round' /\ SampleMatches'
  BY <1>1 DEF RoundInv
<1>3. \A h \in Host : ~lapped[h]
  BY <1>1, <1>2, LappedGrows
<1>4. Round /\ SampleMatches
  BY <1>3 DEF RoundInv
<1>5. ASSUME UNCHANGED samples PROVE SampleMatches'
  BY <1>3, <1>4, <1>5 DEF SampleMatches
<1>6. ASSUME UNCHANGED <<op, samples>> PROVE Round' /\ SampleMatches'
  BY <1>1, <1>2, <1>3, <1>4, <1>5, <1>6, RoundSame
<1>7. CASE Next
  <2> PICK e \in Host :
        \/ Step(e) \/ Kernel(e) \/ send_thread(e) \/ OtherTraffic(e) \/ Lose(e)
        \/ queue_spike(e) \/ send(e) \/ receive(e) \/ free_receive(e) \/ sync(e)
    BY <1>7 DEF Next
  <2>1. CASE QueueStep(e)
    BY <1>2, <1>3, <1>5, <2>1, RoundQueue DEF QueueStep
  <2>2. CASE ReceiveStep(e)
    BY <1>2, <1>3, <1>5, <2>2, RoundReceive
  <2>3. CASE FreeStep(e)
    BY <1>2, <1>3, <1>5, <2>3, RoundFree DEF FreeStep
  <2>4. CASE SyncSend(e)
    BY <1>2, <1>3, <1>5, <2>4, RoundSend DEF SyncSend
  <2>5. CASE SyncWait(e)
    BY <1>2, <1>3, <2>5, RoundWait
  <2>6. CASE queue_spike(e) \/ receive(e) \/ free_receive(e) \/ sync(e)
    <3>1. UNCHANGED samples
      BY <2>6 DEF queue_spike, receive, free_receive, sync, Call
    <3> QED BY <1>2, <1>3, <1>5, <2>6, <3>1, RoundCall
  <2>7. CASE \/ Drop(e) \/ Kernel(e) \/ send_thread(e) \/ OtherTraffic(e) \/ Lose(e) \/ send(e)
    <3>1. UNCHANGED <<op, samples>>
      BY <2>7 DEF Drop, Kernel, TxDone, Arrive, send_thread, OtherTraffic, Lose, send
    <3> QED BY <1>6, <3>1
  <2> QED BY <2>1, <2>2, <2>3, <2>4, <2>5, <2>6, <2>7 DEF Step, SyncStep
<1>8. CASE UNCHANGED vars
  BY <1>6, <1>8 DEF vars
<1> QED BY <1>7, <1>8

LEMMA RoundInit == ASSUME Init PROVE RoundInv
<1>1. RingInv
  BY TypeInit, RingInit DEF RingInv
<1>2. \A h \in Host : op[h] = Idle
  BY DEF Init
<1>3. Modes /\ Round
  BY <1>2, MasterSlave DEF Modes, ModeOf, Round, InSync, Idle
<1>4. SampleMatches
  BY DEF Init, SampleMatches
<1> QED BY <1>1, <1>3, <1>4 DEF RoundInv

\* In sync() started on an empty link, and while no ring is overrun, the packet that
\* the master takes for the answer to a request is the answer to this request, so
\* that every round trip it measures is one: lost packets, other traffic, the two
\* hosts' threads and the slave's being late for its own sync() make no difference
\* (RealtimeComm.h:483).
THEOREM SampleMatchesHolds == ASSUME Orderly PROVE Spec => []SampleMatches
<1>1. RoundInv => SampleMatches
  BY DEF RoundInv, SampleMatches
<1>2. RoundInv /\ [Next]_vars => RoundInv'
  BY RoundStep
<1> QED BY <1>1, <1>2, RoundInit, PTL DEF Spec
=============================================================================
