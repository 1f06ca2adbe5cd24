---------------------------- MODULE RealtimeLink ----------------------------
(***************************************************************************)
(* Two hosts that exchange spikes by UDP frames in rings shared with their *)
(* kernels, and synchronise their clocks                                   *)
(* (units/communication/source/RealtimeComm.h).                            *)
(*                                                                         *)
(* A slot of a receive ring belongs to the kernel (TP_STATUS_KERNEL) or    *)
(* holds a frame for the program; a slot of a transmit ring is available,  *)
(* requested to be sent or being sent.  Clocks are left out: timestamps    *)
(* are the numbers of the requests they belong to.                         *)
(***************************************************************************)
EXTENDS Integers, Sequences, SequencesExt

CONSTANTS RING_COUNT,
          iters,       \* round trips of one sync(), 10000
          threaded,    \* the hosts with a sender thread
          Lossy,       \* the network loses packets: one, to bound the model
          Orderly,     \* sync() starts on an empty link
          MaxSpikes,   \* bounds on the spikes of each host
          MaxForeign,  \* bound on the frames of other traffic
          MaxSyncs     \* bound on the synchronisations

Host == {"master", "slave"}
Other(h) == CHOOSE g \in Host : g # h
Slots == 0 .. RING_COUNT - 1

ASSUME RealtimeAssumption ==
  /\ RING_COUNT \in Nat \ {0} /\ iters \in Nat \ {0} /\ threaded \subseteq Host
  /\ Lossy \in BOOLEAN /\ Orderly \in BOOLEAN
  /\ MaxSpikes \in [Host -> Nat] /\ MaxForeign \in Nat /\ MaxSyncs \in Nat

VARIABLES
  tx, tx_ring_idx, tx_head,             \* transmit rings; tx_head is the kernel's
  rx, rx_ring_idx, old_rx_ring_idx, rx_head,
  net,       \* packets on their way to a host
  op,        \* the call in progress: where it is, and what it works on
  held,      \* frames delivered and not freed: slot and packet
  queued, delivered,     \* history of each host
  lapped,    \* the kernel has caught up with a host's oldest frame: from then on the
             \* same frames are delivered again and again, and no history is kept
  samples,   \* numbers of a request of sync() and of the answer taken for it
  lost,      \* a packet was lost
  syncs, foreign         \* for MaxSyncs and MaxForeign

txVars == <<tx, tx_ring_idx, tx_head>>
rxVars == <<rx, rx_ring_idx, old_rx_ring_idx, rx_head, held, lapped>>
vars   == <<txVars, rxVars, net, op, queued, delivered, samples, lost, syncs, foreign>>

Next1(i) == (i + 1) % RING_COUNT

Sync(n)   == [type |-> "SYNC", no |-> n]
Spike(n)  == [type |-> "SPIKES", no |-> n]
Foreign   == [type |-> "FOREIGN", no |-> 0]
EndOfSync == Spike(0)
KERNEL    == [type |-> "KERNEL", no |-> 0]
AVAILABLE == [status |-> "AVAILABLE", packet |-> KERNEL]

Idle        == [at |-> "idle", mode |-> "user", i |-> 0, packet |-> KERNEL]
At(h, a)    == op[h].at = a
InSync(h)   == op[h].mode = "sync"

Init ==
  /\ tx = [h \in Host |-> [i \in Slots |-> AVAILABLE]]
  /\ rx = [h \in Host |-> [i \in Slots |-> KERNEL]]
  /\ tx_ring_idx = [h \in Host |-> 0] /\ tx_head = tx_ring_idx
  /\ rx_ring_idx = [h \in Host |-> 0] /\ old_rx_ring_idx = rx_ring_idx
  /\ rx_head = rx_ring_idx
  /\ net = [h \in Host |-> <<>>] /\ op = [h \in Host |-> Idle]
  /\ held = [h \in Host |-> {}]
  /\ queued = [h \in Host |-> <<>>] /\ delivered = queued
  /\ lapped = [h \in Host |-> FALSE]
  /\ samples = <<>> /\ lost = FALSE /\ syncs = 0 /\ foreign = 0
-----------------------------------------------------------------------------
(* Sending.                                                                *)

Goto(h, a) == op' = [op EXCEPT ![h].at = a]

\* Mutant of Free: the next slot is taken as it is.
Unchecked(h) == TRUE
Free(h) == tx[h][tx_ring_idx[h]].status = "AVAILABLE"

\* queue_spike spins until its slot is available.
QueueStep(h) ==
  /\ At(h, "queue") /\ Free(h)
  /\ tx' = [tx EXCEPT ![h][tx_ring_idx[h]] =
              [status |-> "SEND_REQUEST", packet |-> op[h].packet]]
  /\ tx_ring_idx' = [tx_ring_idx EXCEPT ![h] = Next1(@)]
  /\ queued' = [queued EXCEPT ![h] = Append(@, op[h].packet)]
  /\ IF InSync(h) THEN Goto(h, "send") ELSE op' = [op EXCEPT ![h] = Idle]
  /\ UNCHANGED <<tx_head, rxVars, net, delivered, samples, syncs, lost, foreign>>

\* What sendto hands to the network: the requests from the kernel's head on.
Requested(h) ==
  LET slot(k) == (tx_head[h] + k) % RING_COUNT
      waiting(k) == tx[h][slot(k)].status = "SEND_REQUEST"
      n == CHOOSE k \in 0 .. RING_COUNT :
             /\ \A j \in 0 .. k - 1 : waiting(j)
             /\ k < RING_COUNT => ~waiting(k)
  IN  [k \in 1 .. n |-> slot(k - 1)]

Sendto(h) ==
  LET slots == Requested(h)
  IN  /\ tx' = [tx EXCEPT ![h] = [i \in Slots |->
                  IF i \in ToSet(slots) THEN [@[i] EXCEPT !.status = "SENDING"] ELSE @[i]]]
      /\ net' = [net EXCEPT ![Other(h)] =
                   @ \o [k \in DOMAIN slots |-> tx[h][slots[k]].packet]]
      /\ tx_head' = [tx_head EXCEPT ![h] = (@ + Len(slots)) % RING_COUNT]

\* send does nothing where a thread sends.
\* Mutant of SendOrSkip: as if every host had a thread.
SkipSend(h) == UNCHANGED <<tx, tx_head, net>>
SendOrSkip(h) == IF h \in threaded THEN UNCHANGED <<tx, tx_head, net>> ELSE Sendto(h)

send_thread(h) ==
  /\ h \in threaded /\ Requested(h) # <<>>
  /\ Sendto(h)
  /\ UNCHANGED <<tx_ring_idx, rxVars, op, queued, delivered, samples, syncs, lost, foreign>>

TxDone(h) ==
  /\ \E i \in Slots : tx[h][i].status = "SENDING"
  /\ tx' = [tx EXCEPT ![h] = [i \in Slots |->
              IF @[i].status = "SENDING" THEN AVAILABLE ELSE @[i]]]
  /\ UNCHANGED <<tx_ring_idx, tx_head, rxVars, net, op, queued, delivered, samples,
                 syncs, lost, foreign>>
-----------------------------------------------------------------------------
(* The network and the receiving kernel, which drops what it has no slot   *)
(* for.                                                                    *)

Fill(h, p) ==
  IF rx[h][rx_head[h]] = KERNEL
  THEN /\ rx' = [rx EXCEPT ![h][rx_head[h]] = p]
       /\ rx_head' = [rx_head EXCEPT ![h] = Next1(@)]
       /\ lapped' = [lapped EXCEPT ![h] = @ \/ Next1(rx_head[h]) = old_rx_ring_idx[h]]
  ELSE UNCHANGED <<rx, rx_head, lapped>>

Arrive(h) ==
  /\ net[h] # <<>>
  /\ net' = [net EXCEPT ![h] = Tail(@)]
  /\ Fill(h, Head(net[h]))
  /\ UNCHANGED <<txVars, rx_ring_idx, old_rx_ring_idx, held, op, queued, delivered,
                 samples, syncs, lost, foreign>>

OtherTraffic(h) ==
  /\ foreign < MaxForeign
  /\ foreign' = foreign + 1
  /\ Fill(h, Foreign)
  /\ UNCHANGED <<txVars, rx_ring_idx, old_rx_ring_idx, held, net, op, queued, delivered,
                 samples, lost, syncs>>

Lose(h) ==
  /\ Lossy /\ ~lost /\ net[h] # <<>>
  /\ lost' = TRUE
  /\ net' = [net EXCEPT ![h] = Tail(@)]
  /\ UNCHANGED <<txVars, rxVars, op, queued, delivered, samples, syncs, foreign>>
-----------------------------------------------------------------------------
(* Receiving.                                                              *)

Current(h) == rx[h][rx_ring_idx[h]]

\* Mutant of check_packet: every frame is taken for one of the other host.
check_any(p) == TRUE
check_packet(p) == p.type # "FOREIGN"

\* Other frames are given back at once, however old the frames before them.
Drop(h) ==
  /\ At(h, "receive") \/ At(h, "wait")
  /\ Current(h) # KERNEL /\ ~check_packet(Current(h))
  /\ rx' = [rx EXCEPT ![h][rx_ring_idx[h]] = KERNEL]
  /\ rx_ring_idx' = [rx_ring_idx EXCEPT ![h] = Next1(@)]
  /\ UNCHANGED <<txVars, old_rx_ring_idx, rx_head, held, lapped, net, op, queued,
                 delivered, samples, syncs, lost, foreign>>

\* A frame stays in its slot until it is freed.
\* Mutant of Kept: it is given back as it is taken.
GivenBack(h) == KERNEL
Kept(h) == Current(h)

Take(h) ==
  /\ Current(h) # KERNEL /\ check_packet(Current(h))
  /\ rx' = [rx EXCEPT ![h][rx_ring_idx[h]] = Kept(h)]
  /\ rx_ring_idx' = [rx_ring_idx EXCEPT ![h] = Next1(@)]
  /\ IF lapped[h] THEN UNCHANGED <<held, delivered>>
     ELSE /\ held' = [held EXCEPT ![h] =
                        @ \cup {[slot |-> rx_ring_idx[h], packet |-> Current(h)]}]
          /\ delivered' = [delivered EXCEPT ![h] = Append(@, Current(h))]
  /\ UNCHANGED <<txVars, old_rx_ring_idx, rx_head, lapped, net, queued, syncs, lost, foreign>>

\* receive: on until a slot is the kernel's.
ReceiveStep(h) ==
  /\ At(h, "receive")
  /\ \/ Take(h) /\ UNCHANGED <<op, samples>>
     \/ /\ Current(h) = KERNEL
        /\ op' = [op EXCEPT ![h] = Idle]
        /\ UNCHANGED <<txVars, rxVars, net, queued, delivered, samples, syncs, lost, foreign>>

Freed(h) == old_rx_ring_idx[h] = rx_ring_idx[h]

\* The slave's answer has the number of what it answers; i is 1 if that was a
\* request, so that it looks for another one.
Answering(p) == [at |-> "queue", mode |-> "sync", packet |-> Sync(p.no),
                 i |-> IF p.type = "SYNC" THEN 1 ELSE 0]

\* In sync(), what comes after the frame is freed.
AfterFree(h) ==
  IF h = "slave"
  THEN IF op[h].i = 1 THEN [op[h] EXCEPT !.at = "wait"] ELSE Idle
  ELSE LET i == op[h].i + 1
           p == IF i < iters THEN Sync((syncs - 1) * iters + i + 1) ELSE EndOfSync
       IN  [at |-> "queue", mode |-> "sync", i |-> i, packet |-> p]

\* free_receive: the slots from the old index up to the receive index.
FreeStep(h) ==
  /\ At(h, "free")
  /\ IF Freed(h)
     THEN /\ held' = [held EXCEPT ![h] = {}]
          /\ op' = [op EXCEPT ![h] = IF InSync(h) THEN AfterFree(h) ELSE Idle]
          /\ UNCHANGED <<rx, old_rx_ring_idx>>
     ELSE /\ rx' = [rx EXCEPT ![h][old_rx_ring_idx[h]] = KERNEL]
          /\ old_rx_ring_idx' = [old_rx_ring_idx EXCEPT ![h] = Next1(@)]
          /\ held' = [held EXCEPT ![h] = {f \in @ : f.slot # old_rx_ring_idx[h]}]
          /\ UNCHANGED op
  /\ UNCHANGED <<txVars, rx_ring_idx, rx_head, lapped, net, queued, delivered, samples,
                 syncs, lost, foreign>>
-----------------------------------------------------------------------------
(* sync(): the slave answers what it gets until a packet is no request; the *)
(* master takes the next packet for its answer.                            *)

AfterSend(h) ==
  CASE h = "slave" -> [op[h] EXCEPT !.at = "free"]
    [] h = "master" /\ op[h].packet.type = "SYNC" -> [op[h] EXCEPT !.at = "wait"]
    [] OTHER -> Idle

SyncSend(h) ==
  /\ At(h, "send")
  /\ SendOrSkip(h)
  /\ op' = [op EXCEPT ![h] = AfterSend(h)]
  /\ UNCHANGED <<tx_ring_idx, rxVars, queued, delivered, samples, syncs, lost, foreign>>

SyncWait(h) ==
  /\ At(h, "wait") /\ Take(h)
  /\ IF h = "slave"
     THEN /\ op' = [op EXCEPT ![h] = Answering(Current(h))]
          /\ UNCHANGED samples
     ELSE /\ Goto(h, "free")
          /\ samples' = IF lapped[h] THEN samples
                        ELSE Append(samples, <<op[h].packet.no, Current(h).no>>)

SyncStep(h) == SyncSend(h) \/ SyncWait(h)
-----------------------------------------------------------------------------
(* Calls.                                                                  *)

Call(h) == At(h, "idle") /\ UNCHANGED <<txVars, rxVars, net, queued, delivered, samples, lost, foreign>>

\* No packet of a host is on its way or waits to be received.
NothingFrom(h) ==
  /\ \A i \in Slots : tx[h][i].status # "SEND_REQUEST"
  /\ net[Other(h)] = <<>> /\ held[Other(h)] = {}
  /\ \A i \in Slots : rx[Other(h)][i].type \in {"KERNEL", "FOREIGN"}

Spikes(h) ==
  Cardinality({k \in DOMAIN queued[h] : queued[h][k].type = "SPIKES" /\ queued[h][k].no > 0})

\* Of the other host's sync() nothing may be disturbed.
Undisturbing(h) == Orderly => ~InSync(Other(h))

queue_spike(h) ==
  /\ Call(h) /\ Undisturbing(h) /\ Spikes(h) < MaxSpikes[h]
  /\ op' = [op EXCEPT ![h] = [Idle EXCEPT !.at = "queue", !.packet = Spike(Spikes(h) + 1)]]
  /\ UNCHANGED syncs

send(h) ==
  /\ At(h, "idle") /\ Requested(h) # <<>>
  /\ SendOrSkip(h)
  /\ UNCHANGED <<tx_ring_idx, rxVars, op, queued, delivered, samples, syncs, lost, foreign>>

receive(h) ==
  /\ Call(h) /\ Undisturbing(h) /\ Current(h) # KERNEL
  /\ Goto(h, "receive")
  /\ UNCHANGED syncs

free_receive(h) ==
  /\ Call(h) /\ (~Freed(h) \/ held[h] # {})
  /\ Goto(h, "free")
  /\ UNCHANGED syncs

sync(h) ==
  /\ Call(h)
  /\ Orderly => /\ NothingFrom(h)
                /\ \/ NothingFrom(Other(h)) /\ (At(Other(h), "idle") \/ At(Other(h), "wait"))
                   \/ h = "slave" /\ InSync("master")
  /\ IF h = "slave"
     THEN /\ op' = [op EXCEPT ![h] = [Idle EXCEPT !.at = "wait", !.mode = "sync"]]
          /\ UNCHANGED syncs
     ELSE /\ syncs < MaxSyncs
          /\ syncs' = syncs + 1
          /\ op' = [op EXCEPT ![h] = [at |-> "queue", mode |-> "sync", i |-> 0,
                                      packet |-> Sync(syncs * iters + 1)]]

Step(h) == QueueStep(h) \/ Drop(h) \/ ReceiveStep(h) \/ FreeStep(h) \/ SyncStep(h)
Kernel(h) == TxDone(h) \/ Arrive(h)

Next ==
  \E h \in Host :
    \/ Step(h) \/ Kernel(h) \/ send_thread(h) \/ OtherTraffic(h) \/ Lose(h)
    \/ queue_spike(h) \/ send(h) \/ receive(h) \/ free_receive(h) \/ sync(h)

Spec == Init /\ [][Next]_vars

\* Calls go on, kernels and threads run; whether anything is called is open.
Fairness == \A h \in Host : WF_vars(Step(h)) /\ WF_vars(TxDone(h)) /\ WF_vars(Arrive(h))
                            /\ WF_vars(send_thread(h))
FairSpec == Spec /\ Fairness
-----------------------------------------------------------------------------
\* Types of the rings and indices, and of the call in progress.
Packet == {KERNEL} \cup [type : {"SYNC", "SPIKES", "FOREIGN"}, no : Int]
Frame  == [slot : Slots, packet : Packet]

TypeOK ==
  /\ tx \in [Host -> [Slots -> [status : {"AVAILABLE", "SEND_REQUEST", "SENDING"},
                                packet : Packet]]]
  /\ rx \in [Host -> [Slots -> Packet]]
  /\ tx_ring_idx \in [Host -> Slots] /\ tx_head \in [Host -> Slots]
  /\ rx_ring_idx \in [Host -> Slots] /\ old_rx_ring_idx \in [Host -> Slots]
  /\ rx_head \in [Host -> Slots]
  /\ net \in [Host -> Seq(Packet)]
  /\ op \in [Host -> [at : {"idle", "queue", "send", "receive", "wait", "free"},
                      mode : {"user", "sync"}, i : Nat, packet : Packet]]
  /\ held \in [Host -> SUBSET Frame]
  /\ queued \in [Host -> Seq(Packet)] /\ delivered \in [Host -> Seq(Packet)]
  /\ samples \in Seq(Int \X Int)
  /\ lapped \in [Host -> BOOLEAN] /\ lost \in BOOLEAN
  /\ syncs \in Nat /\ foreign \in Nat

\* A program reads a frame through a pointer into the ring until it frees it:
\* as long as the kernel has not come round to the oldest frame, nobody writes it.
HeldIntact ==
  \A h \in Host : ~lapped[h] => \A f \in held[h] : rx[h][f.slot] = f.packet

\* Spikes and requests reach the program of the other host once and in order
\* of queue_spike, whatever other traffic is dropped between them.
InOrderOnce ==
  \A h \in Host : ~lost /\ ~lapped[h] => IsPrefix(delivered[h], queued[Other(h)])

\* Every round trip that sync() measures is one: the answer is the request's.
SampleMatches ==
  (\A h \in Host : ~lapped[h]) => \A k \in DOMAIN samples : samples[k][1] = samples[k][2]

\* Once both hosts are in sync() it ends on both, if no packet is lost and no
\* ring overrun: a lost packet leaves both spinning.
SyncEnds ==
  InSync("master") /\ InSync("slave")
    ~> \/ \A h \in Host : ~InSync(h)
       \/ lost \/ \E h \in Host : lapped[h]
=============================================================================
