----------------------------- MODULE LinkLayer -----------------------------
(***************************************************************************)
(* The JTAG link layer of units/stage2_hal/source/linklayer.h and the part *)
(* of Stage2Comm (s2comm.h, s2comm.cpp) that drives it, for one HICANN:    *)
(* two tags with an ARQ connection each, which share one result register   *)
(* of the chip.  The host is single-threaded and moves only inside the     *)
(* calls of its user; the chip runs beside it.                             *)
(*                                                                         *)
(* chan[<<"hicann", t>>] holds what the host shifted into the chip,        *)
(* chan[<<"host", t>>] what the chip is about to put into the register.    *)
(* Exec is cut at its calls of the ARQ object and of the JTAG interface:   *)
(* pc is the next of them.                                                 *)
(***************************************************************************)
EXTENDS ARQ

CONSTANTS max_issued_cmds,  \* commands without a look at the register
          PromptChip,       \* the chip has reacted before the next JTAG access
          Usages            \* kinds of users: the calls one makes, and a bound on
                            \* the commands it issues on each tag

ASSUME LinkLayerAssumption ==
  /\ Tags = {0, 1}
  /\ max_issued_cmds \in 1 .. WND_S
  /\ PromptChip \in BOOLEAN
  /\ Usages \subseteq
       [calls : SUBSET {"write", "read", "recvData", "Flush", "Clear", "reset_hicann_arq"},
        commands : [Tags -> Nat]]

VARIABLES
  kind,         \* kind[t][k]: whether payload k of tag t is a "write" or a "read"
  writeflag,    \* writeflag[t][s]: the payload in slot s of the send buffer is a write
  issued_cmds,
  rxreg,        \* the chip's result register: the last packet it sent
  lastread,     \* the packet the host took from it last
  rxdata,       \* rxdata[t]: responses the user can fetch
  due,          \* due[t]: reads the chip has taken and not answered
  usage,        \* the kind of user this one is
  op, tag, callback, pc,    \* the call in progress, and where it stands
  refused       \* the last issueCommand threw: the window was full

hostVars == <<kind, writeflag, issued_cmds, lastread, rxdata, usage, op, tag, callback, pc, refused>>
llVars   == <<hostVars, rxreg, due>>
allVars  == <<vars, llVars>>

host(t)  == <<"host", t>>
chip(t)  == <<"hicann", t>>
other(t) == 1 - t

\* A packet as the register shows it.
Tagged(t, p) == [tag |-> t, packet |-> p]
\* What the register shows after the chip was reset.  Init of S2C_JtagPhys and its
\* subclass calls Clear before the first command, so that lastread is this and no
\* longer the packet of ci_packet_t::clear, whose Ack of -1 no packet has.
ClearPacket  == Tagged(0, [seqvalid |-> FALSE, seq |-> 0, ack |-> 0, data |-> 0])

\* The value a timer holds before its first start only shows when SetTimeouts
\* is called, which nothing on this path does.
LLInit ==
  /\ Init
  /\ \A n \in Endpoint : SendTimer[n].value = 0 /\ RecvTimer[n].value = 0
  /\ kind = [t \in Tags |-> <<>>]
  /\ writeflag = [t \in Tags |-> [s \in Slot |-> FALSE]]
  /\ issued_cmds = [t \in Tags |-> 0]
  /\ rxreg = ClearPacket /\ lastread = ClearPacket
  /\ rxdata = [t \in Tags |-> <<>>]
  /\ due = [t \in Tags |-> 0]
  /\ usage \in Usages
  /\ op = "none" /\ tag = 0 /\ callback = FALSE /\ pc = "idle"
  /\ refused = FALSE
-----------------------------------------------------------------------------
(* The chip: an ARQ object per tag and an execution unit that answers      *)
(* every read.                                                             *)

ChipReceive(t) == Receive(chip(t)) /\ UNCHANGED llVars

ChipExecute(t) ==
  /\ Read(chip(t))
  /\ due' = [due EXCEPT ![t] = @ + IF kind[t][got'[chip(t)]] = "read" THEN 1 ELSE 0]
  /\ UNCHANGED <<hostVars, rxreg>>

ChipRespond(t) ==
  /\ due[t] > 0
  /\ Send(chip(t))
  /\ due' = [due EXCEPT ![t] = @ - 1]
  /\ UNCHANGED <<hostVars, rxreg>>

ChipSend(t) == GetSendData(chip(t)) /\ UNCHANGED llVars

\* A packet replaces the one the host has not looked at yet.
Latch(t) ==
  /\ chan[host(t)] # <<>>
  /\ rxreg' = Tagged(t, Head(chan[host(t)]))
  /\ chan'  = [chan EXCEPT ![host(t)] = Tail(@)]
  /\ UNCHANGED <<sendVars, recvVars, history, hostVars, due>>

\* The chip's clock runs at its own pace: a timer that is running has ticked
\* as often as it takes to expire.
ChipSendTimeout(t) ==
  /\ SendTimer[chip(t)].enabled
  /\ SendTimer' = [SendTimer EXCEPT ![chip(t)] = T!SetTimeout(T!Stop(@))]
  /\ UNCHANGED <<seqpos, wndpos, sendpos, sendbuf, recvVars, chan, history, llVars>>

ChipRecvTimeout(t) ==
  /\ RecvTimer[chip(t)].enabled
  /\ RecvTimer' = [RecvTimer EXCEPT ![chip(t)] = T!SetTimeout(T!Stop(@))]
  /\ UNCHANGED <<sendVars, recwndpos, recackpos, recbuf, recvalids, chan, history, llVars>>

Chip == \E t \in Tags :
  \/ ChipReceive(t) \/ ChipExecute(t) \/ ChipRespond(t) \/ ChipSend(t) \/ Latch(t)
  \/ ChipSendTimeout(t) \/ ChipRecvTimeout(t)

\* All that is left for the chip to do is to repeat what is unacknowledged.
Settled == \A t \in Tags :
  /\ chan[chip(t)] = <<>> /\ chan[host(t)] = <<>>
  /\ ~HasReadData(chip(t)) /\ ~HasUnsent(chip(t)) /\ ~T!Armed(RecvTimer[chip(t)])
  /\ due[t] = 0 \/ WindowFull(chip(t))

\* JTAG is slower than the chip by orders of magnitude, unless it is not.
HostMoves == PromptChip => Settled
-----------------------------------------------------------------------------
(* LinkLayer::Exec of the tag in `tag`.                                    *)

Goto(label) == pc' = label /\ UNCHANGED <<usage, op, tag, callback>>

\* conc_ll->Exec(true) is repeated until the other tag has nothing to send.
\* Mutants of ConcFirst: the other tag is not asked; it is asked in the nested
\* call, too.
ConcNever == FALSE
ConcAlways == HasSendData(host(other(tag)))
ConcFirst == HasSendData(host(other(tag))) /\ ~callback

Exec ==
  /\ pc = "exec"
  /\ IF HasSendData(host(tag)) /\ ConcFirst
     THEN tag' = other(tag) /\ callback' = TRUE /\ UNCHANGED <<usage, op, pc>>
     ELSE Goto(IF HasSendData(host(tag)) THEN "put" ELSE "tick")
  /\ UNCHANGED <<vars, kind, writeflag, issued_cmds, lastread, rxdata, refused, rxreg, due>>

\* The count is only compared with its limit: max_issued_cmds + 1 stands for
\* everything above.
Issued(n, write) == IF write /\ n <= max_issued_cmds THEN n + 1 ELSE max_issued_cmds + 1

ExecPut ==
  /\ pc = "put"
  /\ GetSendData(host(tag))
  /\ LET sentout == chan'[chip(tag)]
     IN  issued_cmds' = [issued_cmds EXCEPT
           ![tag] = Issued(@, writeflag[tag][sentout[Len(sentout)].seq % WND_S])]
  /\ Goto("tick")
  /\ UNCHANGED <<kind, writeflag, lastread, rxdata, refused, rxreg, due>>

ExecTick ==
  /\ pc = "tick"
  /\ Tick(host(tag))
  /\ Goto("gate")
  /\ UNCHANGED <<kind, writeflag, issued_cmds, lastread, rxdata, refused, rxreg, due>>

\* Stage2Comm::HasReadData: the register holds a packet of this tag that is
\* not the one taken last.  Read then returns it: `valid` never outlives Exec.
NewPacket(t) == rxreg # lastread /\ rxreg.tag = t

\* Mutant of ManyIssued: the look at the register comes one command late.
TooManyIssued(t) == issued_cmds[t] > max_issued_cmds
ManyIssued(t) == issued_cmds[t] >= max_issued_cmds

ExecGate ==
  /\ pc = "gate"
  /\ IF ManyIssued(tag) /\ NewPacket(tag)
     THEN /\ issued_cmds' = [issued_cmds EXCEPT ![tag] = 0]
          /\ lastread' = rxreg
          /\ ReceivePacket(host(tag), rxreg.packet)
          /\ UNCHANGED chan
     ELSE UNCHANGED <<vars, issued_cmds, lastread>>
  /\ Goto("tock")
  /\ UNCHANGED <<kind, writeflag, rxdata, refused, rxreg, due>>

\* The second Tick; a nested Exec goes back to the loop it was called from.
ExecTock ==
  /\ pc = "tock"
  /\ Tick(host(tag))
  /\ IF callback
     THEN tag' = other(tag) /\ callback' = FALSE /\ pc' = "exec" /\ UNCHANGED <<usage, op>>
     ELSE Goto("return")
  /\ UNCHANGED <<kind, writeflag, issued_cmds, lastread, rxdata, refused, rxreg, due>>
-----------------------------------------------------------------------------
(* The calls of Stage2Comm.                                                *)

May(call) == call \in usage.calls /\ pc = "idle"

\* LinkLayer::Send hands the payload to the ARQ object and calls Exec, also
\* when the window was full and the payload is refused.
issueCommand(t, k) ==
  /\ May(k)
  /\ sent[host(t)] < usage.commands[t]
  /\ refused' = WindowFull(host(t))
  /\ IF WindowFull(host(t))
     THEN UNCHANGED <<vars, kind, writeflag>>
     ELSE /\ Send(host(t))
          /\ kind' = [kind EXCEPT ![t] = Append(@, k)]
          /\ writeflag' = [writeflag EXCEPT ![t][seqpos[host(t)] % WND_S] = k = "write"]
  /\ op' = "issueCommand" /\ tag' = t /\ callback' = FALSE /\ pc' = "exec"
  /\ UNCHANGED <<issued_cmds, lastread, rxdata, usage, rxreg, due>>

\* After Exec issueCommand throws if the payload was refused; else it moves
\* one response, if there is one, to rxdata.
issueCommandReturns ==
  /\ pc = "return" /\ op = "issueCommand"
  /\ IF ~refused /\ HasReadData(host(tag))
     THEN Read(host(tag)) /\ rxdata' = [rxdata EXCEPT ![tag] = Append(@, got'[host(tag)])]
     ELSE UNCHANGED <<vars, rxdata>>
  /\ Goto("idle")
  /\ UNCHANGED <<kind, writeflag, issued_cmds, lastread, refused, rxreg, due>>

\* With an empty queue recvData throws and changes nothing.
recvData(t) ==
  /\ May("recvData")
  /\ rxdata[t] # <<>>
  /\ rxdata' = [rxdata EXCEPT ![t] = Tail(@)]
  /\ UNCHANGED <<vars, kind, writeflag, issued_cmds, lastread, usage, op, tag, callback, pc, refused,
                 rxreg, due>>

\* One Exec for each tag in turn.
Flush ==
  /\ May("Flush")
  /\ op' = "Flush" /\ tag' = 0 /\ callback' = FALSE /\ pc' = "exec"
  /\ UNCHANGED <<vars, kind, writeflag, issued_cmds, lastread, rxdata, usage, refused, rxreg, due>>

LastTag(t) == t = 1

FlushReturns ==
  /\ pc = "return" /\ op = "Flush"
  /\ IF LastTag(tag) THEN Goto("idle")
                     ELSE tag' = tag + 1 /\ pc' = "exec" /\ UNCHANGED <<usage, op, callback>>
  /\ UNCHANGED <<vars, kind, writeflag, issued_cmds, lastread, rxdata, refused, rxreg, due>>

\* The packet in the register is dropped unread; nothing else is cleared.
Clear ==
  /\ May("Clear")
  /\ lastread' = rxreg
  /\ op' = "Clear"
  /\ UNCHANGED <<vars, kind, writeflag, issued_cmds, rxdata, usage, tag, callback, pc,
                 refused, rxreg, due>>

\* Every ARQ object is reset on both sides; the buffers, issued_cmds, lastread,
\* rxdata and the chip's result register keep what they hold.
reset_hicann_arq ==
  /\ May("reset_hicann_arq")
  /\ Reset
  /\ kind' = [t \in Tags |-> <<>>]
  /\ due'  = [t \in Tags |-> 0]
  /\ op'   = "reset_hicann_arq"
  /\ UNCHANGED <<writeflag, issued_cmds, lastread, rxdata, usage, tag, callback, pc,
                 refused, rxreg>>

Return ==
  \/ Exec \/ ExecPut \/ ExecTick \/ ExecGate \/ ExecTock
  \/ issueCommandReturns \/ FlushReturns

Call ==
  \/ \E t \in Tags : (\E k \in {"write", "read"} : issueCommand(t, k)) \/ recvData(t)
  \/ Flush \/ Clear \/ reset_hicann_arq

LLNext == (HostMoves /\ (Return \/ Call)) \/ Chip

LLSpec == LLInit /\ [][LLNext]_allVars

\* The process that makes the call runs on, and the chip takes what it is sent.
LLFairSpec ==
  /\ LLSpec
  /\ WF_allVars(HostMoves /\ Return)
  /\ \A t \in Tags : WF_allVars(ChipReceive(t))
=============================================================================
