--------------------------- MODULE LinkLayerProps ---------------------------
(***************************************************************************)
(* What the JTAG link layer of module LinkLayer has to guarantee.          *)
(***************************************************************************)
EXTENDS LinkLayer, ARQProps, FiniteSets

ReadsIssued(t) == Cardinality({k \in DOMAIN kind[t] : kind[t][k] = "read"})

\* Flush lets time pass without a command: the retransmission of the last
\* write may then be due and take the place of the next command.
CommandsOnly == usage.calls \subseteq {"write", "read", "recvData"}

\* When issueCommand returns, the answer of every read issued so far has been
\* taken from the register, so that the recvData every caller of read_cmd
\* makes next does not throw (ctrlmod.cpp:60-78, linklayer.h:94-95).
AllAnswered == \A t \in Tags : rcvd[host(t)] = ReadsIssued(t)
ReadAnswered == pc = "idle" /\ CommandsOnly => AllAnswered

\* issueCommand finds room in the send window, it never throws "link layer
\* (software arq) failed to transmit data": every max_issued_cmds commands
\* the host looks for an acknowledgement and finds one (linklayer.h:112-128).
NeverRefused == CommandsOnly => ~refused

\* Responses reach the user in the order of the reads, none twice, none
\* skipped, although both tags overwrite one register (s2comm.h:186-213).
AnswersInOrder ==
  \A t \in Tags : \A i \in DOMAIN rxdata[t] :
    rxdata[t][i] = rcvd[host(t)] - Len(rxdata[t]) + i

\* Flush "makes sure all data in the Send-chain is transmitted to the target"
\* (s2comm.h:117): one Exec per tag is enough, since whatever happened before,
\* no more than one payload of a tag was left behind by a retransmission.
FlushTransmitsAll ==
  pc = "idle" /\ op = "Flush" => \A t \in Tags : ~HasUnsent(host(t))

\* Every call returns: the loop over conc_ll in Exec ends although each round
\* may receive something new to acknowledge (linklayer.h:82-83).
CallReturns == pc # "idle" ~> pc = "idle"
=============================================================================
