------------------------------- MODULE HostAL -------------------------------
(***************************************************************************)
(* The Ethernet path to a HICANN: HostALController                         *)
(* (units/stage2_hal/source/host_al_controller.cpp) and its user           *)
(* S2C_JtagPhys2FpgaArq (s2c_jtagphys_2fpga_arq.cpp).  Commands of the     *)
(* chips, FPGA configuration, trace data and playback messages share one   *)
(* reliable, ordered stream of frames in each direction; the host is       *)
(* single-threaded, FPGA and HICANNs run beside it.                        *)
(***************************************************************************)
EXTENDS Naturals, Sequences, SequencesExt

CONSTANTS Dest,         \* HICANNs and tags: an answer queue each
          max_bulk,     \* entries of a frame (MAX_PDUWORDS)
          TraceFrames,  \* frames a trace read returns
          Controls,     \* FPGA configuration other than the two flags
          Orderly,      \* configuration waits until the FPGA owes nothing
          MaxSent       \* bound: commands issued and configuration packets sent

Nowhere == "nowhere"

ASSUME HostALAssumption ==
  /\ Nowhere \notin Dest
  /\ max_bulk \in Nat \ {0}
  /\ Controls \subseteq {"setSystime", "startPlaybackTrace", "stopTrace", "startTraceRead"}
  /\ TraceFrames \in Nat
  /\ Orderly \in BOOLEAN
  /\ MaxSent \in Nat

VARIABLES
  hiconf_bulk_buffer, bulk,               \* commands not sent yet, and their count
  hiconf_receive_buffer,                  \* answers of each destination
  recpulse_buffer,                        \* trace frames received
  pulse_loopback_enable, pb_systime_replace_enable,
  pb_end_address_received,
  pc, dest, payload,                      \* the call in progress and its argument
  outcome,                                \* how the last FPGA configuration ended
  toFPGA, toHost,                         \* the two directions of hostARQ
  flags,                                  \* what the FPGA was last configured to
  work,                                   \* commands a HICANN has not executed
  tracing, playing,                       \* trace frames, end messages to come
  issued, answers, fetched, configs       \* what the user has issued and got

bulkVars == <<hiconf_bulk_buffer, bulk>>
flagVars == <<pulse_loopback_enable, pb_systime_replace_enable>>
recVars  == <<recpulse_buffer, pb_end_address_received, fetched>>
callVars == <<pc, dest, payload, outcome>>
hostVars == <<bulkVars, flagVars, recVars, hiconf_receive_buffer, callVars,
              issued, answers, configs>>
fpgaVars == <<flags, work, tracing, playing>>
vars == <<hostVars, fpgaVars, toFPGA, toHost>>

Frame(pid, pdu) == [pid |-> pid, pdu |-> pdu]
Carries(frames, pid) == \E i \in DOMAIN frames : frames[i].pid = pid
Count(frames, pid) == Cardinality({i \in DOMAIN frames : frames[i].pid = pid})

\* The commands in frames, and those of them for d.
Commands(frames) == FlattenSeq([i \in DOMAIN frames |->
  IF frames[i].pid = "HICANNCONFIG" THEN frames[i].pdu ELSE <<>>])
To(d, commands) == FlattenSeq([i \in DOMAIN commands |->
  IF commands[i].dest = d THEN <<commands[i]>> ELSE <<>>])

HostFlags == [loopback |-> pulse_loopback_enable, replace |-> pb_systime_replace_enable]

\* The argument of the call in progress, when there is none.
NoPayload == [op |-> "none", flags |-> [loopback |-> FALSE, replace |-> FALSE]]

Init ==
  /\ hiconf_bulk_buffer = <<>> /\ bulk = 0
  /\ hiconf_receive_buffer = [d \in Dest |-> <<>>]
  /\ recpulse_buffer = 0
  /\ pulse_loopback_enable = FALSE /\ pb_systime_replace_enable = FALSE
  /\ pb_end_address_received = 0
  /\ pc = "idle" /\ dest = Nowhere /\ payload = NoPayload /\ outcome = "none"
  /\ toFPGA = <<>> /\ toHost = <<>>
  /\ flags = HostFlags
  /\ work = [d \in Dest |-> <<>>]
  /\ tracing = 0 /\ playing = 0
  /\ issued = <<>> /\ answers = [d \in Dest |-> <<>>] /\ fetched = 0 /\ configs = 0
-----------------------------------------------------------------------------
(* FPGA and HICANNs.                                                       *)

\* Commands are handed to their HICANNs; configuration is applied and sent back.
FPGATakes ==
  /\ toFPGA # <<>>
  /\ toFPGA' = Tail(toFPGA)
  /\ LET f == Head(toFPGA)
     IN  IF f.pid = "HICANNCONFIG"
         THEN /\ work' = [d \in Dest |-> work[d] \o To(d, f.pdu)]
              /\ UNCHANGED <<toHost, flags, tracing, playing>>
         ELSE /\ flags'   = f.pdu.flags
              /\ toHost'  = Append(toHost, f)
              /\ tracing' = IF f.pdu.op = "startTraceRead" THEN TraceFrames ELSE tracing
              /\ playing' = IF f.pdu.op = "startPlaybackTrace" THEN 1 ELSE playing
              /\ UNCHANGED work
  /\ UNCHANGED hostVars

\* A HICANN executes its commands in turn and answers the reads.
HICANNExecutes(d) ==
  /\ work[d] # <<>>
  /\ work' = [work EXCEPT ![d] = Tail(@)]
  /\ toHost' = IF Head(work[d]).write THEN toHost
               ELSE Append(toHost, Frame("HICANNCONFIG", <<Head(work[d])>>))
  /\ UNCHANGED <<hostVars, toFPGA, flags, tracing, playing>>

FPGATraces ==
  /\ tracing > 0
  /\ tracing' = tracing - 1
  /\ toHost' = Append(toHost, Frame("FPGATRACE", "pulses"))
  /\ UNCHANGED <<hostVars, toFPGA, flags, work, playing>>

FPGAEndsPlayback ==
  /\ playing > 0
  /\ playing' = playing - 1
  /\ toHost' = Append(toHost, Frame("FPGAPLAYBACK", "address"))
  /\ UNCHANGED <<hostVars, toFPGA, flags, work, tracing>>

\* The FPGA still has something to send, or the host something to receive.
Expected ==
  \/ toHost # <<>> \/ tracing > 0 \/ playing > 0
  \/ Carries(toFPGA, "FPGACONFIG")
  \/ \E d \in Dest : \E i \in DOMAIN work[d] : ~work[d][i].write
  \/ \E i \in DOMAIN toFPGA : toFPGA[i].pid = "HICANNCONFIG" /\
       \E j \in DOMAIN toFPGA[i].pdu : ~toFPGA[i].pdu[j].write
-----------------------------------------------------------------------------
(* S2C_JtagPhys2FpgaArq: commands.                                         *)

\* The frames sendHICANNConfigBulk cuts a buffer into.
\* Mutant of Frames: the rest that does not fill a frame is left out.
FullFrames(buf) ==
  [i \in 1 .. Len(buf) \div max_bulk |->
    Frame("HICANNCONFIG", SubSeq(buf, (i - 1) * max_bulk + 1, i * max_bulk))]
Frames(buf) ==
  [i \in 1 .. (Len(buf) + max_bulk - 1) \div max_bulk |->
    LET end == IF i * max_bulk < Len(buf) THEN i * max_bulk ELSE Len(buf)
    IN  Frame("HICANNCONFIG", SubSeq(buf, (i - 1) * max_bulk + 1, end))]

FlushBulk(buf) ==
  /\ toFPGA' = toFPGA \o Frames(buf)
  /\ hiconf_bulk_buffer' = <<>>
  /\ bulk' = 0

FrameFull(n) == n % max_bulk = 0

issueCommand(d, write) ==
  /\ pc = "idle" /\ Len(issued) + configs < MaxSent
  /\ LET command == [dest |-> d, write |-> write, no |-> Len(issued) + 1]
         buf     == Append(hiconf_bulk_buffer, command)
     IN  /\ issued' = Append(issued, command)
         /\ IF FrameFull(bulk + 1)
            THEN FlushBulk(buf)
            ELSE hiconf_bulk_buffer' = buf /\ bulk' = bulk + 1 /\ UNCHANGED toFPGA
  /\ UNCHANGED <<flagVars, recVars, callVars, hiconf_receive_buffer, answers,
       configs, fpgaVars, toHost>>

Flush ==
  /\ pc = "idle"
  /\ FlushBulk(hiconf_bulk_buffer)
  /\ UNCHANGED <<flagVars, recVars, callVars, hiconf_receive_buffer, issued,
       answers, configs, fpgaVars, toHost>>

\* A caller asks once for each read it has issued.
ReadsOf(d) == {c \in ToSet(issued) : c.dest = d /\ ~c.write}

\* Mutant of FlushFirst: recvData waits without sending what is buffered.
FlushNever == UNCHANGED <<toFPGA, hiconf_bulk_buffer, bulk>>
FlushFirst == FlushBulk(hiconf_bulk_buffer)

recvData(d) ==
  /\ pc = "idle" /\ Len(answers[d]) < Cardinality(ReadsOf(d))
  /\ FlushFirst
  /\ pc' = "recvData" /\ dest' = d
  /\ UNCHANGED <<flagVars, recVars, hiconf_receive_buffer, payload, outcome,
       issued, answers, configs, fpgaVars, toHost>>
-----------------------------------------------------------------------------
(* fill_receive_buffer empties the stream into a buffer for each kind of   *)
(* frame; an answer to FPGA configuration is an unknown frame and dropped. *)

\* Mutant of Sorted: the answers of all destinations go to one queue.
SortedAnyhow(d) == Commands(toHost)
Sorted(d) == To(d, Commands(toHost))

Filled == [d \in Dest |-> hiconf_receive_buffer[d] \o Sorted(d)]

fill_receive_buffer ==
  /\ toHost' = <<>>
  /\ recpulse_buffer' = recpulse_buffer + Count(toHost, "FPGATRACE")
  /\ pb_end_address_received' =
       IF Carries(toHost, "FPGAPLAYBACK") THEN 1 ELSE pb_end_address_received

Returns == pc' = "idle" /\ dest' = Nowhere

\* Answers that were received before are returned without a look at the stream.
getReceivedHICANNConfig ==
  /\ pc = "recvData"
  /\ IF hiconf_receive_buffer[dest] # <<>>
     THEN UNCHANGED <<toHost, recpulse_buffer, pb_end_address_received>>
     ELSE fill_receive_buffer
  /\ LET buffers == IF hiconf_receive_buffer[dest] # <<>> THEN hiconf_receive_buffer ELSE Filled
     IN  IF buffers[dest] # <<>>
         THEN /\ answers' = [answers EXCEPT ![dest] = Append(@, Head(buffers[dest]).no)]
              /\ hiconf_receive_buffer' = [buffers EXCEPT ![dest] = Tail(@)]
              /\ Returns
         ELSE hiconf_receive_buffer' = buffers /\ UNCHANGED <<answers, pc, dest>>
  /\ UNCHANGED <<bulkVars, flagVars, payload, outcome, issued, fetched,
       configs, fpgaVars, toFPGA>>

\* After the timeout the caller gets the value 0, like any other answer.
getReceivedHICANNConfigTimeout ==
  /\ pc = "recvData" /\ hiconf_receive_buffer[dest] = <<>> /\ toHost = <<>>
  /\ answers' = [answers EXCEPT ![dest] = Append(@, 0)]
  /\ Returns
  /\ UNCHANGED <<bulkVars, flagVars, recVars, hiconf_receive_buffer, payload,
       outcome, issued, configs, fpgaVars, toFPGA, toHost>>

\* getReceivedHICANNConfigCount and getPlaybackEndAddress only fill the buffers;
\* getFPGATracePulses then takes the pulses.
Poll(pulses) ==
  /\ pc = "idle"
  /\ toHost' = <<>>
  /\ LET n == recpulse_buffer + Count(toHost, "FPGATRACE")
     IN  /\ recpulse_buffer' = IF pulses THEN 0 ELSE n
         /\ fetched' = IF pulses THEN fetched + n ELSE fetched
  /\ pb_end_address_received' =
       IF Carries(toHost, "FPGAPLAYBACK") THEN 1 ELSE pb_end_address_received
  /\ hiconf_receive_buffer' = Filled
  /\ UNCHANGED <<bulkVars, flagVars, callVars, issued, answers, configs,
       fpgaVars, toFPGA>>
-----------------------------------------------------------------------------
(* FPGA configuration: a packet, and its copy as the answer.               *)

MayConfigure ==
  /\ pc = "idle" /\ Len(issued) + configs < MaxSent
  /\ Orderly => ~Expected

\* Mutant of Waits: the call returns when the packet is sent.
WaitsNot == pc' = pc /\ outcome' = "ok"
Waits == pc' = "config" /\ UNCHANGED outcome

sendFPGAConfigPacket(op, loopback, replace) ==
  LET content == [op |-> op, flags |-> [loopback |-> loopback, replace |-> replace]]
  IN  /\ toFPGA'  = Append(toFPGA, Frame("FPGACONFIG", content))
      /\ payload' = content
      /\ Waits
      /\ configs' = configs + 1

\* Every configuration packet carries the two flags; the flags are cached, and
\* setting one to the value it has sends nothing.
Already == outcome' = "cached" /\ UNCHANGED <<toFPGA, payload, pc, configs>>

setFPGAPulseLoopback(b) ==
  /\ MayConfigure
  /\ pulse_loopback_enable' = b
  /\ IF pulse_loopback_enable # b
     THEN sendFPGAConfigPacket("flags", b, pb_systime_replace_enable)
     ELSE Already
  /\ UNCHANGED <<bulkVars, recVars, hiconf_receive_buffer,
       pb_systime_replace_enable, dest, issued, answers, fpgaVars, toHost>>

setPlaybackSystimeReplacing(b) ==
  /\ MayConfigure
  /\ pb_systime_replace_enable' = b
  /\ IF pb_systime_replace_enable # b
     THEN sendFPGAConfigPacket("flags", pulse_loopback_enable, b)
     ELSE Already
  /\ UNCHANGED <<bulkVars, recVars, hiconf_receive_buffer,
       pulse_loopback_enable, dest, issued, answers, fpgaVars, toHost>>

\* Mutant of KeptFlags: the packet leaves the flags out.
FlagsLeftOut == [loopback |-> FALSE, replace |-> FALSE]
KeptFlags == HostFlags

\* Mutant of KeptPulses: startTraceRead does not reset the trace buffers.
KeptAlways(op) == TRUE
KeptPulses(op) == op # "startTraceRead"

\* Mutant of EndAfter: startPlaybackTrace keeps the end address.
EndKept(op) == pb_end_address_received
EndAfter(op) == IF op = "startPlaybackTrace" THEN 0 ELSE pb_end_address_received

Control(op) ==
  /\ MayConfigure
  /\ sendFPGAConfigPacket(op, KeptFlags.loopback, KeptFlags.replace)
  /\ IF KeptPulses(op) THEN UNCHANGED <<recpulse_buffer, fetched>>
                       ELSE recpulse_buffer' = 0 /\ fetched' = 0
  /\ pb_end_address_received' = EndAfter(op)
  /\ UNCHANGED <<bulkVars, flagVars, hiconf_receive_buffer, dest, issued,
       answers, fpgaVars, toHost>>

\* The next frame, whatever it is, is taken from the stream; it must be the copy.
Confirms(f) == f.pid = "FPGACONFIG" /\ f.pdu = payload

ConfigAnswer ==
  /\ pc = "config" /\ toHost # <<>>
  /\ toHost' = Tail(toHost)
  /\ outcome' = IF Confirms(Head(toHost)) THEN "ok" ELSE "thrown"
  /\ pc' = "idle" /\ payload' = NoPayload
  /\ UNCHANGED <<bulkVars, flagVars, recVars, hiconf_receive_buffer, dest,
       issued, answers, configs, fpgaVars, toFPGA>>

ConfigTimeout ==
  /\ pc = "config" /\ toHost = <<>>
  /\ outcome' = "thrown"
  /\ pc' = "idle" /\ payload' = NoPayload
  /\ UNCHANGED <<bulkVars, flagVars, recVars, hiconf_receive_buffer, dest,
       issued, answers, configs, fpgaVars, toFPGA, toHost>>

\* Back to the initial state of the object, whatever the FPGA is configured to;
\* the count of S2C_JtagPhys2FpgaArq stays.
reset ==
  /\ pc = "idle"
  /\ Orderly => /\ ~Expected /\ hiconf_bulk_buffer = <<>>
                /\ HostFlags = [loopback |-> FALSE, replace |-> FALSE]
                /\ \A d \in Dest : hiconf_receive_buffer[d] = <<>>
  /\ pulse_loopback_enable' = FALSE /\ pb_systime_replace_enable' = FALSE
  /\ pb_end_address_received' = 0
  /\ recpulse_buffer' = 0 /\ fetched' = 0
  /\ hiconf_bulk_buffer' = <<>>
  /\ hiconf_receive_buffer' = [d \in Dest |-> <<>>]
  /\ outcome' = "none"
  /\ UNCHANGED <<bulk, pc, dest, payload, issued, answers, configs, fpgaVars, toFPGA, toHost>>
-----------------------------------------------------------------------------
Hardware ==
  \/ FPGATakes \/ FPGATraces \/ FPGAEndsPlayback
  \/ \E d \in Dest : HICANNExecutes(d)

Call ==
  \/ \E d \in Dest : (\E write \in BOOLEAN : issueCommand(d, write)) \/ recvData(d)
  \/ Flush \/ reset
  \/ \E b \in BOOLEAN : setFPGAPulseLoopback(b) \/ setPlaybackSystimeReplacing(b) \/ Poll(b)
  \/ \E op \in Controls : Control(op)

Answer == getReceivedHICANNConfig \/ ConfigAnswer

Next ==
  \/ Hardware \/ Call \/ Answer
  \/ getReceivedHICANNConfigTimeout \/ ConfigTimeout

Spec == Init /\ [][Next]_vars

\* The FPGA and every HICANN work on, and a call in progress looks at what came.
FairSpec ==
  /\ Spec
  /\ WF_vars(FPGATakes) /\ WF_vars(Answer)
  /\ \A d \in Dest : WF_vars(HICANNExecutes(d))
-----------------------------------------------------------------------------
\* Between issue and the hands of the FPGA no command is lost, doubled or
\* overtaken, whether frames are sent full, by Flush or by recvData
\* (s2c_jtagphys_2fpga_arq.cpp:107-189, host_al_controller.cpp:678-733).
CommandsInOrder ==
  LET queued == Commands(toFPGA) \o hiconf_bulk_buffer
  IN  /\ Len(queued) <= Len(issued)
      /\ queued = SubSeq(issued, Len(issued) - Len(queued) + 1, Len(issued))

\* What a destination's reads returned are its first answers, in order and
\* none left out, although the answers of all chips, trace data and playback
\* messages arrive in one stream and reads may time out (0) and be answered later.
AnswersInOrder ==
  \A d \in Dest : \A i \in DOMAIN answers[d] :
    LET n == answers[d][i]
    IN  n # 0 =>
          /\ \E c \in ReadsOf(d) : c.no = n
          /\ {answers[d][j] : j \in 1 .. i - 1} \ {0} =
             {c.no : c \in {r \in ReadsOf(d) : r.no < n}}

\* "send FPGA config packet and block until response packet was sent by FPGA"
\* (host_al_controller.h:152): once it has returned true the FPGA
\* has taken every configuration packet that was sent.
ConfigConfirmed == pc = "idle" /\ outcome = "ok" => ~Carries(toFPGA, "FPGACONFIG")

\* "set internal loopback of pulses in FPGA" (host_al_controller.h:300): once a
\* configuration call has returned true the FPGA has the flags the host has
\* cached, although setting a flag to its cached value sends nothing.
FlagsAgree == pc = "idle" /\ outcome \in {"ok", "cached"} => flags = HostFlags

\* The pulses of a trace read are neither lost nor mixed with those of an
\* earlier read: what is still to come, on its way, buffered and fetched is
\* one read's worth or nothing (startTraceRead, host_al_controller.cpp:882-896).
TraceComplete ==
  tracing + Count(toHost, "FPGATRACE") + recpulse_buffer + fetched \in {0, TraceFrames}

\* An end address is that of the playback started last: none is left from an
\* earlier one while the new one runs, so that who polls getPlaybackEndAddress
\* does not stop too early (host_al_controller.cpp:653-657, 856-867).
EndIsCurrent == pb_end_address_received # 0 => playing = 0

\* recvData returns the answer it waits for: every command it depends on has
\* left the host (s2c_jtagphys_2fpga_arq.cpp:182-183).
AnswerArrives == pc = "recvData" ~> pc # "recvData"
=============================================================================
