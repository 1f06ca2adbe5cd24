------------------------------ MODULE LinkInit ------------------------------
(***************************************************************************)
(* How a ReticleControl object brings up the links of a Kintex-7 FPGA to   *)
(* its HICANNs: the highspeed link and its test, and the ARQ connections.  *)
(*                                                                         *)
(*   reticle_control.cpp         life of the object, hicannInit            *)
(*   s2c_jtagphys_2fpga.cpp      Init, fpga_hicann_init, test_transmission *)
(*   s2c_jtagphys_2fpga_arq.cpp  Init of the derived class, issueCommand   *)
(*   s2comm.cpp                  reset_hicann_arq                          *)
(*                                                                         *)
(* A HICANN whose link is up is reached through the ARQ of the FPGA, the   *)
(* others through the software ARQ over JTAG.  Both end at the one ARQ of  *)
(* the HICANN, so that whoever talks to it has to start when it does.      *)
(* FPGA and HICANNs keep their state when the program ends or is killed.   *)
(***************************************************************************)
EXTENDS Integers

CONSTANTS Count,       \* channels of the FPGA
          Available,   \* physically_available_hicanns, by channel
          Swapped,     \* channels whose receive line is swapped on the main PCB
          MaxTries, MaxPolls,   \* 10 in the code
          Orderly      \* an object always asks for the same HICANNs

Channels == 0 .. Count - 1

ASSUME LinkInitAssumption ==
  /\ Count \in Nat \ {0} /\ MaxTries \in Nat \ {0} /\ MaxPolls \in Nat \ {0}
  /\ Available \subseteq Channels /\ Swapped \subseteq Channels
  /\ Orderly \in BOOLEAN

VARIABLES
  \* FPGA and HICANNs
  hicannif_conf,   \* by channel: which of the bits start and invert are set
  forward,         \* channels whose configuration packets reach the FPGA's ARQ
  up,              \* channels whose link is up
  testmode, disabled,   \* HICANNs in test mode, with the DNC interface off
  fpga_arq,        \* the ARQ of the FPGA: "reset" or "running"
  seq,             \* seq[side][c]: whether that end of an ARQ connection is "fresh",
                   \* "used", or held in "reset"
  \* the object
  alive, link_states, test_transmissions_done,
  once,            \* disable_multiple_test_transmissions
  call,            \* the HICANNs asked for in the last call of Init
  outcome,         \* and what it returned
  pc, nrep, cur, k \* where Init stands: channel, tries and polls

links    == <<hicannif_conf, forward, up, testmode, disabled>>
arqs     == <<fpga_arq, seq>>
object   == <<alive, link_states, test_transmissions_done, once>>
progress == <<pc, nrep, cur, k>>
vars     == <<links, arqs, object, call, outcome, progress>>

Sides == {"software", "fpga", "hicann"}
NoCall == [hicann |-> {}, highspeed |-> {}, return_on_error |-> FALSE]

\* Ends of all connections of one side, put into a state.
Ends(side, channels, state) ==
  [seq EXCEPT ![side] = [c \in Channels |-> IF c \in channels THEN state ELSE @[c]]]

\* The hardware after power-on.
Init ==
  /\ hicannif_conf = [c \in Channels |-> {}] /\ forward = Channels
  /\ up = {} /\ testmode = {} /\ disabled = {}
  /\ fpga_arq = "running" /\ seq = [s \in Sides |-> [c \in Channels |-> "fresh"]]
  /\ alive = FALSE /\ link_states = {} /\ test_transmissions_done = FALSE /\ once = FALSE
  /\ call = NoCall /\ outcome = "none"
  /\ pc = "idle" /\ nrep = 0 /\ cur = 0 /\ k = 0
-----------------------------------------------------------------------------
(* The object.  Its constructor "shuts up" the ARQ of the FPGA; its         *)
(* destructor puts both ends of every connection into reset.                *)

ReticleControl ==
  /\ ~alive /\ alive' = TRUE
  /\ link_states' = {} /\ test_transmissions_done' = FALSE /\ once' \in BOOLEAN
  /\ fpga_arq' = "reset"
  /\ seq' = [seq EXCEPT !["software"] = [c \in Channels |-> "fresh"],
                        !["fpga"] = [c \in Channels |-> "fresh"]]
  /\ UNCHANGED <<links, call, outcome, progress>>

Gone ==
  /\ alive' = FALSE /\ link_states' = {} /\ test_transmissions_done' = FALSE /\ once' = FALSE
  /\ call' = NoCall /\ outcome' = "none"
  /\ pc' = "idle" /\ nrep' = 0 /\ cur' = 0 /\ k' = 0
  /\ UNCHANGED links

Destroy ==
  /\ alive /\ pc = "idle"
  /\ fpga_arq' = "reset"
  /\ seq' = [Ends("hicann", Available, "reset") EXCEPT
               !["fpga"] = [c \in Channels |-> "fresh"], !["software"] = [c \in Channels |-> "fresh"]]
  /\ Gone

Killed == alive /\ Gone /\ UNCHANGED arqs
-----------------------------------------------------------------------------
(* Init.                                                                   *)

FirstOf(channels) == CHOOSE c \in channels : \A d \in channels : c <= d
After(channels) == {c \in channels : c > cur}

\* Init throws, and does nothing, unless highspeed is a part of hicann.
hicannInit(hicann, highspeed, return_on_error) ==
  /\ alive /\ pc = "idle"
  /\ Orderly => call.hicann \in {{}, hicann} /\ (call = NoCall \/ call.highspeed = highspeed)
  /\ call' = [hicann |-> hicann, highspeed |-> highspeed, return_on_error |-> return_on_error]
  /\ nrep' = 0 /\ k' = 0 /\ cur' = 0
  /\ IF once /\ test_transmissions_done
     THEN pc' = "release" /\ outcome' = "ok"
     ELSE pc' = "try" /\ UNCHANGED outcome
  /\ UNCHANGED <<links, arqs, object>>

Return(result) == pc' = "release" /\ outcome' = result

\* Mutant of Again: a failed try is not counted.
NotCounted == nrep
Again == nrep + 1

TryFailed ==
  IF call.return_on_error THEN Return("failed") /\ UNCHANGED nrep
                          ELSE pc' = "try" /\ nrep' = Again /\ UNCHANGED outcome

Proceed(label) == pc' = label /\ UNCHANGED <<nrep, outcome>>

Try ==
  /\ pc = "try"
  /\ IF nrep = MaxTries THEN Return("failed") /\ UNCHANGED cur
     ELSE IF call.highspeed = {} THEN Proceed("disable") /\ UNCHANGED cur
     ELSE Proceed("link") /\ cur' = FirstOf(call.highspeed)
  /\ test_transmissions_done' = (test_transmissions_done \/ pc' = "disable")
  /\ UNCHANGED <<links, arqs, alive, link_states, once, call, nrep, k>>

\* The FPGA answers with the wrong id: an exception, also for the derived Init.
WrongFpga ==
  /\ pc = "try" /\ nrep < MaxTries
  /\ pc' = "idle" /\ outcome' = "failed"
  /\ UNCHANGED <<links, arqs, object, call, nrep, cur, k>>

\* The HICANN answers with the wrong id: the try ends, link_states stays.
WrongHicann ==
  /\ pc = "link" /\ TryFailed
  /\ UNCHANGED <<links, arqs, object, call, cur, k>>

\* Writing the configuration replaces all bits: 0x00c has neither.
set_hicannif_config(bits) == {}
invert_rx_data(bits) == IF cur \in Swapped THEN bits \cup {"invert"} ELSE bits
start_fpga_link(bits) == bits \cup {"start"}
stop_fpga_link(bits)  == bits \ {"start"}

StartLink ==
  /\ pc = "link"
  /\ hicannif_conf' = [hicannif_conf EXCEPT ![cur] =
       start_fpga_link(set_hicannif_config(invert_rx_data(stop_fpga_link(@))))]
  /\ up' = up \ {cur}
  /\ Proceed("poll") /\ k' = 0
  /\ UNCHANGED <<forward, testmode, disabled, arqs, object, call, cur>>

Poll ==
  /\ pc = "poll" /\ k < MaxPolls /\ cur \notin up
  /\ k' = k + 1 /\ up' \in {up, up \cup {cur}}
  /\ UNCHANGED <<hicannif_conf, forward, testmode, disabled, arqs, object, call, outcome,
                 pc, nrep, cur>>

\* A link that comes up at the last poll counts as failed.
\* Mutant of TooLate: the last poll decides by itself, as if it were never late.
NeverLate == FALSE
TooLate == k = MaxPolls

Polled ==
  /\ pc = "poll" /\ (k = MaxPolls \/ cur \in up)
  /\ link_states' = IF TooLate THEN link_states \ {cur} ELSE link_states \cup {cur}
  /\ IF After(call.highspeed) # {}
     THEN Proceed("link") /\ cur' = FirstOf(After(call.highspeed))
     ELSE IF call.highspeed \subseteq link_states'
     THEN Proceed("test") /\ cur' = FirstOf(call.highspeed)
     ELSE TryFailed /\ UNCHANGED cur
  /\ UNCHANGED <<links, arqs, alive, test_transmissions_done, once, call, k>>

\* test_transmission: every HICANN goes to test mode, the channel is cut off.
StartTest ==
  /\ pc = "test"
  /\ testmode' = Available /\ forward' = forward \ {cur}
  /\ Proceed("transmit")
  /\ UNCHANGED <<hicannif_conf, up, disabled, arqs, object, call, cur, k>>

\* Mutant of Reconnected: the channel stays cut off.
LeftOff == forward
Reconnected == forward \cup {cur}

EndTest ==
  /\ pc = "transmit"
  /\ testmode' = {} /\ forward' = Reconnected
  /\ \/ TryFailed /\ UNCHANGED <<cur, test_transmissions_done>>
     \/ IF After(call.highspeed) # {}
        THEN Proceed("test") /\ cur' = FirstOf(After(call.highspeed))
             /\ UNCHANGED test_transmissions_done
        ELSE Proceed("disable") /\ test_transmissions_done' = TRUE /\ UNCHANGED cur
  /\ UNCHANGED <<hicannif_conf, up, disabled, arqs, alive, link_states, once, call, k>>

\* Mutant of StartOver: the software ARQ is reset, the one of the FPGA only held.
SoftwareOnly == [seq EXCEPT !["software"] = [c \in Channels |-> "fresh"]]
StartOver == [seq EXCEPT !["software"] = [c \in Channels |-> "fresh"],
                         !["fpga"] = [c \in Channels |-> "fresh"]]

DisableArq ==
  /\ pc = "disable"
  /\ fpga_arq' = "reset" /\ seq' = StartOver
  /\ Proceed("channels") /\ cur' = 0
  /\ UNCHANGED <<links, object, call, k>>

\* Mutant of CutOff: only the HICANNs asked for are looked at.
CutOffAsked == IF cur \in call.hicann \ link_states THEN forward \ {cur} ELSE forward
CutOff == IF cur \notin link_states THEN forward \ {cur} ELSE forward

LastChannel == cur = Count - 1

ResetChannel ==
  /\ pc = "channels"
  /\ forward' = CutOff
  /\ disabled' = IF cur \in call.hicann \ link_states THEN disabled \cup {cur} ELSE disabled
  /\ seq' = IF cur \in call.hicann THEN Ends("hicann", {cur}, "fresh") ELSE seq
  /\ IF LastChannel THEN Return("ok") /\ UNCHANGED <<nrep, cur>>
                     ELSE Proceed("channels") /\ cur' = cur + 1
  /\ UNCHANGED <<hicannif_conf, up, testmode, fpga_arq, object, call, k>>

\* The derived class starts the ARQ of the FPGA again, whatever the result is.
Release ==
  /\ pc = "release" /\ pc' = "idle"
  /\ fpga_arq' = IF link_states = {} THEN fpga_arq ELSE "running"
  /\ UNCHANGED <<links, seq, object, call, outcome, nrep, cur, k>>

InitStep ==
  \/ Try \/ WrongFpga \/ WrongHicann \/ StartLink \/ Poll \/ Polled \/ StartTest \/ EndTest
  \/ DisableArq \/ ResetChannel \/ Release
-----------------------------------------------------------------------------
\* A command for a HICANN of the last Init, and the answer to it.
Partner(c) == IF c \in link_states THEN "fpga" ELSE "software"

issueCommand(c) ==
  /\ pc = "idle" /\ outcome = "ok" /\ c \in call.hicann
  /\ seq' = [seq EXCEPT ![Partner(c)][c] = "used", !["hicann"][c] = "used"]
  /\ UNCHANGED <<links, fpga_arq, object, call, outcome, progress>>

Next ==
  \/ ReticleControl \/ Destroy \/ Killed \/ InitStep
  \/ \E hicann \in (SUBSET Available) \ {{}}, roe \in BOOLEAN :
       \E highspeed \in SUBSET hicann : hicannInit(hicann, highspeed, roe)
  \/ \E c \in Available : issueCommand(c)

\* A program that has called Init waits for it.
Spec == Init /\ [][Next]_vars /\ WF_vars(InitStep)
-----------------------------------------------------------------------------
\* Types.
TypeOK ==
  /\ hicannif_conf \in [Channels -> SUBSET {"start", "invert"}]
  /\ forward \subseteq Channels /\ up \subseteq Channels /\ link_states \subseteq Available
  /\ testmode \subseteq Available /\ disabled \subseteq Available
  /\ fpga_arq \in {"reset", "running"}
  /\ seq \in [Sides -> [Channels -> {"fresh", "used", "reset"}]]
  /\ alive \in BOOLEAN /\ once \in BOOLEAN /\ test_transmissions_done \in BOOLEAN
  /\ call \in [hicann : SUBSET Available, highspeed : SUBSET Available, return_on_error : BOOLEAN]
  /\ outcome \in {"none", "ok", "failed"}
  /\ pc \in {"idle", "try", "link", "poll", "test", "transmit", "disable", "channels", "release"}
  /\ nrep \in 0 .. MaxTries /\ k \in 0 .. MaxPolls /\ cur \in Channels

Ready == pc = "idle" /\ outcome = "ok"

\* When Init has returned ok, every HICANN asked for with a highspeed link can be
\* used through it, whatever a killed or failed predecessor left: its link is up,
\* no HICANN is in test mode, and its packets reach the ARQ of the FPGA, which runs.
HighspeedReady ==
  Ready /\ call.highspeed # {} =>
    /\ call.highspeed \subseteq link_states \cap up \cap forward
    /\ testmode = {} /\ fpga_arq = "running"

\* "disable forwarding of data to ARQ in FPGA for JTAG-only and/or unavailable
\* HICANNs" (s2c_jtagphys_2fpga.cpp:242), also of those an earlier program used.
OthersCutOff ==
  Ready => forward \cap (Channels \ call.highspeed) = {}
           /\ call.hicann \ call.highspeed \subseteq disabled

\* The two ends of every connection in use start together, through repeated and
\* failed calls of Init, which reset one after the other: no command is dropped
\* as a repetition, none waits outside the window of the other end.
EndsInStep ==
  outcome = "ok" =>
    /\ fpga_arq = "running" =>
         \A c \in call.highspeed \cap link_states : seq["fpga"][c] = seq["hicann"][c]
    /\ Ready => \A c \in call.hicann : seq[Partner(c)][c] = seq["hicann"][c]

\* link_states never claims a link that is down, although tries end early and
\* leave the bits of the channels they did not come to.
StatesMatchLinks ==
  \A c \in link_states : ~(pc = "poll" /\ cur = c) => c \in up

\* hicannInit returns: ten tries at most, ten polls at most for each link.
InitReturns == pc # "idle" ~> pc = "idle"

\* "P/N signals of RX Data line [...] are swapped on mainPCB, enable inversion of
\* deserialized data for this channel" (s2c_jtagphys_2fpga.cpp:735): a link that
\* has been started has it.
SwappedInverted ==
  \A c \in Swapped : "start" \in hicannif_conf[c] => "invert" \in hicannif_conf[c]
=============================================================================
