# TLA+ verification of hicann-system

hicann-system is the host software of a wafer-scale neuromorphic system: it
configures HICANN chips, plays spike trains into them and reads results back.
This directory holds TLA+ models of the parts of it whose correctness depends on
the order of events, the configurations that check them with TLC, and proofs that
TLAPS checks. Paths below are relative to `src/`; `hal/` stands for
`units/stage2_hal/source/`.

## 1. The system

```
 test modes, calibration, python bindings        (users)
        |
 HICANN configuration modules (fg_control, synapse_control, ... : ctrlmod)
        |  write_cmd / read_cmd / get_data
 Stage2Comm::issueCommand / recvData / Flush / Clear / reset_hicann_arq
        |                                   |
 LinkLayer + ARQ per tag            S2C_JtagPhys2FpgaArq
 (software ARQ over JTAG)                   |
        |                           HostALController  -- playback, trace, FPGA config
 JTAG library                               |
        |                           hostARQ (library outside the repository), Ethernet
        +-----------------+-----------------+
                        FPGA ---- DNC ---- 8 HICANNs, two tags each
```

A reticle has one FPGA and up to eight HICANNs. `ReticleControl` builds the objects of
one reticle after it has taken the lock file of the FPGA (`HMFRunLog`, a member of
`CommAccess`) and, in `init_s2comm`, a shared lock on the wafer.

| component | source | state | operations | interacts with | hard behaviour |
|---|---|---|---|---|---|
| ARQ protocol | `units/arq/source/arq.h`, `timer.*` | positions, buffers and two timers of a send and a receive window | Send, GetSendData, Receive, Read, Tick, SetTimeouts, Reset | its twin in the chip, by packets | loss, repetition, timeout against late acknowledgement, wrap-around |
| JTAG link layer | `hal/linklayer.h`, `s2comm.*`, `s2c_jtagphys.cpp` | an ARQ object per tag, commands issued, packet read last, answers | issueCommand, recvData, Flush, Clear, reset_hicann_arq; Exec underneath | calls ARQ; polls a result register the chip writes | two tags share one register; nested Exec calls; a full window; what survives a reset |
| FPGA lock | `hal/HMFRunLog.cpp`, `tools/s2ctrl.py` | a file with a pid | constructor, destructor; lock, unlock | any number of processes through the file system | check and create are two calls; owners die; siblings share a lock |
| Ethernet path | `hal/host_al_controller.cpp`, `s2c_jtagphys_2fpga_arq.cpp` | command buffer, a queue of answers for each chip and tag, trace and playback state, cached flags | issueCommand, recvData, Flush, FPGA configuration, trace read, playback start, reset | FPGA and chips through one ordered stream each way | five kinds of frames in one stream, answers that come after the timeout, cached state |
| wafer reset lock | `hal/s2comm.cpp:85-130` | `flock` on a file of the wafer | init_s2comm, close | the program that resets the wafer | a retry loop that does not retry |
| realtime spikes | `units/communication/source/RealtimeComm.h` | two rings shared with the kernel, clock delay and offset | queue_spike, send, receive, free_receive, sync | kernel; the other host | index wrap-around, frames in use by both sides, a synchronisation that waits for lost packets |
| playback and trace formats | `hal/host_al_controller.cpp:437-650, 1039-1187` | last time, last group, overflow count | addPlaybackPulse, addPlaybackConfig, addPlaybackFPGAConfig; decoding in fill_receive_buffer | FPGA | grouping, time wrap-around, unsigned differences |
| link initialisation | `hal/s2c_jtagphys_2fpga.cpp`, `fpga_control.cpp` | link states, retry count | Init, fpga_hicann_init, initAllConnections, test_transmission, reset of hostARQ | registers of FPGA, DNC, chips | retries that start from what the last try left |
| reticle registry | `hal/reticle_control.cpp` | set of reticles that exist | constructor, destructor, hicannInit | all of the above | duplicate instances |
| repeater blocks | `hal/repeater_control.cpp` | a copy of the registers of a block, test output flags, start register | configure, reset, conf_repeater, conf_spl1_repeater, tout, tin, enable, set_dir, start and stop bits | the chip, which keeps its registers when the program ends | read-modify-write on a copy that may be stale; outputs shared by repeaters |
| freeze handler | `hal/HandleCommFreezeError.cpp` | a forked watcher, a jump buffer | constructor, destructor, signal handler | the whole process | a jump into a finished call |
| other configuration modules | `hal/*_control.cpp`, `syn_trans.cpp` | the chip's registers | reads, writes, waiting for busy bits | Stage2Comm | they rely on answers in order |
| boards, JTAG library, measurement, generators, test modes, bindings, CPLD | the rest | devices, data | input and output | | no behaviour of their own |

What makes each of the modelled parts correct:

* ARQ: payloads are read once, in order; nothing is dropped before it is safe; a packet
  that is lost is repeated; the window is never exceeded.
* JTAG link layer: after issueCommand returned, the answer of every read is there; no
  command is refused; calls return; Flush sends everything.
* FPGA lock: programs of different users never talk to an FPGA together.
* Ethernet path: commands leave in the order of issue; each chip's answers reach its reader
  in order; a confirmed configuration is in force; trace and playback data belong to the
  experiment that runs.
* Playback and trace: a pulse is played at the time the host planned for it, that time is
  the one asked for unless the hardware's distance forbids it, and the trace gives it back.
* Realtime link: a frame in use is not overwritten; packets arrive once and in order; a
  round trip that is measured is one; a synchronisation ends.
* Link initialisation: a link reported as ready can be used, all others are cut off, and
  the two ends of every ARQ connection have started together.
* Repeaters: the copy of the registers is the chip's once it was read without a failure; no
  output has two drivers.

The hazards behind these properties are listed in `PROJECT.json`, each at its line.

## 2. Modules

| module | models | composed from |
|---|---|---|
| `Timer` | the software timer, as operators on a record | |
| `ARQ` | both ends of an ARQ link for every tag and the two channels between them | `Timer` |
| `ReliableStream` | the abstract specification: a bounded FIFO in each direction | |
| `ARQProps` | properties of `ARQ`; `ImplementsStream` states that it implements `ReliableStream` | `ARQ`, `ReliableStream` |
| `LinkLayer` | LinkLayer and Stage2Comm of one HICANN, and the chip | `ARQ`: the host's calls and the chip's steps are the actions of its two ends |
| `LinkLayerProps` | properties of `LinkLayer`, together with those of `ARQ` it uses again | `LinkLayer`, `ARQProps` |
| `HardwareLock` | the FPGA lock file and the processes that use it | |
| `HostAL` | HostALController, S2C_JtagPhys2FpgaArq, FPGA and chips behind hostARQ | |
| `SpikeTrains` | the playback program, the unit that plays it, the trace and its decoding | |
| `RealtimeLink` | two hosts with their rings, sender threads and sync() | |
| `Repeaters` | one block of repeaters, the object that drives it, the chip's registers | |
| `LinkInit` | ReticleControl and the Init functions, FPGA and HICANNs with their links and ARQs | |
| `MC*` | instances for TLC | |
| `ARQ_proofs`, `LinkLayer_proofs`, `HardwareLock_proofs`, `HostAL_proofs`, `SpikeTrains_proofs`, `RealtimeLink_proofs`, `Repeaters_proofs`, `LinkInit_proofs` | theorems | the module they are named after |

In each module a variable has the name of the member it stands for, an action that of the
function, and `PROJECT.json` maps every definition to its lines. Definitions that carry
"Mutant of" in their comment are not part of the model: they are the plausible mistakes
that show that each property can fail.

Some functions are correct only if their callers keep to a rule that no code enforces. Such a
rule is in the guard of the action it restricts, under the constant `Orderly`, and is named
below: with `Orderly = FALSE` the module describes the code under any caller.

### ARQ

One action is one call of a member function, executed as a whole: the code is
single-threaded and takes no lock. A payload is its number in the order of Send, so the
history variables `sent`, `rcvd` and `got` are all the properties need. Packets are records
of sequence number, acknowledgement and payload. The channels are FIFO; a side in `Lossy`
loses what comes to it, a side in `Repeating` may get it twice. Reordering does not occur on
JTAG and is not modelled. The other end is the chip, whose ARQ is hardware: arq.h says it is
the software implementation of that protocol, and the model uses the same actions for both
ends. The uninitialised `value` of a new timer is any value (`Timer!NewTimers`). `Reset`
resets both ends and empties the channels together, as `reset_hicann_arq` does.

### LinkLayer

`Exec` calls the ARQ object and the JTAG interface several times, and the chip runs on
between two such accesses, so Exec is cut at each of them (`exec`, `put`, `tick`, `gate`,
`tock`) and `pc` says which is next. The nested call for the other tag is `callback`. The
chip puts a packet into the one result register whenever it likes (`Latch`), whether or not
the host has seen the last one. Its timers are hardware and run at their own pace
(`ChipSendTimeout`, `ChipRecvTimeout`). `PromptChip` restricts this: the host then moves only
when the chip has nothing left to do but to repeat. JTAG accesses take tens of microseconds,
the chip tens of nanoseconds, and the code relies on the difference (linklayer.h:112-128):
`ReadAnswered` and `NeverRefused` are about such a chip, the rest about any. A user program
is the set of calls it makes and its number of commands (`Usages`).

### HardwareLock

Each call of the lock file library is atomic, what happens between two calls is not. A
process may die at any point (`Mortal`); pids are not reused. `parent` gives the shell of a
program, which matters because a lock of a sibling or parent counts as one's own. unlock of
s2ctrl.py opens the file, checks it and removes it in three steps.

### HostAL

hostARQ delivers frames in order and without loss, so the two directions are sequences.
FPGA and chips are environment: they take frames, execute, answer, trace. A blocking call is
two steps: sending, and taking the answer or timing out. The timeouts may happen at any time,
since the code measures real time and nothing bounds the other side. `Orderly`: FPGA
configuration and reset are called when the FPGA owes the host nothing; without it
`sendFPGAConfigPacket` takes whichever frame comes next for its answer. What is in a playback
or trace frame is the subject of `SpikeTrains`. Not modelled: JTAG bulk frames, I2C, links
that fell back to JTAG, and a send that hostARQ refuses.

### SpikeTrains

The host builds a program entry by entry: groups of pulses, whose first word holds a count
that is patched with every pulse, wait and overflow entries, and configuration entries. Then
the FPGA plays it, and each played pulse goes through the loopback into the trace, stamped
with the FPGA's time modulo `2 * Period` and paired two to an entry; then the host decodes.
The playing and recording units are hardware and modelled from the entries the host writes
and the fields it reads. The conversion from seconds is left out: times are whole numbers, as the
code's, releases in clocks and stamps in half clocks. `Orderly`: calls for
configuration keep the minimum distance from pulses and from an overflow (`Distant`,
`SameEpoch`, `KeepsDistance`), since configuration neither ends a group nor is preceded by a
wait entry.

A pulse has a timestamp of its own, an argument independent of the time at which the FPGA plays
it. sendPulseList converts the two separately and sets the timestamp ahead by
`fpga_hicann_delay`, 500 ns by default (host_al_controller.cpp:433-435); `Offsets` is the set of
distances from twice the time of play that a program uses. `TraceExact` excepts no program. It says
what each pulse comes back as: the decoder can tell a timestamp in the half of a period of the
release, or in the half before it (`Recent`), and takes any other for the one time in these two
halves with the same timestamp (`ReadAs`). So with the default delay a pulse played less than
500 ns before a half period ends comes back a timestamp period too early, and in the first half of
a period of the experiment is dropped as lying before the start. A pulse delayed by more than half a
period comes back too late in the same way. Of two pulses of one address, at one time or exactly
a timestamp period apart, the check for pulses traced twice drops the second (`Repeats`).

### RealtimeLink

Two hosts, each with a transmit ring and a receive ring it shares with its kernel. `queue_spike`
fills a slot, `send` hands slots over one system call at a time or, with a sender thread, that
thread does; `Arrive` is the receiving kernel, which fills the next slot or drops the packet.
`receive` and `free_receive` are the program's. `sync` runs its round trips on both hosts. A
packet's timestamp is the number of the request it belongs to. The code never compares the
kernel's position with the oldest frame in use: `lapped` says that the kernel has come round to
it, after which frames are delivered again, and the properties speak of a link where this has
not happened. `lost` says the network has dropped a packet. `Orderly`: sync() starts on an empty
link, and while one host is in it the other queues nothing else. Left out: sockets, headers and
checksums, the arithmetic of the clock offset, and queue_spike for a vector of spikes.

### Repeaters

The object keeps a copy (`config`) of registers (`sram`) that outlive it. Calls are cut at each
register write, and the program may be restarted at each of these (`Restart`), with a new object
and the chip as it was. Six blocks number their repeaters in different ways (`repaddr`). `Usages`
says which calls a program uses: conf_repeater, conf_spl1_repeater, the test output, the other
single bits, the start and stop of the test circuits; and whether its reads may fail ("late").

configure stores what read_data gives it, and checks nothing. A read through hostARQ that times
out gives 0 as data (`NoAnswer`, `Unanswered`), its answer may come later (`owed`), and is then
taken for that of the next read (`LateAnswer`), whose own answer is owed in turn; read_data gives
0xffffffff where it gets no data; through JTAG an empty queue throws and configure ends in the
middle (`ConfigureThrows`). A late answer holds any member of `Strays`. `configured` is history that
the code does not have: the copy was reset, or read with each answer its own. `Orderly`: repeaters
are switched only then, and a test output is switched off only for the repeater that has it. The
code looks at neither: after a read that failed, of which only the log tells, a program that goes
on overwrites bits of the chip with those of a wrong copy and may give a test output a second
driver. What the properties say is that a configure without such a failure, or a reset, repairs
whatever earlier ones left. Left out are writes that fail, and calls of other modules that share
the queue of answers.

### LinkInit

The life of a ReticleControl object, hicannInit, and Init of both classes in steps: tries, the
start of each link and the polling for it, its test with test mode on and off, the disabling of
interfaces, the forwarding of each channel, the release of the ARQ. Whether a link comes up or a
test passes is the environment's choice at each try. A program may end, or be killed, at every
step; FPGA and HICANNs keep their state. Three ARQs are involved: `seq` says for each end and
channel whether it is in reset, fresh or used, and two ends understand each other when both are in
the same state. `Orderly`: one object always asks for the same HICANNs. Left out: the path through
a DNC chip (Virtex-5), resets of the whole FPGA and of hostARQ, the system time, a second
ReticleControl object for the same reticle.

## 3. Runs

Every run is small enough that the case it is about happens many times over and large enough
for every index to wrap round.

| run | bounds | shows |
|---|---|---|
| `arq_stream` | 4 numbers, window 2, five payloads one way and one the other, 2 packets in flight, both channels lossy and repeating, one reset | `WindowHoldsStream`, `AckPosition`, `SendWindow`, `RetransmitArmed`, `AckedIsReceived`; refinement `ImplementsStream` |
| `arq_live` | five payloads, lossy data channel, faithful acknowledgements, timeouts that change | `AckNotForgotten`, `AllDelivered`, `SendFlushEnds` |
| `arq_lost_ack` | lossy acknowledgements | `SendFlushEnds` fails |
| `ll_prompt` | prompt chip, window 2; 7 and 4 commands on the two tags, or 2 and 1 with Flush, Clear and one reset | `ReadAnswered`, `NeverRefused`, `FlushTransmitsAll` |
| `ll_slow` | any chip, 2 numbers, window 1, 2 and 1 commands | `AnswersInOrder`, `CallReturns` |
| `lock` | two programs of one shell and two single ones, three shells, one object each; two programs and a shell may die, two shells may unlock | `ExclusiveAccess`, `UsersAreCovered`, `ValidLockKept` |
| `hostal_orderly` | two chips, frames of two commands, four calls that send, trace reads and playback | `CommandsInOrder`, `AnswersInOrder`, `ConfigConfirmed`, `FlagsAgree`, `TraceComplete`, `EndIsCurrent`, `AnswerArrives` |
| `spikes` | period 8, distance 3, groups of 3, waits of 2, two addresses, four calls 0, 2, 5 or 12 clocks apart, timestamps one half clock behind or five ahead | `PlayedAsPlanned`, `Paced`, `TraceExact` |
| `realtime` | rings of two, two round trips, a threaded slave, one spike, one foreign frame, two synchronisations, one loss | `HeldIntact`, `InOrderOnce`, `SampleMatches`, `SyncEnds` |
| `repeaters` | three repeaters, a block of each numbering, each family of calls; reads of programs that switch the test output fail, with up to two answers owed | `CopyIsCurrent`, `TestOutputExclusive`, `DriversExclusive`, `StartedHasItsData` |
| `link_init` | three channels, HICANNs on two, one with the swapped line, two tries, two polls | `HighspeedReady`, `OthersCutOff`, `EndsInStep`, `StatesMatchLinks`, `InitReturns` |
| `link_invert` | the same | `SwappedInverted` fails |

Bounds. The ARQ only compares positions modulo SEQ_S and slots modulo WND_S; 4 and 2 are
the smallest values with more than one slot for which SEQ_S is twice WND_S and a multiple of
it, as with the code's 64 and 16, and five payloads take every position round once and more.
The timeouts are one or a few ticks: only their order relative to other events matters, and
Tick is an action of its own that may come at any time. In `LinkLayer`, where the host's ticks
are tied to Exec, SEND_TIMEOUT is twice the window as in linklayer.h (32 ticks for a window of
16, two ticks an Exec). In `SpikeTrains` the widths are scaled with their order kept: the
latency is less than the minimum distance, that less than the period, and the longest gap is
more than a period, so that every comparison of the encoder comes out both ways and several
overflows lie in one program. Timestamps run ahead and behind,
so that stamp and release fall on either side of each change of the top bit. Three repeaters are the fewest of which two share a test output. A trace read has one frame (`TraceFrames`), which
shows that reads are not mixed; that none loses a frame is proved for any number of them.
Two tries and two polls (ten in the code) are the fewest with a last and an earlier one. The
bounds `MaxSend`, `MaxInFlight`, `MaxResets`, `MaxConns`, `MaxSent`, `MaxCalls`, `MaxSpikes`,
`MaxForeign`, `MaxSyncs` and `MaxOwed` only limit how often something happens. All runs but those of
`LinkInit` and `Repeaters` end when their bounds are used up; all set CHECK_DEADLOCK FALSE,
since a program may stop calling.

Fairness. `ARQ!FairSpec`: the time reference ticks, the lower layer asks for packets, the user
reads (weak fairness: all are loops of a running process), and a packet sent again and again
gets through (strong fairness of Receive). `LLFairSpec`: a call that was begun runs on, and
the chip takes what it is sent. `HostAL!FairSpec`: FPGA and chips work on, and a waiting call
looks at what has come. `RealtimeLink!FairSpec`: a call that was begun runs on, the kernel sends
and receives, the sender thread runs. `LinkInit!Spec`: a call of Init runs on. Nothing assumes
that a timeout happens, or that a user makes a call.

The model checks `WindowHoldsStream` where SEQ_S is a multiple of WND_S. arq.h:81 asks only for
SEQ_S at least twice WND_S; slots are addressed modulo WND_S (arq.h:230), so with SEQ_S = 5 and
WND_S = 2 the numbers 4 and 0 share a slot and payloads are overwritten. The code's values are
not affected.

### Disagreements between code and comments

* `arq_lost_ack`: "time until ack is sent on packet receive" (linklayer.h:45-46), "wait for
  incoming ack" (linklayer.h:196). A repeated packet that was already received is dropped
  without an acknowledgement (arq.h:323-330). If the last acknowledgement is lost and the
  receiver has nothing to send, the sender repeats for ever and SendFlush does not return.
* `link_invert`: "enable inversion of deserialized data for this channel"
  (s2c_jtagphys_2fpga.cpp:735). Bit 28 is set for that channel at :740, and the configuration
  that starts the link at :753 is written as a whole without it, so that the link runs without
  the inversion.

Three more are not runs but hazards in `PROJECT.json`. linklayer.h:94-95, "non-write (i.e. read)
requests enforce response handling": after enough Flush calls the retransmission of the last
write is due, and the Exec of the next read sends that instead, so that issueCommand returns
without the answer. host_al_controller.h:152-153, "block until response packet was sent by FPGA":
the answer of a call that timed out is taken for the answer of its repetition.
host_al_controller.h:206-208: playback configuration does not look for overflows.

## 4. Proofs

All theorems hold for every value of the constants allowed by the named assumptions of each
module. Each is proved from an invariant that is inductive, where the property alone is not.

`ARQ_proofs`, for any loss, repetition, sizes and timeouts:
* `TypeCorrect`. Positions are kept by arithmetic modulo SEQ_S; lemmas about `Inc` and `Ofs` on
  the ring (`IncValue`, `OfsValue`, `OfsInc`, `OfsShift`) carry it.
* `SendWindowHolds`: wndpos, sendpos, seqpos stay in this order on the ring, at most WND_S
  apart, for every acknowledgement that may arrive, stale or not: it moves wndpos by at most the
  distance to sendpos.
* `RetransmitArmedHolds`: the retransmission timer is armed exactly while something sent is
  unacknowledged. It needs the window, since whether anything is unacknowledged after an
  acknowledgement depends on the order of the positions.

`ARQ_proofs`, second part, where WND_S divides SEQ_S (`Divides`; 16 divides 64):
* `WindowHoldsStreamHolds`, `AckPositionHolds`, `AckedIsReceivedHolds` and `ImplementsStreamHolds`,
  the refinement of `ReliableStream`. The invariant `StreamInv` replaces positions, which wrap
  round, by counts, which do not: how many payloads are acknowledged, transmitted and sent, how
  many are received and in order; acknowledged and sent, and read and in order, are at most a window
  apart. Every position is the remainder of its count. A data packet under way was transmitted,
  and nothing that arrived or is ahead of it in the channel is a window beyond it; the
  acknowledgements in a channel do not go back. So a number on the wire means one payload only.
* `AckNotForgottenHolds`: what has been received is acknowledged up to the last data packet, or an
  acknowledgement of it is still to be sent.

`LinkLayer_proofs`, first part, for a chip and a user of any kind, `PromptChip` or not:
* `LinkWindowHolds`: the windows and timers of the ARQ objects are right whatever the register loses,
  also with the chip's timeouts and across resets.
* `ExecHasPacketHolds`: Exec ignores whether GetSendData returned a packet, and may.
* `LinkImplementsStreamHolds` and `AnswersInOrderHolds`, with `Divides` and for users that do not
  reset the link (`NeverResets`). The second needs the condition: reset_hicann_arq leaves the
  answers in rxdata and the packet in the register as they are, so that rxdata then no longer
  holds the last answers of the connection (a hazard, s2comm.cpp:291). The first is proved
  under it because the packet that stays in the register belongs to the counts of before.
  Nothing new has to be invented for the register: towards the host the channel
  of the ARQ proof is what the chip is about to put there and, in front of it, the packet in the
  register that was not taken yet (`Seen`). Overwriting a packet, or Clear, loses it from that
  channel, taking it receives its first element; that the host compares the register with what it
  took last is what keeps a packet from arriving twice. The invariant `StreamInv` and its step
  lemmas have the channel as a parameter and hold for both modules.

`LinkLayer_proofs`, second part, for a prompt chip and the values of linklayer.h:35-51:
* `ReadAnsweredHolds`: every read is answered before its call returns. `NeverRefusedHolds`:
  issueCommand always finds room in the window. Both are about users that make no calls but
  commands and recvData, on both tags and in any order.
* `JtagConstants` is what they assume of the constants besides `Divides`: acknowledgements are sent
  at once (RECV_TIMEOUT = 0; linklayer.h:41-44 warns not to change it), max_issued_cmds commands
  pass before a packet is repeated (SEND_TIMEOUT >= 2 * max_issued_cmds, with two ticks an Exec;
  32 and 16 in the code, with no room to spare), and max_issued_cmds > 1: with 1, the
  acknowledgement of the first write could not be told from the cleared register.
* The invariant is `AnswerInv`. `Counts` ties the commands transmitted and the answers taken to the
  reads issued, `Unacked` bounds the commands without an acknowledgement by `issued_cmds`,
  `HostTimers` shows that no command is ever repeated, since the retransmission timer loses two
  ticks for each of them at most, and `Shown` that the packet the host finds at the gate is news to
  it. On the side of the chip, `Working` says how far it has come with the command under way,
  `Calm` and `Acking` that outside that wait all it can do is to repeat one answer, the one in the
  register; this is why the nested Exec of `Exec` must come before the command of the other tag. Their
  mutants leave out the nested Exec, and look at the register one command late.

`LinkLayer_proofs`, third part, for users that make any calls, chips of any pace and resets:
* `FlushTransmitsAllHolds`: when Flush returns, nothing waits that was never transmitted. All it
  assumes is that SEND_TIMEOUT is two windows (`ExecTicks`, linklayer.h:40-43). One Exec per tag
  is enough only if no more than one payload of a tag is left behind, since an Exec transmits one
  packet; a payload is left behind when a retransmission takes its turn. The invariant `FlushInv` is
  that no second retransmission is due before the payload has been transmitted: each Exec in
  between takes two ticks and transmits one more payload of the window (`Clock`), and a window
  has no more than WND_S. That the timer is started again by a retransmission, or by an
  acknowledgement, is what the argument begins with; the mutant leaves the timeout pending.

`HardwareLock_proofs`:
* `ExclusiveAccessHolds`, `UsersAreCoveredHolds`, for any number of programs and families that
  die at any time, if every process has one HMFRunLog object (`OneObjectEach`); the properties
  themselves speak of programs that are alone in their shell, until a shell unlocks or dies. The
  invariant `LockInv` adds to the claim what holds between the calls: whoever does anything lives,
  and who is about to remove the lock uses nothing.
* `ValidLockKeptHolds` and `TypeCorrect` under no condition: a valid lock that no shell unlocks is
  removed only by its owner's own destructor. The invariant `KeepInv` adds that a shell removes
  only what it has read, and that, until one has, a lock about to be removed still belongs to its
  living remover.

`HostAL_proofs`, with `Orderly`:
* `ConfigConfirmedHolds`, `FlagsAgreeHolds`, `EndIsCurrentHolds`, timeouts included. `ConfigInv`:
  at most one configuration packet is on its way to the FPGA, and none while an answer to one is
  under way or a playback runs (`OnePacket`); the host's flags are the FPGA's or those in the packet
  on its way, which is gone once a call has returned true (`FlagsOnTheirWay`); while the end of a
  playback is known or under way, nothing plays and no packet will start it (`NothingStarts`).
* `CommandsInOrderHolds`. `WayInv`: what is in the frames to the FPGA and in the buffer is in the
  order of issue, and contains everything issued after its first command. That this is the end of
  the sequence of all commands is an induction from its last one.
* `TraceCompleteHolds`. `TraceInv`: a request for a trace read is on its way only while no pulse of
  an earlier one is anywhere; `AwaitInv`: a call that awaits its configuration packet finds that
  packet first, or nothing will come, so that it never takes a frame of pulses from the stream.
* `AnswersInOrderHolds`. `AnswerInv`: for each destination the reads answered, received, answered
  by the chip, handed to the chip, and on their way follow one another by number, each stage in
  order, and together they are all reads (`Flow`). Every step moves the first of a stage to the end
  of the one before; one lemma for each such move.

`SpikeTrains_proofs`:
* `PacedHolds`, with `Orderly`: releases are one clock apart or the minimum distance, none is early
  by that distance, and one is late only as far as the distance demands. `HostInv` ties the time of
  the latest release to the encoder's notes of time.
* `TypeCorrect`: the patched count is always that of a group's first word, and fits its bits.
* `PlayedAsPlannedHolds`, with `Orderly` and `WaitsSuffice`: no pause exceeds what one wait entry
  can count (2^14 - 1 overflows), since addPlaybackPulse truncates a longer one with a warning; the
  run keeps within it too. `PlanInv`: there is a plan of the words written so far (`Planned`),
  which says where entries start, when the playing unit is ready for each, and how many requests it
  has released by then; the host's notes, the latest release and the start of the last group, are
  where the plan ends (`Reaches`). Every call extends the plan: an entry more, a group that is
  continued and so ends later (its count and last words are patched, nothing before it moves), a
  wait before either. While the FPGA plays it is at an entry of the plan or in a group of it, at the
  plan's time (`Stands`), so that what it has released is what was asked (`Matches`). That times are
  seen modulo the period does no harm because an entry is ready less than a period before it is
  due (`From`), which is what the wait entries are for (`NoGap`, `GapFilled`).
* `TraceExactHolds`, under the same assumptions, for any timestamps. `TraceInv`: what is in the trace, and the pulse that
  waits for a second one, are the pulses released so far, in order (`Traces`, `Waiting`); each has
  as many overflows recorded before it as its release has periods behind it (`IsTraced`), since the
  recording unit never is ahead of the playing one and a pulse waits for it. While the host reads, what
  it has gathered and what is left in the trace are all of them. The decoder is right about one pulse
  (`TimeFound`) because a stamp in the half of a period of the release, or in the half before,
  is of the period of the release, or of the one before exactly when the counter's top bit is clear
  and that of the stamp is set; any other stamp looks like the one in these halves
  that is a whole number of timestamp periods away (`ReadAs`), and is decoded as that one.

`RealtimeLink_proofs`:
* `HeldIntactHolds` for any ring size, both kinds of senders, losses and any calls. `RingInv`: from
  the oldest frame that is not freed on, the ring has three parts, measured by their distance from
  it: frames taken or dropped, frames to be taken, slots of the kernel.
* `InOrderOnceHolds`: while nothing is lost and no ring lapped. `OrderInv`: the packets of a host
  are, one behind the other in the order they were queued, delivered, in the other's receive ring,
  on the network and in its own transmit ring; each lies in the slot its distance from the heads
  of the rings says.
* `SampleMatchesHolds`, with `Orderly`. `RoundInv`: while the master is in sync(), at most one packet
  is on its way, in a ring or on the network, and it is the request of this round or its answer.
* `TypeCorrect`.

`Repeaters_proofs`:
* `CopyIsCurrentHolds` and `TypeCorrect` for any block, any restart, and whatever reads failed before.
  `CopyInv` adds how far reset has come, and configure where no read of it has failed so far.
* `TestOutputExclusiveHolds`, `DriversExclusiveHolds`, with `Orderly`. `FullInv` adds that the flags
  name every repeater that drives a test output, and that conf_repeater has switched one driver
  off before the other goes on.
* `StartedHasItsDataHolds`. `WrittenInv`: what was written for a channel is in the register that
  channel uses, which in the lower repeaters is that of the other one.

`LinkInit_proofs`:
* `StatesMatchLinksHolds` and `TypeCorrect`, whatever is called, fails or is killed (`BaseInv`).
* `HighspeedReadyHolds`, `OthersCutOffHolds`, `EndsInStepHolds`, with `Orderly`. `ReadyInv` adds, for
  each stage of Init, which channels it has dealt with so far; the loops over channels go from each
  to the least one above it, so that none is left out.

Type invariants are proved and not run, except that `HostAL` and `LinkLayer` have none (`LinkTypes`
is what the proofs about `LinkLayer` need of one).

Sequences are put together by folds (`FlattenSeq`), so that some of these proofs are inductions over
data, and the pulses among what was asked for (`Pulses`) are computed by recursion. The library's
induction theorems cannot be used for them; the least counterexample can (lemma `Least` of
`HostAL_proofs` and `SpikeTrains_proofs`, from the well-foundedness of the naturals).

Only model-checked: everything about liveness, which is beyond the prover together with ENABLED.
Every invariant and every action property that a passing run checks is proved.

## 5. What is left

JTAG bulk frames and the fallback to JTAG in `HostAL`; the resets of the whole FPGA and of hostARQ
in `LinkInit`.

Not modelled, and not planned:

* The wafer reset lock: the program that resets the wafer, the other party of the protocol, is
  outside the repository. That the retry loop of init_s2comm does not retry (`continue` in a
  `do ... while(false)`, s2comm.cpp:117) is listed as a hazard.
* The freeze handler: its first step is undefined behaviour, a jump into a function that has
  returned, so that nothing after it has a meaning.
* A second ReticleControl of one reticle, whose destructor uses a null pointer.
* The configuration modules other than the repeaters: sequences of register accesses without state
  of their own, which rely on the answers in order that `LinkLayer` and `HostAL` establish.
* Devices and drivers, boards, JTAG library, measurement, generated types, generators, bindings.
* The test modes, about 120 interactive experiments and by far the largest part of the repository:
  they are users of the interfaces above, each its own script. This is why the map covers only a
  small share of all lines, though most of those whose correctness depends on the order of events.
