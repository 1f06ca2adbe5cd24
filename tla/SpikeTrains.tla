---------------------------- MODULE SpikeTrains ----------------------------
(***************************************************************************)
(* Spikes into the FPGA and back: the playback program that                *)
(* HostALController builds from calls in the order of time, the unit of    *)
(* the FPGA that plays it, the loopback of the played pulses into the      *)
(* trace memory, and the decoding of the trace                             *)
(* (units/stage2_hal/source/host_al_controller.cpp).                       *)
(*                                                                         *)
(* The FPGA counts time modulo Period.  Pulses carry a timestamp of their  *)
(* own, the time in the HICANN, which runs at twice the FPGA's clock and   *)
(* need not agree with the time at which the FPGA plays the pulse:         *)
(* sendPulseList sets it ahead by the delay between the two.  Both sides   *)
(* reconstruct full times from overflows.                                  *)
(* Host times are unbounded, as the code's 64 bits are to it.              *)
(***************************************************************************)
EXTENDS Integers, Sequences

CONSTANTS Period,       \* period of the FPGA's time counter, 2^14
          MinDistance,  \* min_reltime_distance_clks, 6
          Latency,      \* clocks after a release until the FPGA waits again, 4
          MaxGroup,     \* max_pulses_per_group, 184
          MaxWait,      \* overflows one wait entry can count, 2^14 - 1
          Ids,          \* pulse addresses
          Gaps,         \* bound: distances in time of one call from the last
          Offsets,      \* bound: timestamps of pulses, from twice the time of play
          MaxCalls,     \* bound on the calls
          Orderly       \* configuration keeps its distance from pulses

\* Stands for an address where configuration is asked for.
Setting == "setting"

ASSUME SpikeAssumption ==
  /\ Period \in Nat /\ Period > 0 /\ Period % 2 = 0
  /\ MinDistance \in Nat /\ Latency \in Nat /\ Latency < MinDistance /\ MinDistance < Period
  /\ MaxGroup \in Nat \ {0} /\ MaxWait \in Nat /\ MaxCalls \in Nat
  /\ Gaps \subseteq Nat /\ Offsets \subseteq Int
  /\ Orderly \in BOOLEAN
  /\ Setting \notin Ids

VARIABLES
  playback_entry_buffer,
  last_playback_reltime,
  last_group_start_in_buffer,   \* counted from 1; 0 stands for the code's -1
  time,        \* time of the last call
  asked,       \* what was asked for: address, time, timestamp, time of release
  calls,       \* number of calls
  program,     \* the playback memory of the FPGA
  phase,       \* "fill", "play" or "read"
  replacing,   \* the FPGA writes the time of release into the pulse
  pos, left, ready,   \* the playing unit: next word, pulses left in the group,
                      \* and when it can release something next
  played,      \* what was released: address and time
  overflows, pending, trace,    \* the recording unit: overflows recorded, a
                      \* pulse that waits for a second one, the trace memory
  trace_overflow_count,
  recpulse_buffer

hostVars  == <<playback_entry_buffer, last_playback_reltime, last_group_start_in_buffer,
               time, asked, calls>>
playVars  == <<pos, left, ready, played>>
traceVars == <<overflows, pending, trace>>
readVars  == <<trace_overflow_count, recpulse_buffer>>
vars      == <<hostVars, program, phase, replacing, playVars, traceVars, readVars>>

Epoch(t) == t \div Period

\* 32-bit words of the playback memory.  An entry starts at an odd position; a
\* group's first word is followed by its pulses, a configuration's by three words.
Group(n, t) == [kind |-> "group", count |-> n, time |-> t % Period]
Pulse(a, s) == [kind |-> "pulse", id |-> a, time |-> s % (2 * Period)]
Wait(n)     == [kind |-> "wait", count |-> n]
Config(t)   == [kind |-> "config", time |-> t % Period]
Payload     == [kind |-> "payload"]
Pad         == [kind |-> "pad"]
None        == [kind |-> "none"]

\* Four words.
ConfigEntry(t) == <<Config(t), Pad, Payload, Payload>>

Words ==
  [kind : {"group"}, count : 1 .. MaxGroup, time : 0 .. Period - 1]
  \cup [kind : {"pulse"}, id : Ids, time : 0 .. 2 * Period - 1]
  \cup [kind : {"wait"}, count : 0 .. MaxWait]
  \cup [kind : {"config"}, time : 0 .. Period - 1]
  \cup [kind : {"payload", "pad"}]

Init ==
  /\ playback_entry_buffer = <<>> /\ last_playback_reltime = 0
  /\ last_group_start_in_buffer = 0
  /\ time = 0 /\ asked = <<>> /\ calls = 0
  /\ program = <<>> /\ phase = "fill" /\ replacing \in BOOLEAN
  /\ pos = 1 /\ left = 0 /\ ready = 0 /\ played = <<>>
  /\ overflows = 0 /\ pending = None /\ trace = <<>>
  /\ trace_overflow_count = 0 /\ recpulse_buffer = <<>>
-----------------------------------------------------------------------------
(* The host fills the playback memory.                                     *)

\* Mutant of Waits: the playing unit is taken to wait at once.
WaitsEpochs(t) == Epoch(t) - Epoch(last_playback_reltime)

\* Overflows to wait for before t.  One that passes before the playing unit
\* waits again does not count.
Waits(t) ==
  LET diff == Epoch(t) - Epoch(last_playback_reltime)
             - (IF last_playback_reltime % Period > Period - Latency - 1 THEN 1 ELSE 0)
  IN  IF diff > MaxWait THEN MaxWait ELSE diff

\* The counter value of t alone would not be understood.  The subtraction of the
\* code is unsigned: it is large if t lies before the last release.
FarAhead(t) ==
  /\ t < last_playback_reltime \/ t - last_playback_reltime > Period \div 2
  /\ Epoch(last_playback_reltime) < Epoch(t)

Overflow(t) == IF FarAhead(t) THEN <<Wait(Waits(t)), Pad>> ELSE <<>>

GroupCount == playback_entry_buffer[last_group_start_in_buffer].count

Continues(t) ==
  /\ t < last_playback_reltime + MinDistance
  /\ last_playback_reltime > 0
  /\ last_group_start_in_buffer > 0
  /\ GroupCount < MaxGroup

\* A pulse goes into the second half of the last 64-bit entry, or into a new one.
WithPulse(b, n, p) ==
  IF n % 2 = 1 THEN b \o <<p, Pad>> ELSE [b EXCEPT ![Len(b)] = p]

Asked(a, t, s, release) == [id |-> a, time |-> t, stamp |-> s, release |-> release]

continueGroup(t, s, a) ==
  LET n == GroupCount
  IN  /\ playback_entry_buffer' =
           [WithPulse(playback_entry_buffer, n, Pulse(a, s))
              EXCEPT ![last_group_start_in_buffer].count = n + 1]
      /\ last_playback_reltime' = last_playback_reltime + 1
      /\ asked' = Append(asked, Asked(a, t, s, last_playback_reltime + 1))
      /\ UNCHANGED last_group_start_in_buffer

\* Mutant of Shifted: a pulse too close to the last is not shifted.
NotShifted(t) == t
Shifted(t) ==
  IF t < last_playback_reltime + MinDistance THEN last_playback_reltime + MinDistance ELSE t

startGroup(t, s, a) ==
  LET b == playback_entry_buffer \o Overflow(t)
  IN  /\ playback_entry_buffer' = b \o <<Group(1, Shifted(t)), Pulse(a, s)>>
      /\ last_group_start_in_buffer' = Len(b) + 1
      /\ last_playback_reltime' = Shifted(t)
      /\ asked' = Append(asked, Asked(a, t, s, Shifted(t)))

Call(t) ==
  /\ phase = "fill" /\ calls < MaxCalls
  /\ calls' = calls + 1
  /\ time' = t
  /\ UNCHANGED <<phase, replacing, playVars, traceVars, readVars>>

AfterConfig == asked # <<>> /\ asked[Len(asked)].id = Setting

\* Configuration does not end the group: a pulse must not follow it too closely.
KeepsDistance(t) ==
  Orderly /\ AfterConfig => t >= time + MinDistance

\* Configuration is never shifted; without a wait entry and a note of its time
\* it is safe only where no overflow lies between it and the last release.
Distant(t)   == Orderly /\ calls > 0 => t >= last_playback_reltime + MinDistance
SameEpoch(t) == Orderly => Epoch(t + Latency) = Epoch(last_playback_reltime + Latency)

\* fpga_time, hicann_time and id.
addPlaybackPulse(t, s, a) ==
  /\ Call(t)
  /\ KeepsDistance(t)
  /\ UNCHANGED program
  /\ IF Continues(t) THEN continueGroup(t, s, a) ELSE startGroup(t, s, a)

AddSetting(t) ==
  /\ Call(t)
  /\ KeepsDistance(t) /\ Distant(t)
  /\ asked' = Append(asked, Asked(Setting, t, 0, t))
  /\ UNCHANGED last_group_start_in_buffer

addPlaybackConfig(t) ==
  /\ AddSetting(t) /\ SameEpoch(t)
  /\ playback_entry_buffer' = playback_entry_buffer \o ConfigEntry(t)
  /\ UNCHANGED <<program, last_playback_reltime>>

\* Sent at once, past the buffer.
sendPlaybackConfig(t) ==
  /\ AddSetting(t) /\ SameEpoch(t)
  /\ playback_entry_buffer = <<>>
  /\ program' = program \o ConfigEntry(t)
  /\ UNCHANGED <<playback_entry_buffer, last_playback_reltime>>

addPlaybackFPGAConfig(t) ==
  /\ AddSetting(t)
  /\ playback_entry_buffer' = playback_entry_buffer \o Overflow(t) \o ConfigEntry(t)
  /\ last_playback_reltime' = t
  /\ UNCHANGED program

flushPlaybackPulses ==
  /\ phase = "fill" /\ playback_entry_buffer # <<>>
  /\ program' = program \o playback_entry_buffer
  /\ playback_entry_buffer' = <<>>
  /\ last_group_start_in_buffer' = 0
  /\ UNCHANGED <<last_playback_reltime, time, asked, calls, phase, replacing,
                 playVars, traceVars, readVars>>

startPlaybackTrace ==
  /\ phase = "fill" /\ playback_entry_buffer = <<>> /\ program # <<>>
  /\ phase' = "play"
  /\ last_playback_reltime' = 0
  /\ UNCHANGED <<playback_entry_buffer, last_group_start_in_buffer, time, asked, calls,
                 program, replacing, playVars, traceVars, readVars>>
-----------------------------------------------------------------------------
(* The FPGA plays and records.                                             *)

\* The first time from `ready` on at which the counter shows c.
Release(c) == ready + ((c - ready) % Period)

Playing(kind) ==
  /\ phase = "play" /\ left = 0 /\ pos <= Len(program)
  /\ program[pos].kind = kind
  /\ UNCHANGED <<hostVars, program, phase, replacing, traceVars, readVars>>

PlayWait ==
  /\ Playing("wait")
  /\ LET n == program[pos].count
     IN  ready' = IF n = 0 THEN ready ELSE (Epoch(ready) + n) * Period
  /\ pos' = pos + 2
  /\ UNCHANGED <<left, played>>

PlayConfig ==
  /\ Playing("config")
  /\ ready' = Release(program[pos].time) + Latency
  /\ played' = Append(played, [id |-> Setting, time |-> Release(program[pos].time)])
  /\ pos' = pos + 4
  /\ UNCHANGED left

PlayGroup ==
  /\ Playing("group")
  /\ left' = program[pos].count
  /\ ready' = Release(program[pos].time)
  /\ pos' = pos + 1
  /\ UNCHANGED played

\* A pulse comes back: its timestamp, and the top bit of the counter as it does.
Traced(p) ==
  [kind |-> "pulse", id |-> p.id, fpga_msb |-> ready % Period >= Period \div 2,
   stamp |-> IF replacing THEN (2 * ready) % (2 * Period) ELSE p.time]

\* Two pulses make an entry of the trace.
Record(p) ==
  IF pending = None THEN pending' = p /\ UNCHANGED trace
  ELSE pending' = None /\ trace' = Append(trace, [ov |-> FALSE, pulses |-> <<pending, p>>])

PlayPulse ==
  /\ phase = "play" /\ left > 0 /\ pos <= Len(program)
  /\ program[pos].kind = "pulse"
  /\ ready < (overflows + 1) * Period
  /\ Record(Traced(program[pos]))
  /\ played' = Append(played, [id |-> program[pos].id, time |-> ready])
  /\ left' = left - 1
  /\ IF left = 1 THEN ready' = ready + Latency /\ pos' = pos + 1 + (pos % 2)
                 ELSE ready' = ready + 1 /\ pos' = pos + 1
  /\ UNCHANGED <<hostVars, program, phase, replacing, overflows, readVars>>

Finished == pos > Len(program) /\ left = 0

\* An overflow is recorded, with the pulse that waits for a second one.
RecordOverflow ==
  /\ phase = "play"
  /\ \/ left > 0 /\ ready >= (overflows + 1) * Period
     \/ Finished /\ pending # None
  /\ overflows' = overflows + 1
  /\ trace' = Append(trace, [ov |-> TRUE, pulses |-> IF pending = None THEN <<>> ELSE <<pending>>])
  /\ pending' = None
  /\ UNCHANGED <<hostVars, program, phase, replacing, playVars, readVars>>
-----------------------------------------------------------------------------
(* The host reads the trace.                                               *)

startTraceRead ==
  /\ phase = "play" /\ Finished /\ pending = None
  /\ phase' = "read"
  /\ trace_overflow_count' = 0
  /\ recpulse_buffer' = <<>>
  /\ UNCHANGED <<hostVars, program, replacing, playVars, traceVars>>

\* The pulse was stamped before the overflow that was recorded before it.
\* Mutant of BeforeOverflow: the case is left out.
NeverBefore(p) == FALSE
BeforeOverflow(p) == ~p.fpga_msb /\ p.stamp >= Period

\* curr_inttime
IntTime(p) ==
  LET t == p.stamp + trace_overflow_count * 2 * Period
  IN  IF BeforeOverflow(p) /\ t >= 2 * Period THEN t - 2 * Period ELSE t

IgnoredEarly(p) ==
  BeforeOverflow(p) /\ p.stamp + trace_overflow_count * 2 * Period < 2 * Period

\* The same pulse again, at the same time or a whole period later.
ReceivedTwice(rec, p) ==
  rec # <<>> /\ LET back == rec[Len(rec)]
                IN  /\ back.id = p.id
                    /\ IntTime(p) \in {back.time, back.time + 2 * Period}

Decoded(rec, p) ==
  IF ReceivedTwice(rec, p) \/ IgnoredEarly(p) THEN rec
  ELSE Append(rec, [id |-> p.id, time |-> IntTime(p)])

DecodedAll(ps) ==
  CASE Len(ps) = 0 -> recpulse_buffer
    [] Len(ps) = 1 -> Decoded(recpulse_buffer, ps[1])
    [] Len(ps) = 2 -> Decoded(Decoded(recpulse_buffer, ps[1]), ps[2])

fill_receive_buffer ==
  /\ phase = "read" /\ trace # <<>>
  /\ recpulse_buffer' = DecodedAll(Head(trace).pulses)
  /\ trace_overflow_count' = trace_overflow_count + (IF Head(trace).ov THEN 1 ELSE 0)
  /\ trace' = Tail(trace)
  /\ UNCHANGED <<hostVars, program, phase, replacing, playVars, overflows, pending>>

Host ==
  \/ \E g \in Gaps :
       \/ \E a \in Ids, d \in Offsets :
            2 * (time + g) + d >= 0 /\ addPlaybackPulse(time + g, 2 * (time + g) + d, a)
       \/ addPlaybackConfig(time + g) \/ sendPlaybackConfig(time + g)
       \/ addPlaybackFPGAConfig(time + g)
  \/ flushPlaybackPulses \/ startPlaybackTrace \/ startTraceRead \/ fill_receive_buffer

FPGA == PlayWait \/ PlayConfig \/ PlayGroup \/ PlayPulse \/ RecordOverflow

Next == Host \/ FPGA

Spec == Init /\ [][Next]_vars
-----------------------------------------------------------------------------
\* Types.  The host's side of the playback memory keeps to 64-bit entries.
TypeOK ==
  /\ playback_entry_buffer \in Seq(Words) /\ program \in Seq(Words)
  /\ Len(playback_entry_buffer) % 2 = 0
  /\ last_playback_reltime \in Nat /\ time \in Nat /\ calls \in 0 .. MaxCalls
  /\ last_group_start_in_buffer \in 0 .. Len(playback_entry_buffer)
  /\ last_group_start_in_buffer > 0 =>
       /\ last_group_start_in_buffer % 2 = 1
       /\ playback_entry_buffer[last_group_start_in_buffer].kind = "group"
  /\ phase \in {"fill", "play", "read"} /\ replacing \in BOOLEAN
  /\ pos \in Nat \ {0} /\ left \in 0 .. MaxGroup /\ ready \in Nat
  /\ overflows \in Nat /\ trace_overflow_count \in Nat

\* The playing unit meets an entry where it expects one, and as many pulses as
\* the group's count, which is patched with every pulse, says.
Aligned ==
  phase = "play" =>
    /\ left > 0 => pos <= Len(program)
    /\ pos <= Len(program) =>
         program[pos].kind \in IF left > 0 THEN {"pulse"} ELSE {"wait", "config", "group"}

\* The FPGA, which sees times modulo Period and counts overflows only while it
\* waits, releases everything at the time the host planned, and nothing is left
\* over or misread.
PlayedAsPlanned ==
  /\ Aligned
  /\ Len(played) <= Len(asked)
  /\ \A i \in DOMAIN played :
       played[i].id = asked[i].id /\ played[i].time = asked[i].release
  /\ phase = "read" => Len(played) = Len(asked)

\* Releases are one clock apart, in a group, or MinDistance, so that the playing
\* unit can follow; a pulse is less than MinDistance early, and it is late only
\* if it had to keep its distance from the one before.
Paced ==
  \A i \in DOMAIN asked :
    /\ asked[i].release > asked[i].time - MinDistance
    /\ i > 1 =>
         LET d == asked[i].release - asked[i - 1].release
         IN  /\ d = 1 \/ d >= MinDistance
             /\ asked[i].release > asked[i].time => d <= MinDistance

\* The pulses among what was asked for.
Pulses ==
  LET among[n \in 0 .. Len(asked)] ==
        IF n = 0 THEN <<>>
        ELSE IF asked[n].id = Setting THEN among[n - 1] ELSE Append(among[n - 1], asked[n])
  IN  among[Len(asked)]
\* The full time of the timestamp that a pulse comes back with.
Stamped(p) == IF replacing THEN 2 * p.release ELSE p.stamp

\* A pulse is stamped in the half of a period in which it is released, or in the
\* half before.  A stamp that runs ahead is not, if the counter's top bit changes
\* between the release and the stamp.
Half(t)   == t \div (Period \div 2)
Recent(p) == Half(Stamped(p) \div 2) \in {Half(p.release) - 1, Half(p.release)}

\* The time the host can tell: in those two halves, with that timestamp.
ReadAs(p) ==
  IF Recent(p) THEN Stamped(p)
  ELSE LET first == (Half(p.release) - 1) * Period
       IN  first + ((Stamped(p) - first) % (2 * Period))

\* The host cannot tell a pulse from the last one traced twice if it has the same
\* address and timestamp, and is a period later at most.
Repeats(rec, p) ==
  rec # <<>> /\ rec[Len(rec)].id = p.id /\ ReadAs(p) - rec[Len(rec)].time \in {0, 2 * Period}

Expected ==
  LET upto[n \in 0 .. Len(Pulses)] ==
        IF n = 0 THEN <<>>
        ELSE IF ReadAs(Pulses[n]) < 0 \/ Repeats(upto[n - 1], Pulses[n]) THEN upto[n - 1]
        ELSE Append(upto[n - 1], [id |-> Pulses[n].id, time |-> ReadAs(Pulses[n])])
  IN  upto[Len(Pulses)]

\* What comes out of the trace are the pulses asked for, in order, whichever side
\* of an overflow a pulse was stamped, released or recorded.  One that is stamped
\* recently enough comes out at its full time, whatever the others do; any other a
\* whole number of periods off, or not at all if that lies before the start.
TraceExact == phase = "read" /\ trace = <<>> => recpulse_buffer = Expected
=============================================================================
