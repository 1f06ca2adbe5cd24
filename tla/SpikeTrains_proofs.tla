-------------------------- MODULE SpikeTrains_proofs --------------------------
(***************************************************************************)
(* Proofs about SpikeTrains: what HostALController does to the times of    *)
(* the pulses it is given, what the FPGA makes of the words it writes, and *)
(* what the host reads from the trace, for all periods, distances, group   *)
(* sizes and sequences of calls.                                           *)
(***************************************************************************)
EXTENDS SpikeTrains, SequenceTheorems, WellFoundedInduction, TLAPS

Request == [id : Ids \cup {Setting}, time : Nat, stamp : Nat, release : Nat]

\* The last request, and where the host stands: after a pulse its release is
\* last_playback_reltime, which lags behind after configuration.
Latest == asked[Len(asked)]

Standing ==
  /\ Latest.time = time
  /\ IF Latest.id = Setting
     THEN Latest.release = time /\ last_playback_reltime <= time
     ELSE Latest.release = last_playback_reltime

HostTypes ==
  /\ asked \in Seq(Request) /\ time \in Nat /\ last_playback_reltime \in Nat /\ calls \in Nat

HostInv ==
  /\ HostTypes
  /\ Paced
  /\ phase = "fill" =>
       IF asked = <<>> THEN last_playback_reltime = 0 /\ calls = 0
                       ELSE Standing /\ calls > 0

\* What Paced says of a request, and of one and the next.
OnTime(x)   == x.release > x.time - MinDistance
After(x, y) == LET d == y.release - x.release
               IN  /\ d = 1 \/ d >= MinDistance
                   /\ y.release > y.time => d <= MinDistance

LEMMA PacedIs ==
  /\ Paced <=> \A i \in DOMAIN asked : OnTime(asked[i]) /\ (i > 1 => After(asked[i - 1], asked[i]))
  /\ Paced' <=> \A i \in DOMAIN asked' :
                  OnTime(asked'[i]) /\ (i > 1 => After(asked'[i - 1], asked'[i]))
BY Zenon DEF Paced, OnTime, After

\* A request that keeps its distance from the last one keeps the pace.
LEMMA PacedAppend ==
  ASSUME asked \in Seq(Request), Paced, NEW a, NEW t \in Nat, NEW st \in Nat, NEW r \in Nat,
         asked' = Append(asked, Asked(a, t, st, r)), a \in Ids \cup {Setting},
         r > t - MinDistance,
         asked # <<>> => LET d == r - Latest.release
                         IN  /\ d = 1 \/ d >= MinDistance
                             /\ r > t => d <= MinDistance
  PROVE  asked' \in Seq(Request) /\ Paced' /\ asked' # <<>> /\ Latest' = Asked(a, t, st, r)
<1>1. Asked(a, t, st, r) \in Request
  BY DEF Asked, Request
<1>2. asked' \in Seq(Request) /\ Len(asked') = Len(asked) + 1
  BY <1>1
<1>3. \A i \in 1 .. Len(asked) : asked'[i] = asked[i]
  BY <1>1
<1>4. asked'[Len(asked) + 1] = Asked(a, t, st, r)
  BY <1>1
<1>5. OnTime(Asked(a, t, st, r)) /\ (asked # <<>> => After(Latest, Asked(a, t, st, r)))
  <2>1. Asked(a, t, st, r).release = r /\ Asked(a, t, st, r).time = t
    BY DEF Asked
  <2> QED BY <2>1 DEF OnTime, After
<1>6. ASSUME NEW i \in DOMAIN asked'
      PROVE  OnTime(asked'[i]) /\ (i > 1 => After(asked'[i - 1], asked'[i]))
  <2>1. CASE i \in 1 .. Len(asked)
    <3>1. asked'[i] = asked[i] /\ (i > 1 => asked'[i - 1] = asked[i - 1])
      BY <1>3, <2>1
    <3>2. OnTime(asked[i]) /\ (i > 1 => After(asked[i - 1], asked[i]))
      BY <2>1, PacedIs
    <3> QED BY <3>1, <3>2
  <2>2. CASE i = Len(asked) + 1
    <3>1. asked'[i] = Asked(a, t, st, r) /\ (i > 1 => asked'[i - 1] = Latest /\ asked # <<>>)
      BY <1>3, <1>4, <2>2 DEF Latest
    <3> QED BY <1>5, <3>1
  <2> QED BY <1>2, <2>1, <2>2
<1>7. Paced'
  BY <1>6, PacedIs
<1> QED BY <1>2, <1>4, <1>7 DEF Latest

\* One step, for all programs that keep configuration apart from pulses.
LEMMA PulseStep ==
  ASSUME Orderly, HostInv, NEW g \in Gaps, NEW a \in Ids, NEW st \in Nat, addPlaybackPulse(time + g, st, a)
  PROVE  HostInv'
<1> USE SpikeAssumption
<1> DEFINE t == time + g
<1>1. /\ HostTypes /\ Paced /\ phase = "fill" /\ phase' = phase /\ t \in Nat /\ t >= time
      /\ time' = t /\ calls' = calls + 1 /\ calls' \in Nat /\ a \in Ids \cup {Setting} /\ a # Setting
  BY DEF HostInv, HostTypes, addPlaybackPulse, Call
<1>2. asked # <<>> /\ Latest.id = Setting => Latest.release = time /\ t >= time + MinDistance
                                            /\ last_playback_reltime <= time
  <2>1. KeepsDistance(t)
    BY DEF addPlaybackPulse
  <2> QED BY <1>1, <2>1 DEF HostInv, Standing, KeepsDistance, AfterConfig, Latest
<1>3. asked # <<>> /\ Latest.id # Setting => Latest.release = last_playback_reltime
  BY <1>1 DEF HostInv, Standing
<1>4. asked = <<>> => last_playback_reltime = 0
  BY <1>1 DEF HostInv
<1>5. CASE Continues(t)
  <2>1. /\ asked' = Append(asked, Asked(a, t, st, last_playback_reltime + 1))
        /\ last_playback_reltime' = last_playback_reltime + 1
    BY <1>5 DEF addPlaybackPulse, continueGroup
  <2>2. last_playback_reltime > 0 /\ t < last_playback_reltime + MinDistance
    BY <1>5 DEF Continues
  <2>3. asked # <<>> => Latest.release = last_playback_reltime
    BY <1>1, <1>2, <1>3, <2>2 DEF HostTypes
  <2>4. last_playback_reltime + 1 \in Nat /\ last_playback_reltime + 1 > t - MinDistance
    BY <1>1, <2>2 DEF HostTypes
  <2>5. asked # <<>> => LET d == (last_playback_reltime + 1) - Latest.release
                        IN  /\ d = 1 \/ d >= MinDistance
                            /\ last_playback_reltime + 1 > t => d <= MinDistance
    BY <1>1, <2>3 DEF HostTypes
  <2>6. asked' \in Seq(Request) /\ Paced' /\ asked' # <<>>
        /\ Latest' = Asked(a, t, st, last_playback_reltime + 1)
    BY <1>1, <2>1, <2>4, <2>5, PacedAppend DEF HostTypes
  <2> QED BY <1>1, <2>1, <2>4, <2>6 DEF HostInv, HostTypes, Standing, Asked
<1>6. CASE ~Continues(t)
  <2>1. /\ asked' = Append(asked, Asked(a, t, st, Shifted(t)))
        /\ last_playback_reltime' = Shifted(t)
    BY <1>6 DEF addPlaybackPulse, startGroup
  <2>2. Shifted(t) \in Nat /\ Shifted(t) >= t /\ Shifted(t) >= last_playback_reltime + MinDistance
        /\ (Shifted(t) > t => Shifted(t) = last_playback_reltime + MinDistance)
    BY <1>1 DEF Shifted, HostTypes
  <2>3. Shifted(t) > t - MinDistance
    BY <1>1, <2>2
  <2>4. asked # <<>> => LET d == Shifted(t) - Latest.release
                        IN  /\ d = 1 \/ d >= MinDistance
                            /\ Shifted(t) > t => d <= MinDistance
    <3>1. CASE asked # <<>> /\ Latest.id = Setting
      BY <1>1, <1>2, <2>2, <3>1 DEF HostTypes
    <3>2. CASE asked # <<>> /\ Latest.id # Setting
      BY <1>1, <1>3, <2>2, <3>2 DEF HostTypes
    <3> QED BY <3>1, <3>2
  <2>5. asked' \in Seq(Request) /\ Paced' /\ asked' # <<>> /\ Latest' = Asked(a, t, st, Shifted(t))
    BY <1>1, <2>1, <2>2, <2>3, <2>4, PacedAppend DEF HostTypes
  <2> QED BY <1>1, <2>1, <2>2, <2>5 DEF HostInv, HostTypes, Standing, Asked
<1> QED BY <1>5, <1>6

LEMMA SettingStep ==
  ASSUME Orderly, HostInv, NEW g \in Gaps, AddSetting(time + g),
         last_playback_reltime' \in {last_playback_reltime, time + g}
  PROVE  HostInv'
<1> USE SpikeAssumption
<1> DEFINE t == time + g
<1>1. /\ HostTypes /\ Paced /\ phase = "fill" /\ phase' = phase /\ t \in Nat /\ t >= time
      /\ time' = t /\ calls' = calls + 1 /\ calls' \in Nat /\ Setting \in Ids \cup {Setting}
      /\ asked' = Append(asked, Asked(Setting, t, 0, t))
  BY DEF HostInv, HostTypes, AddSetting, Call
<1>2. calls > 0 => t >= last_playback_reltime + MinDistance
  BY DEF AddSetting, Distant
<1>3. asked # <<>> => t - Latest.release >= MinDistance
  <2>1. CASE asked # <<>> /\ Latest.id = Setting
    BY <1>1, <2>1 DEF HostInv, HostTypes, Standing, AddSetting, KeepsDistance, AfterConfig, Latest
  <2>2. CASE asked # <<>> /\ Latest.id # Setting
    BY <1>1, <1>2, <2>2 DEF HostInv, HostTypes, Standing
  <2> QED BY <2>1, <2>2
<1>4. asked = <<>> => last_playback_reltime = 0
  BY <1>1 DEF HostInv
<1>5. last_playback_reltime <= t
  BY <1>1, <1>2, <1>4 DEF HostInv, HostTypes
<1>6. t > t - MinDistance
  BY <1>1
<1>7. asked' \in Seq(Request) /\ Paced' /\ asked' # <<>> /\ Latest' = Asked(Setting, t, 0, t)
  BY <1>1, <1>3, <1>6, PacedAppend DEF HostTypes
<1> QED BY <1>1, <1>5, <1>7 DEF HostInv, HostTypes, Standing, Asked

\* What the host may do: the timestamp of a pulse can be any.
LEMMA HostCalls ==
  ASSUME time \in Nat, Host
  PROVE  \/ \E g \in Gaps :
              \/ \E a \in Ids, st \in Nat : addPlaybackPulse(time + g, st, a)
              \/ addPlaybackConfig(time + g) \/ sendPlaybackConfig(time + g)
              \/ addPlaybackFPGAConfig(time + g)
         \/ flushPlaybackPulses \/ startPlaybackTrace \/ startTraceRead \/ fill_receive_buffer
<1>1. ASSUME NEW g \in Gaps, NEW a \in Ids, NEW d \in Offsets,
             2 * (time + g) + d >= 0, addPlaybackPulse(time + g, 2 * (time + g) + d, a)
      PROVE  \E st \in Nat : addPlaybackPulse(time + g, st, a)
  <2>1. 2 * (time + g) + d \in Nat
    BY <1>1, SpikeAssumption
  <2> QED BY <1>1, <2>1
<1> QED BY <1>1 DEF Host

LEMMA HostStep == ASSUME Orderly, HostInv, [Next]_vars PROVE HostInv'
<1> USE SpikeAssumption
<1>1. ASSUME NEW g \in Gaps, NEW a \in Ids, NEW st \in Nat, addPlaybackPulse(time + g, st, a)
      PROVE  HostInv'
  BY <1>1, PulseStep
<1>2. ASSUME NEW g \in Gaps,
             \/ addPlaybackConfig(time + g) \/ sendPlaybackConfig(time + g)
             \/ addPlaybackFPGAConfig(time + g)
      PROVE  HostInv'
  <2>1. AddSetting(time + g) /\ last_playback_reltime' \in {last_playback_reltime, time + g}
    BY <1>2 DEF addPlaybackConfig, sendPlaybackConfig, addPlaybackFPGAConfig
  <2> QED BY <2>1, SettingStep
<1>3. CASE startPlaybackTrace
  <2>1. asked' = asked /\ time' = time /\ calls' = calls /\ last_playback_reltime' = 0 /\ phase' = "play"
    BY <1>3 DEF startPlaybackTrace
  <2> QED BY <2>1 DEF HostInv, HostTypes, Paced
<1>4. ASSUME UNCHANGED <<asked, time, calls, last_playback_reltime>>, phase' \in {phase, "read"}
      PROVE  HostInv'
  <2>1. CASE phase' = phase
    BY <1>4, <2>1 DEF HostInv, HostTypes, Paced, Standing, Latest
  <2>2. CASE phase' = "read"
    BY <1>4, <2>2 DEF HostInv, HostTypes, Paced
  <2> QED BY <1>4, <2>1, <2>2
<1>5. CASE flushPlaybackPulses \/ startTraceRead \/ fill_receive_buffer \/ FPGA \/ UNCHANGED vars
  BY <1>4, <1>5
  DEF flushPlaybackPulses, startTraceRead, fill_receive_buffer, FPGA, PlayWait, PlayConfig,
      PlayGroup, Playing, PlayPulse, RecordOverflow, hostVars, vars
<1>6. CASE Host
  <2>1. time \in Nat
    BY DEF HostInv, HostTypes
  <2> QED BY <1>1, <1>2, <1>3, <1>5, <1>6, <2>1, HostCalls
<1> QED BY <1>5, <1>6 DEF Next

\* The encoder keeps its pace: releases are one clock apart in a group or
\* MinDistance otherwise, no pulse is MinDistance early, and one is late only as
\* far as the distance demands (host_al_controller.cpp:464-550).
THEOREM PacedHolds == ASSUME Orderly PROVE Spec => []Paced
<1>1. Init => HostInv
  BY SpikeAssumption DEF Init, HostInv, HostTypes, Paced
<1>2. HostInv /\ [Next]_vars => HostInv'
  BY HostStep
<1>3. HostInv => Paced
  BY DEF HostInv
<1> QED BY <1>1, <1>2, <1>3, PTL DEF Spec
-----------------------------------------------------------------------------
(* Types.                                                                  *)

LEMMA Appended ==
  ASSUME NEW c \in Seq(Words), NEW d \in Seq(Words)
  PROVE  /\ c \o d \in Seq(Words) /\ Len(c \o d) = Len(c) + Len(d)
         /\ \A i \in 1 .. Len(c) : (c \o d)[i] = c[i]
         /\ \A i \in 1 .. Len(d) : (c \o d)[Len(c) + i] = d[i]
OBVIOUS

LEMMA TwoAppended ==
  ASSUME NEW c \in Seq(Words), NEW x \in Words, NEW y \in Words
  PROVE  /\ c \o <<x, y>> \in Seq(Words) /\ Len(c \o <<x, y>>) = Len(c) + 2
         /\ \A i \in 1 .. Len(c) : (c \o <<x, y>>)[i] = c[i]
         /\ (c \o <<x, y>>)[Len(c) + 1] = x
<1>1. c \o <<x, y>> \in Seq(Words)
  OBVIOUS
<1>2. Len(c \o <<x, y>>) = Len(c) + 2
  OBVIOUS
<1>3. \A i \in 1 .. Len(c) : (c \o <<x, y>>)[i] = c[i]
  OBVIOUS
<1>4. (c \o <<x, y>>)[Len(c) + 1] = x
  OBVIOUS
<1> QED BY <1>1, <1>2, <1>3, <1>4

LEMMA Replaced ==
  ASSUME NEW c \in Seq(Words), NEW i \in 1 .. Len(c), NEW x \in Words
  PROVE  /\ [c EXCEPT ![i] = x] \in Seq(Words) /\ Len([c EXCEPT ![i] = x]) = Len(c)
         /\ [c EXCEPT ![i] = x][i] = x
         /\ \A j \in 1 .. Len(c) : j # i => [c EXCEPT ![i] = x][j] = c[j]
OBVIOUS

LEMMA Parity ==
  ASSUME NEW n \in Nat
  PROVE  n % 2 = 0 => (n + 2) % 2 = 0 /\ (n + 4) % 2 = 0 /\ (n + 6) % 2 = 0 /\ (n + 1) % 2 = 1
OBVIOUS

LEMMA EitherLength ==
  ASSUME NEW m, NEW n \in Nat, NEW d \in {0, 2}, m = n + d
  PROVE  m = n \/ m = n + 2
<1>1. CASE d = 0
  BY <1>1
<1>2. CASE d = 2
  BY <1>2
<1> QED BY <1>1, <1>2

LEMMA EpochNat == ASSUME NEW t \in Nat PROVE Epoch(t) \in Nat
BY SpikeAssumption DEF Epoch

\* Every word the host writes is a word of the playback memory.
LEMMA WordTypes ==
  ASSUME NEW t \in Nat, NEW a \in Ids
  PROVE  /\ Group(1, t) \in Words /\ Pulse(a, t) \in Words /\ Pad \in Words
         /\ ConfigEntry(t) \in Seq(Words) /\ Len(ConfigEntry(t)) = 4
<1> USE SpikeAssumption
<1>1. t % Period \in 0 .. Period - 1
  OBVIOUS
<1>2. 2 * Period \in Nat /\ 2 * Period > 0
  OBVIOUS
<1>3. t % (2 * Period) \in 0 .. 2 * Period - 1
  BY <1>2
<1>4. Config(t) \in Words /\ Payload \in Words /\ Pad \in Words
  BY <1>1 DEF Words, Config, Payload, Pad
<1>5. Group(1, t) \in Words
  BY <1>1 DEF Words, Group
<1>6. Pulse(a, t) \in Words
  BY <1>3 DEF Words, Pulse
<1> QED BY <1>4, <1>5, <1>6 DEF ConfigEntry

LEMMA GroupWord ==
  ASSUME NEW w \in Words, w.kind = "group"
  PROVE  /\ w.count \in 1 .. MaxGroup /\ w.time \in 0 .. Period - 1
         /\ \A n \in 1 .. MaxGroup :
              [w EXCEPT !.count = n] \in Words /\ [w EXCEPT !.count = n].kind = "group"
<1>1. w \in [kind : {"group"}, count : 1 .. MaxGroup, time : 0 .. Period - 1]
  BY DEF Words
<1> QED BY <1>1 DEF Words

LEMMA OverflowTypes ==
  ASSUME NEW t \in Nat, last_playback_reltime \in Nat
  PROVE  Overflow(t) \in Seq(Words) /\ Len(Overflow(t)) \in {0, 2}
<1> USE SpikeAssumption
<1>1. CASE FarAhead(t)
  <2>1. Epoch(t) \in Nat /\ Epoch(last_playback_reltime) \in Nat
        /\ Epoch(last_playback_reltime) < Epoch(t)
    BY <1>1, EpochNat DEF FarAhead
  <2>2. Waits(t) \in 0 .. MaxWait
    BY <2>1 DEF Waits
  <2>3. Wait(Waits(t)) \in Words /\ Pad \in Words
    BY <2>2 DEF Words, Wait, Pad
  <2> QED BY <1>1, <2>3 DEF Overflow
<1>2. CASE ~FarAhead(t)
  BY <1>2 DEF Overflow
<1> QED BY <1>1, <1>2

LEMMA PulseTypes ==
  ASSUME TypeOK, NEW g \in Gaps, NEW a \in Ids, NEW st \in Nat, addPlaybackPulse(time + g, st, a)
  PROVE  TypeOK'
<1> USE SpikeAssumption
<1> DEFINE t == time + g
           b == playback_entry_buffer
           s == last_group_start_in_buffer
<1>1. /\ t \in Nat /\ time' = t /\ calls' \in 0 .. MaxCalls
      /\ b \in Seq(Words) /\ Len(b) % 2 = 0 /\ last_playback_reltime \in Nat
  BY DEF TypeOK, addPlaybackPulse, Call
<1>2. UNCHANGED <<program, phase, replacing, playVars, traceVars, readVars>>
  BY DEF addPlaybackPulse, Call
<1> SUFFICES /\ b' \in Seq(Words) /\ Len(b') % 2 = 0 /\ last_playback_reltime' \in Nat
             /\ s' \in 0 .. Len(b') /\ (s' > 0 => s' % 2 = 1 /\ b'[s'].kind = "group")
  BY <1>1, <1>2 DEF TypeOK, playVars, traceVars, readVars
<1>3. Pulse(a, st) \in Words /\ Pad \in Words
  BY <1>1, WordTypes
<1>4. CASE Continues(t)
  <2> DEFINE w == WithPulse(b, GroupCount, Pulse(a, st))
  <2>1. s > 0 /\ GroupCount < MaxGroup /\ s' = s /\ last_playback_reltime' = last_playback_reltime + 1
        /\ b' = [w EXCEPT ![s].count = GroupCount + 1]
    BY <1>4 DEF Continues, addPlaybackPulse, continueGroup
  <2>2. s \in 1 .. Len(b) /\ s # Len(b) /\ b[s] \in Words /\ b[s].kind = "group"
    <3>1. s \in 0 .. Len(b) /\ s > 0 /\ s % 2 = 1 /\ b[s].kind = "group"
      BY <2>1 DEF TypeOK
    <3>2. s \in 1 .. Len(b) /\ b[s] \in Words
      BY <1>1, <3>1
    <3>3. s # Len(b)
      <4>1. Len(b) % 2 # s % 2
        BY <1>1, <3>1
      <4> HIDE DEF b, s
      <4> QED BY <4>1
    <3> QED BY <3>1, <3>2, <3>3
  <2>3. GroupCount \in 1 .. MaxGroup /\ GroupCount + 1 \in 1 .. MaxGroup
    <3>1. GroupCount \in 1 .. MaxGroup
      BY <2>2, GroupWord DEF GroupCount
    <3> HIDE DEF w, b, s
    <3> QED BY <2>1, <3>1
  <2>4. w \in Seq(Words) /\ Len(w) \in {Len(b), Len(b) + 2} /\ w[s] = b[s]
    <3>1. CASE GroupCount % 2 = 1
      <4>1. w = b \o <<Pulse(a, st), Pad>>
        BY <3>1 DEF WithPulse
      <4> HIDE DEF w, b
      <4>2. w \in Seq(Words)
        BY <1>1, <1>3, <4>1, TwoAppended
      <4>3. Len(w) = Len(b) + 2
        BY <1>1, <1>3, <4>1, TwoAppended
      <4>4. w[s] = b[s]
        BY <1>1, <1>3, <2>2, <4>1, TwoAppended
      <4> QED BY <4>2, <4>3, <4>4
    <3>2. CASE GroupCount % 2 # 1
      <4>1. w = [b EXCEPT ![Len(b)] = Pulse(a, st)]
        BY <3>2 DEF WithPulse
      <4>2. Len(b) \in 1 .. Len(b)
        BY <2>2
      <4> HIDE DEF w, b
      <4> QED BY <1>1, <1>3, <2>2, <4>1, <4>2, Replaced
    <3> QED BY <3>1, <3>2
  <2> HIDE DEF w
  <2>5. [w[s] EXCEPT !.count = GroupCount + 1] \in Words
        /\ [w[s] EXCEPT !.count = GroupCount + 1].kind = "group"
    BY <2>2, <2>3, <2>4, GroupWord
  <2>6. b' = [w EXCEPT ![s] = [w[s] EXCEPT !.count = GroupCount + 1]] /\ s \in 1 .. Len(w)
    BY <2>1, <2>2, <2>4
  <2>7. b' \in Seq(Words) /\ Len(b') = Len(w) /\ b'[s].kind = "group"
    BY <2>4, <2>5, <2>6, Replaced
  <2>8. Len(b') % 2 = 0
    <3>1. Len(b) \in Nat /\ Len(w) % 2 = 0
      <4>1. Len(b) \in Nat /\ Len(b) % 2 = 0 /\ (Len(w) = Len(b) \/ Len(w) = Len(b) + 2)
        BY <1>1, <2>4
      <4>2. (Len(b) + 2) % 2 = 0
        BY <4>1, Parity
      <4> HIDE DEF w, b
      <4> QED BY <4>1, <4>2
    <3> QED BY <2>7, <3>1
  <2>9. s % 2 = 1 /\ s \in 0 .. Len(b')
    <3>1. s % 2 = 1
      BY <2>1 DEF TypeOK
    <3>2. s \in 0 .. Len(b')
      BY <2>6, <2>7
    <3> QED BY <3>1, <3>2
  <2>10. last_playback_reltime' \in Nat /\ s' = s
    BY <1>1, <2>1
  <2> HIDE DEF b, s
  <2> QED BY <2>7, <2>8, <2>9, <2>10
<1>5. CASE ~Continues(t)
  <2> DEFINE c == b \o Overflow(t)
  <2>1. /\ b' = c \o <<Group(1, Shifted(t)), Pulse(a, st)>>
        /\ s' = Len(c) + 1 /\ last_playback_reltime' = Shifted(t)
    BY <1>5 DEF addPlaybackPulse, startGroup
  <2>2. Shifted(t) \in Nat
    BY <1>1 DEF Shifted
  <2>3. c \in Seq(Words) /\ Len(c) % 2 = 0
    <3>1. Overflow(t) \in Seq(Words) /\ Len(Overflow(t)) \in {0, 2}
      BY <1>1, OverflowTypes
    <3>2. c \in Seq(Words) /\ Len(b) \in Nat
      BY <1>1, <3>1
    <3>3. Len(c) = Len(b) + Len(Overflow(t))
      BY <1>1, <3>1, Appended
    <3> HIDE DEF b, c
    <3>4. Len(c) = Len(b) \/ Len(c) = Len(b) + 2
      BY <3>1, <3>2, <3>3, EitherLength
    <3> QED BY <1>1, <3>2, <3>4, Parity
  <2>4. Group(1, Shifted(t)) \in Words /\ Group(1, Shifted(t)).kind = "group"
    BY <2>2, WordTypes DEF Group
  <2> HIDE DEF c
  <2>5. b' \in Seq(Words) /\ Len(c) \in Nat
    BY <1>3, <2>1, <2>3, <2>4, TwoAppended
  <2>6. Len(b') = Len(c) + 2
    BY <1>3, <2>1, <2>3, <2>4, TwoAppended
  <2>7. b'[Len(c) + 1] = Group(1, Shifted(t))
    BY <1>3, <2>1, <2>3, <2>4, TwoAppended
  <2> QED BY <2>1, <2>2, <2>3, <2>4, <2>5, <2>6, <2>7, Parity
<1> QED BY <1>4, <1>5

LEMMA SettingTypes ==
  ASSUME TypeOK, NEW g \in Gaps,
         \/ addPlaybackConfig(time + g) \/ sendPlaybackConfig(time + g)
         \/ addPlaybackFPGAConfig(time + g)
  PROVE  TypeOK'
<1> USE SpikeAssumption
<1> DEFINE t == time + g
           b == playback_entry_buffer
<1>1. /\ t \in Nat /\ time' = t /\ calls' \in 0 .. MaxCalls
      /\ b \in Seq(Words) /\ Len(b) % 2 = 0 /\ program \in Seq(Words) /\ last_playback_reltime \in Nat
      /\ UNCHANGED <<phase, replacing, playVars, traceVars, readVars, last_group_start_in_buffer>>
  BY DEF TypeOK, addPlaybackConfig, sendPlaybackConfig, addPlaybackFPGAConfig, AddSetting, Call
<1>2. ConfigEntry(t) \in Seq(Words) /\ Len(ConfigEntry(t)) = 4
  <2>1. t % Period \in 0 .. Period - 1
    BY <1>1
  <2> QED BY <2>1 DEF ConfigEntry, Config, Payload, Pad, Words
<1>3. Overflow(t) \in Seq(Words) /\ Len(Overflow(t)) \in {0, 2}
  BY <1>1, OverflowTypes
<1>4. \/ b' = b \/ b' = b \o ConfigEntry(t) \/ b' = b \o Overflow(t) \o ConfigEntry(t)
  BY DEF addPlaybackConfig, sendPlaybackConfig, addPlaybackFPGAConfig
<1>5. program' \in Seq(Words)
  <2>1. program' = program \/ program' = program \o ConfigEntry(t)
    BY DEF addPlaybackConfig, sendPlaybackConfig, addPlaybackFPGAConfig
  <2> QED BY <1>1, <1>2, <2>1, Appended
<1>6. last_playback_reltime' \in Nat
  BY <1>1 DEF addPlaybackConfig, sendPlaybackConfig, addPlaybackFPGAConfig
<1>7. b' \in Seq(Words) /\ Len(b') % 2 = 0 /\ Len(b') >= Len(b) /\ Len(b) \in Nat
      /\ \A i \in 1 .. Len(b) : b'[i] = b[i]
  <2> DEFINE o == b \o Overflow(t)
  <2>1. o \in Seq(Words) /\ Len(o) \in {Len(b), Len(b) + 2} /\ Len(b) \in Nat
        /\ \A i \in 1 .. Len(b) : o[i] = b[i]
    <3>1. Len(o) = Len(b) + Len(Overflow(t))
      BY <1>1, <1>3, Appended
    <3>2. Len(b) \in Nat /\ o \in Seq(Words)
      BY <1>1, <1>3
    <3>3. \A i \in 1 .. Len(b) : o[i] = b[i]
      BY <1>1, <1>3
    <3>4. Len(o) = Len(b) \/ Len(o) = Len(b) + 2
      BY <1>3, <3>1, <3>2, EitherLength
    <3> QED BY <3>2, <3>3, <3>4
  <2>2. CASE b' = b
    BY <1>1, <2>1, <2>2
  <2>3. ASSUME NEW c \in Seq(Words), Len(c) \in {Len(b), Len(b) + 2}, b' = c \o ConfigEntry(t),
               \A i \in 1 .. Len(b) : c[i] = b[i]
        PROVE  b' \in Seq(Words) /\ Len(b') % 2 = 0 /\ Len(b') >= Len(b) /\ Len(b) \in Nat
               /\ \A i \in 1 .. Len(b) : b'[i] = b[i]
    <3>1. Len(b') = Len(c) + Len(ConfigEntry(t))
      BY <1>2, <2>3, Appended
    <3>2. b' \in Seq(Words) /\ Len(b) \in Nat /\ Len(c) \in Nat
      BY <1>1, <1>2, <2>3
    <3>3. \A i \in 1 .. Len(b) : b'[i] = b[i]
      <4> TAKE i \in 1 .. Len(b)
      <4>1. i \in 1 .. Len(c)
        BY <2>3, <3>2
      <4> QED BY <1>2, <2>3, <4>1
    <3>4. Len(b') = Len(c) + 4
      BY <1>2, <3>1
    <3>5. Len(c) % 2 = 0 /\ Len(c) >= Len(b)
      <4>1. CASE Len(c) = Len(b)
        BY <1>1, <3>2, <4>1
      <4>2. CASE Len(c) = Len(b) + 2
        BY <1>1, <3>2, <4>2, Parity
      <4> QED BY <2>3, <4>1, <4>2
    <3>6. Len(b') % 2 = 0 /\ Len(b') >= Len(b)
      BY <3>2, <3>4, <3>5, Parity
    <3> QED BY <3>2, <3>3, <3>6
  <2>4. CASE b' = b \o ConfigEntry(t)
    BY <1>1, <2>3, <2>4
  <2>5. CASE b' = o \o ConfigEntry(t)
    BY <2>1, <2>3, <2>5
  <2> QED BY <1>4, <2>2, <2>4, <2>5
<1>8. last_group_start_in_buffer \in 0 .. Len(b)
      /\ (last_group_start_in_buffer > 0 =>
           last_group_start_in_buffer % 2 = 1 /\ b[last_group_start_in_buffer].kind = "group")
  BY DEF TypeOK
<1>9. last_group_start_in_buffer' \in 0 .. Len(b')
      /\ (last_group_start_in_buffer' > 0 =>
           last_group_start_in_buffer' % 2 = 1 /\ b'[last_group_start_in_buffer'].kind = "group")
  <2> DEFINE s == last_group_start_in_buffer
  <2>1. s' = s
    BY <1>1
  <2>2. s \in 0 .. Len(b')
    <3>1. Len(b) \in Nat /\ Len(b') \in Nat /\ Len(b') >= Len(b)
      BY <1>7
    <3> QED BY <1>8, <3>1
  <2>3. ASSUME s > 0 PROVE s % 2 = 1 /\ b'[s].kind = "group"
    <3>1. s \in 1 .. Len(b)
      BY <1>7, <1>8, <2>3
    <3>2. b'[s] = b[s]
      BY <1>7, <3>1
    <3> QED BY <1>8, <2>3, <3>2
  <2> QED BY <2>1, <2>2, <2>3
<1> HIDE DEF b, t
<1>10. playback_entry_buffer' \in Seq(Words) /\ Len(playback_entry_buffer') % 2 = 0
  BY <1>7 DEF b
<1> QED
  BY <1>1, <1>5, <1>6, <1>9, <1>10 DEF TypeOK, playVars, traceVars, readVars, b, t

LEMMA PlayTypes == ASSUME TypeOK, FPGA PROVE TypeOK'
<1> USE SpikeAssumption
<1>1. ASSUME pos' \in Nat \ {0}, left' \in 0 .. MaxGroup, ready' \in Nat, overflows' \in Nat,
             UNCHANGED <<hostVars, program, phase, replacing, readVars>>
      PROVE  TypeOK'
  BY <1>1 DEF TypeOK, hostVars, readVars
<1>2. ASSUME NEW kind, Playing(kind)
      PROVE  /\ pos \in 1 .. Len(program) /\ program[pos] \in Words /\ program[pos].kind = kind
             /\ UNCHANGED <<hostVars, program, phase, replacing, readVars, overflows>>
             /\ ready \in Nat /\ left = 0
  BY <1>2 DEF Playing, TypeOK, traceVars
<1>3. ASSUME NEW c \in Nat PROVE Release(c) \in Nat
  <2>1. ready \in Nat /\ (c - ready) % Period \in 0 .. Period - 1
    BY DEF TypeOK
  <2> QED BY <2>1 DEF Release
<1>4. CASE PlayWait
  <2>0. program[pos] \in Words /\ program[pos].kind = "wait" /\ ready \in Nat
    BY <1>2, <1>4 DEF PlayWait
  <2>1. program[pos] \in [kind : {"wait"}, count : 0 .. MaxWait]
    BY <2>0 DEF Words
  <2>2. ready \in Nat /\ Epoch(ready) \in Nat /\ program[pos].count \in Nat
    BY <2>0, <2>1, EpochNat
  <2>3. (Epoch(ready) + program[pos].count) * Period \in Nat
    BY <2>2
  <2>4. ready' \in Nat /\ pos' = pos + 2 /\ left' = left
    BY <1>4, <2>2, <2>3 DEF PlayWait
  <2> QED BY <1>1, <1>2, <1>4, <2>4 DEF TypeOK, PlayWait
<1>5. CASE PlayConfig
  <2>1. program[pos] \in [kind : {"config"}, time : 0 .. Period - 1]
    BY <1>2, <1>5 DEF PlayConfig, Words
  <2>2. Release(program[pos].time) \in Nat
    BY <1>3, <2>1
  <2>3. ready' \in Nat /\ pos' = pos + 4 /\ left' = left
    BY <1>5, <2>2 DEF PlayConfig
  <2> QED BY <1>1, <1>2, <1>5, <2>3 DEF TypeOK, PlayConfig
<1>6. CASE PlayGroup
  <2>1. program[pos] \in Words /\ program[pos].kind = "group"
    BY <1>2, <1>6 DEF PlayGroup
  <2>2. program[pos].count \in 1 .. MaxGroup /\ program[pos].time \in Nat
    BY <2>1, GroupWord
  <2>3. ready' \in Nat /\ pos' = pos + 1 /\ left' \in 0 .. MaxGroup
    BY <1>3, <1>6, <2>2 DEF PlayGroup
  <2> QED BY <1>1, <1>2, <1>6, <2>3 DEF TypeOK, PlayGroup
<1>7. CASE PlayPulse
  <2>1. left \in 1 .. MaxGroup /\ pos \in Nat \ {0} /\ ready \in Nat
    BY <1>7 DEF PlayPulse, TypeOK
  <2>2. left' = left - 1 /\ ready' \in Nat /\ pos' \in Nat \ {0}
    <3>1. /\ left' = left - 1
          /\ ready' = ready + Latency \/ ready' = ready + 1
          /\ pos' = pos + 1 + (pos % 2) \/ pos' = pos + 1
      BY <1>7 DEF PlayPulse
    <3>2. pos % 2 \in 0 .. 1
      BY <2>1
    <3> QED BY <2>1, <3>1, <3>2
  <2> QED BY <1>1, <1>7, <2>1, <2>2 DEF TypeOK, PlayPulse
<1>8. CASE RecordOverflow
  BY <1>1, <1>8 DEF TypeOK, RecordOverflow, playVars
<1> QED BY <1>4, <1>5, <1>6, <1>7, <1>8 DEF FPGA

\* The buffers hold 64-bit entries of two words each, the count of a group never
\* exceeds MaxGroup, and the word that is patched is a group's first
\* (host_al_controller.cpp:464-550).
THEOREM TypeCorrect == Spec => []TypeOK
<1> USE SpikeAssumption
<1>1. Init => TypeOK
  BY DEF Init, TypeOK
<1>2. TypeOK /\ [Next]_vars => TypeOK'
  <2> SUFFICES ASSUME TypeOK, [Next]_vars PROVE TypeOK'
    OBVIOUS
  <2>1. ASSUME NEW g \in Gaps, NEW a \in Ids, NEW st \in Nat, addPlaybackPulse(time + g, st, a) PROVE TypeOK'
    BY <2>1, PulseTypes
  <2>2. ASSUME NEW g \in Gaps,
               \/ addPlaybackConfig(time + g) \/ sendPlaybackConfig(time + g)
               \/ addPlaybackFPGAConfig(time + g)
        PROVE  TypeOK'
    BY <2>2, SettingTypes
  <2>3. CASE flushPlaybackPulses
    BY <2>3 DEF flushPlaybackPulses, TypeOK, playVars, traceVars, readVars
  <2>4. CASE startPlaybackTrace
    BY <2>4 DEF startPlaybackTrace, TypeOK, playVars, traceVars, readVars
  <2>5. CASE startTraceRead
    BY <2>5 DEF startTraceRead, TypeOK, hostVars, playVars, traceVars
  <2>6. CASE fill_receive_buffer
    BY <2>6 DEF fill_receive_buffer, TypeOK, hostVars, playVars
  <2>7. CASE FPGA
    BY <2>7, PlayTypes
  <2>8. CASE UNCHANGED vars
    BY <2>8 DEF TypeOK, vars, hostVars, playVars, traceVars, readVars
  <2>9. CASE Host
    <3>1. time \in Nat
      BY DEF TypeOK
    <3> QED BY <2>1, <2>2, <2>3, <2>4, <2>5, <2>6, <2>9, <3>1, HostCalls
  <2> QED BY <2>7, <2>8, <2>9 DEF Next
<1> QED BY <1>1, <1>2, PTL DEF Spec

-----------------------------------------------------------------------------
(* Times.                                                                  *)

LEMMA Times ==
  ASSUME NEW a \in Int, NEW N \in Nat \ {0}
  PROVE  (a >= 1 => a * N >= N) /\ (a <= -1 => a * N <= -N)
  BY Z3

LEMMA DivMod ==
  ASSUME NEW x \in Int, NEW N \in Nat \ {0}
  PROVE  x \div N \in Int /\ x = (x \div N) * N + (x % N) /\ x % N \in 0 .. N - 1
  BY Z3

LEMMA DivModAre ==
  ASSUME NEW x \in Int, NEW N \in Nat \ {0}, NEW q \in Int, NEW r \in 0 .. N - 1, x = q * N + r
  PROVE  x \div N = q /\ x % N = r
<1> DEFINE d == x \div N
           m == x % N
<1>1. d \in Int /\ x = d * N + m /\ m \in 0 .. N - 1
  BY DivMod
<1> HIDE DEF d, m
<1>2. (q - d) * N = m - r
  BY <1>1
<1>3. q - d >= 1 \/ q - d <= -1 \/ q - d = 0
  BY <1>1
<1>4. q - d = 0
  <2>1. CASE q - d # 0
    BY <1>1, <1>2, <1>3, <2>1, Times
  <2> QED BY <1>1, <1>3, <2>1
<1> QED BY <1>1, <1>2, <1>4 DEF d, m

LEMMA PeriodFacts == Period \in Nat \ {0} /\ Latency \in Nat /\ MinDistance \in Nat
BY SpikeAssumption

LEMMA EpochOf ==
  ASSUME NEW t \in Nat
  PROVE  Epoch(t) \in Nat /\ t = Epoch(t) * Period + (t % Period) /\ t % Period \in 0 .. Period - 1
<1>1. t \div Period \in Int /\ t = (t \div Period) * Period + (t % Period) /\ t % Period \in 0 .. Period - 1
  BY PeriodFacts, DivMod
<1> QED BY <1>1, EpochNat DEF Epoch

LEMMA EpochIs ==
  ASSUME NEW t \in Nat, NEW q \in Nat, NEW d \in 0 .. Period - 1, t = q * Period + d
  PROVE  Epoch(t) = q /\ t % Period = d
BY PeriodFacts, DivModAre DEF Epoch

LEMMA EpochRange ==
  ASSUME NEW t \in Nat
  PROVE  /\ Epoch(t) \in Nat /\ Epoch(t) * Period \in Nat
         /\ Epoch(t) * Period <= t /\ t < Epoch(t) * Period + Period
<1> DEFINE e == Epoch(t)
           m == t % Period
           z == e * Period
<1>1. e \in Nat /\ m \in 0 .. Period - 1 /\ t = z + m
  BY EpochOf
<1>2. z \in Nat
  BY <1>1, PeriodFacts
<1> HIDE DEF e, m, z
<1>3. e \in Nat /\ z \in Nat /\ z <= t /\ t < z + Period
  BY <1>1, <1>2, PeriodFacts
<1> QED BY <1>3 DEF e, z

LEMMA EpochMono ==
  ASSUME NEW s \in Nat, NEW t \in Nat, s <= t
  PROVE  Epoch(s) <= Epoch(t)
<1> DEFINE P == Period
           d == Epoch(s)
           e == Epoch(t)
<1>1. d \in Nat /\ e \in Nat /\ P \in Nat \ {0} /\ s < d * P + P /\ s >= d * P /\ t < e * P + P /\ t >= e * P
      /\ e * P \in Nat /\ d * P \in Nat
  BY EpochRange, PeriodFacts
<1> HIDE DEF P, d, e
<1>2. CASE d > e
  <2>1. d - e \in Int /\ d - e >= 1 /\ (d - e) * P >= P
    BY <1>1, <1>2, Times
  <2>2. (d - e) * P = d * P - e * P
    BY <1>1
  <2> QED BY <1>1, <2>1, <2>2
<1> QED BY <1>1, <1>2 DEF d, e

\* Times of one epoch are less than a period apart.
LEMMA EpochNear ==
  ASSUME NEW s \in Nat, NEW t \in Nat, Epoch(s) = Epoch(t)
  PROVE  t < s + Period
<1>1. s = Epoch(s) * Period + (s % Period) /\ s % Period \in 0 .. Period - 1 /\ Epoch(s) \in Nat
  BY EpochOf
<1>2. t = Epoch(t) * Period + (t % Period) /\ t % Period \in 0 .. Period - 1
  BY EpochOf
<1>3. Epoch(s) * Period \in Nat
  BY <1>1, PeriodFacts
<1> QED BY <1>1, <1>2, <1>3, PeriodFacts

\* A clock that lags by less than a period has passed at most one more overflow.
LEMMA EpochLater ==
  ASSUME NEW t \in Nat, NEW k \in 0 .. Period - 1
  PROVE  Epoch(t + k) = Epoch(t) + (IF t % Period > Period - k - 1 THEN 1 ELSE 0)
<1> DEFINE P == Period
           e == Epoch(t)
           m == t % P
<1>1. e \in Nat /\ m \in 0 .. P - 1 /\ t = e * P + m /\ P \in Nat \ {0}
  BY EpochOf, PeriodFacts
<1>2. CASE m > P - k - 1
  <2>1. (e + 1) * P = e * P + P /\ e * P \in Nat
    BY <1>1
  <2>2. t + k \in Nat /\ e + 1 \in Nat /\ m + k - P \in 0 .. P - 1 /\ t + k = (e + 1) * P + (m + k - P)
    BY <1>1, <1>2, <2>1
  <2>3. Epoch(t + k) = e + 1
    BY <2>2, EpochIs
  <2> QED BY <1>2, <2>3
<1>3. CASE ~(m > P - k - 1)
  <2>1. t + k \in Nat /\ m + k \in 0 .. P - 1 /\ t + k = e * P + (m + k)
    BY <1>1, <1>3
  <2>2. Epoch(t + k) = e
    BY <1>1, <2>1, EpochIs
  <2>3. Epoch(t) = e /\ t % Period = m
    OBVIOUS
  <2> QED BY <1>1, <1>3, <2>2, <2>3
<1> QED BY <1>2, <1>3

\* Release, from r on.
From(r, c) == r + ((c - r) % Period)

LEMMA FromIs ==
  ASSUME NEW r \in Nat, NEW t \in Nat, r <= t, t < r + Period
  PROVE  From(r, t % Period) = t
<1> DEFINE P == Period
           e == t \div P
           m == t % P
<1>1. P \in Nat \ {0} /\ e \in Int /\ m \in 0 .. P - 1 /\ t = e * P + m
  BY PeriodFacts, DivMod
<1> HIDE DEF e, m
<1>2. m - r \in Int /\ -e \in Int /\ t - r \in 0 .. P - 1 /\ m - r = (-e) * P + (t - r)
  <2>1. (-e) * P = -(e * P) /\ e * P \in Int
    BY <1>1
  <2> HIDE DEF P
  <2> QED BY <1>1, <2>1 DEF P
<1>3. (m - r) % P = t - r
  BY <1>1, <1>2, DivModAre
<1> QED BY <1>1, <1>3 DEF From, m

LEMMA FromType == ASSUME NEW r \in Nat, NEW c \in Int PROVE From(r, c) \in Nat /\ From(r, c) >= r
<1>1. (c - r) % Period \in 0 .. Period - 1
  BY PeriodFacts, DivMod
<1> QED BY <1>1 DEF From

LEMMA EpochsApart ==
  ASSUME NEW r \in Nat, NEW t \in Nat, NEW k \in Nat, t <= r + k * Period
  PROVE  Epoch(t) <= Epoch(r) + k
<1> DEFINE P == Period
           e == Epoch(r)
           m == r % P
<1>1. e \in Nat /\ m \in 0 .. P - 1 /\ r = e * P + m /\ P \in Nat \ {0}
  BY EpochOf, PeriodFacts
<1>2. r + k * P \in Nat /\ e + k \in Nat /\ r + k * P = (e + k) * P + m
  <2>1. (e + k) * P = e * P + k * P /\ e * P \in Nat /\ k * P \in Nat
    BY <1>1, Z3
  <2>2. r + k * P \in Nat /\ e + k \in Nat
    BY <1>1, <2>1
  <2> HIDE DEF P, e, m
  <2> QED BY <1>1, <2>1, <2>2
<1>3. Epoch(r + k * P) = e + k
  BY <1>1, <1>2, EpochIs
<1> QED BY <1>2, <1>3, EpochMono

-----------------------------------------------------------------------------
(* A plan of words w for requests q: the places E where entries start, when *)
(* the playing unit is ready there, R, and how much it has released, D.     *)

\* Where the entry after the one at p starts.
Closes(w, p) ==
  CASE w[p].kind = "wait"   -> p + 2
    [] w[p].kind = "config" -> p + 4
    [] w[p].kind = "group"  -> p + 1 + w[p].count + ((p + w[p].count) % 2)

WaitPlan(R, D, w, p) ==
  /\ D[p + 2] = D[p]
  /\ R[p + 2] = IF w[p].count = 0 THEN R[p] ELSE (Epoch(R[p]) + w[p].count) * Period

ConfigPlan(R, D, w, q, p) ==
  /\ D[p + 4] = D[p] + 1
  /\ R[p + 4] = From(R[p], w[p].time) + Latency
  /\ q[D[p] + 1].id = Setting
  /\ q[D[p] + 1].release = From(R[p], w[p].time)

\* The word w is the pulse asked for by x.
Carries(w, x) == w.kind = "pulse" /\ w.id = x.id /\ w.time = x.stamp % (2 * Period)

GroupPlan(R, D, w, q, p) ==
  /\ D[Closes(w, p)] = D[p] + w[p].count
  /\ R[Closes(w, p)] = From(R[p], w[p].time) + w[p].count - 1 + Latency
  /\ \A j \in 1 .. w[p].count :
       /\ Carries(w[p + j], q[D[p] + j])
       /\ q[D[p] + j].release = From(R[p], w[p].time) + j - 1

EntryPlan(R, D, w, q, p) ==
  /\ w[p].kind \in {"wait", "config", "group"}
  /\ w[p].kind = "wait" => WaitPlan(R, D, w, p)
  /\ w[p].kind = "config" => ConfigPlan(R, D, w, q, p)
  /\ w[p].kind = "group" => GroupPlan(R, D, w, q, p)

Planned(E, R, D, w, q) ==
  /\ E \in SUBSET (1 .. Len(w) + 1) /\ 1 \in E /\ Len(w) + 1 \in E
  /\ R \in [Nat -> Nat] /\ D \in [Nat -> Nat]
  /\ R[1] = 0 /\ D[1] = 0 /\ D[Len(w) + 1] = Len(q)
  /\ \A p \in E : D[p] <= Len(q)
  /\ \A p \in E : p <= Len(w) => EntryPlan(R, D, w, q, p) /\ Closes(w, p) \in E

\* The group at g is the last entry.
LastGroup(E, w, g) ==
  /\ g \in E /\ g <= Len(w) /\ g % 2 = 1 /\ w[g].kind = "group"
  /\ Closes(w, g) = Len(w) + 1
  /\ \A p \in E : p <= Len(w) /\ p # g => p < g /\ Closes(w, p) <= g

\* The unit is through with w at r; the last entry is the group at g, unless g is 0.
Reaches(w, q, r, g) ==
  \E E, R, D : /\ Planned(E, R, D, w, q) /\ R[Len(w) + 1] = r
               /\ g # 0 => LastGroup(E, w, g)

Extends(q2, q) == Len(q) <= Len(q2) /\ \A i \in 1 .. Len(q) : q2[i] = q[i]

LEMMA KindFacts ==
  ASSUME NEW w \in Words
  PROVE  /\ w.kind = "wait" => w.count \in Nat /\ w.count <= MaxWait
         /\ w.kind = "config" => w.time \in Nat
         /\ w.kind = "group" => w.count \in Nat /\ w.count >= 1 /\ w.count <= MaxGroup /\ w.time \in Nat
<1> USE SpikeAssumption
<1>1. ASSUME w.kind = "wait" PROVE w.count \in 0 .. MaxWait
  BY <1>1 DEF Words
<1>2. ASSUME w.kind = "config" PROVE w.time \in 0 .. Period - 1
  BY <1>2 DEF Words
<1> QED BY <1>1, <1>2, GroupWord

LEMMA ClosesType ==
  ASSUME NEW w \in Seq(Words), NEW p \in 1 .. Len(w), w[p].kind \in {"wait", "config", "group"}
  PROVE  /\ Closes(w, p) \in Nat /\ Closes(w, p) > p
         /\ w[p].kind = "wait" => Closes(w, p) = p + 2
         /\ w[p].kind = "config" => Closes(w, p) = p + 4
         /\ w[p].kind = "group" =>
              /\ Closes(w, p) = p + 1 + w[p].count + ((p + w[p].count) % 2)
              /\ w[p].count \in Nat /\ w[p].count >= 1
              /\ Closes(w, p) > p + w[p].count
<1>0. w[p] \in Words /\ p \in Nat
  OBVIOUS
<1>1. CASE w[p].kind = "wait"
  BY <1>0, <1>1 DEF Closes
<1>2. CASE w[p].kind = "config"
  BY <1>0, <1>2 DEF Closes
<1>3. CASE w[p].kind = "group"
  <2>1. w[p].count \in Nat /\ w[p].count >= 1
    BY <1>0, <1>3, KindFacts
  <2>2. Closes(w, p) = p + 1 + w[p].count + ((p + w[p].count) % 2)
    BY <1>3 DEF Closes
  <2>3. (p + w[p].count) % 2 \in 0 .. 1
    BY <1>0, <2>1
  <2> HIDE DEF Closes
  <2> QED BY <1>0, <1>3, <2>1, <2>2, <2>3
<1> QED BY <1>1, <1>2, <1>3

LEMMA ElementOf ==
  ASSUME NEW S, NEW s \in Seq(S)
  PROVE  Len(s) \in Nat /\ \A i \in 1 .. Len(s) : s[i] \in S
OBVIOUS

SameWords(w2, w, m) == m <= Len(w) /\ m <= Len(w2) /\ \A i \in 1 .. m : w2[i] = w[i]
SamePlan(R2, R, m) == \A i \in 1 .. m + 1 : R2[i] = R[i]

\* An entry keeps its plan if nothing up to its end changes.
LEMMA EntryKept ==
  ASSUME NEW w \in Seq(Words), NEW w2, NEW q \in Seq(Request), NEW q2,
         NEW R, NEW D \in [Nat -> Nat], NEW R2, NEW D2,
         NEW m \in Nat, SameWords(w2, w, m), SamePlan(R2, R, m), SamePlan(D2, D, m), Extends(q2, q),
         NEW p \in 1 .. m, EntryPlan(R, D, w, q, p), Closes(w, p) <= m + 1, D[Closes(w, p)] <= Len(q)
  PROVE  EntryPlan(R2, D2, w2, q2, p) /\ Closes(w2, p) = Closes(w, p)
<1> DEFINE c == Closes(w, p)
<1>1. p \in Nat /\ p \in 1 .. m + 1 /\ p <= m
  OBVIOUS
<1>2. Len(w) \in Nat /\ Len(q) \in Nat
  BY ElementOf
<1>3. p \in 1 .. Len(w)
  BY <1>1, <1>2 DEF SameWords
<1>4. w2[p] = w[p] /\ R2[p] = R[p] /\ D2[p] = D[p]
  BY <1>1 DEF SameWords, SamePlan
<1>5. w[p] \in Words /\ D[p] \in Nat
  BY <1>1, <1>3, ElementOf
<1>6. Closes(w2, p) = c
  BY <1>4 DEF Closes
<1>7. w[p].kind \in {"wait", "config", "group"}
  BY DEF EntryPlan
<1>8. c \in 1 .. m + 1 /\ c \in Nat
  <2>1. Closes(w, p) \in Nat /\ Closes(w, p) > p
    BY <1>3, <1>7, ClosesType
  <2> QED BY <1>1, <2>1
<1>9. R2[c] = R[c] /\ D2[c] = D[c]
  BY <1>8 DEF SamePlan
<1>10. CASE w[p].kind = "wait"
  <2>1. c = p + 2
    BY <1>3, <1>7, <1>10, ClosesType
  <2>2. WaitPlan(R, D, w, p)
    BY <1>10 DEF EntryPlan
  <2> HIDE DEF c
  <2>3. WaitPlan(R2, D2, w2, p)
    BY <1>4, <1>9, <2>1, <2>2 DEF WaitPlan
  <2> QED BY <1>4, <1>6, <1>10, <2>3 DEF EntryPlan, c
<1>11. CASE w[p].kind = "config"
  <2>1. c = p + 4
    BY <1>3, <1>7, <1>11, ClosesType
  <2>2. ConfigPlan(R, D, w, q, p)
    BY <1>11 DEF EntryPlan
  <2>3. D[c] <= Len(q)
    OBVIOUS
  <2> HIDE DEF c
  <2>4. D[p] + 1 \in 1 .. Len(q)
    BY <1>2, <1>5, <2>1, <2>2, <2>3 DEF ConfigPlan
  <2>5. q2[D[p] + 1] = q[D[p] + 1]
    BY <2>4 DEF Extends
  <2>6. ConfigPlan(R2, D2, w2, q2, p)
    BY <1>4, <1>9, <2>1, <2>2, <2>5 DEF ConfigPlan
  <2> QED BY <1>4, <1>6, <1>11, <2>6 DEF EntryPlan, c
<1>12. CASE w[p].kind = "group"
  <2> DEFINE n == w[p].count
             f == From(R[p], w[p].time)
             d == D[p]
  <2>1. c > p + n /\ n \in Nat
    BY <1>3, <1>7, <1>12, ClosesType
  <2>2. GroupPlan(R, D, w, q, p)
    BY <1>12 DEF EntryPlan
  <2>3. D[c] = d + n /\ R[c] = f + n - 1 + Latency /\ D[c] <= Len(q)
    BY <2>2 DEF GroupPlan
  <2>4. ASSUME NEW j \in 1 .. n
        PROVE Carries(w[p + j], q[d + j]) /\ q[d + j].release = f + j - 1
    BY <2>2, <2>4 DEF GroupPlan
  <2>5. d \in Nat
    BY <1>5
  <2> HIDE DEF c, n, f, d
  <2>6. ASSUME NEW j \in 1 .. n PROVE w2[p + j] = w[p + j] /\ q2[d + j] = q[d + j]
    <3>1. p + j \in 1 .. m
      BY <1>1, <1>8, <2>1
    <3>2. d + j \in 1 .. Len(q)
      BY <1>2, <2>1, <2>3, <2>5
    <3> QED BY <3>1, <3>2 DEF Extends, SameWords
  <2>7. D2[c] = d + n /\ R2[c] = f + n - 1 + Latency
    BY <1>9, <2>3
  <2>8. \A j \in 1 .. n :
          Carries(w2[p + j], q2[d + j]) /\ q2[d + j].release = f + j - 1
    BY <2>4, <2>6
  <2>9. D2[p] = d /\ w2[p].count = n /\ From(R2[p], w2[p].time) = f /\ Closes(w2, p) = c
    BY <1>4, <1>6 DEF d, n, f
  <2>10. GroupPlan(R2, D2, w2, q2, p)
    BY <2>7, <2>8, <2>9 DEF GroupPlan
  <2> QED BY <1>4, <1>6, <1>12, <2>10 DEF EntryPlan, c
<1> QED BY <1>6, <1>7, <1>10, <1>11, <1>12

-----------------------------------------------------------------------------
(* An entry more.                                                          *)

LEMMA Joined ==
  ASSUME NEW w \in Seq(Words), NEW d \in Seq(Words)
  PROVE  /\ w \o d \in Seq(Words)
         /\ Len(w \o d) = Len(w) + Len(d)
         /\ SameWords(w \o d, w, Len(w))
         /\ \A i \in 1 .. Len(d) : (w \o d)[Len(w) + i] = d[i]
<1>1. w \o d \in Seq(Words) /\ Len(w \o d) = Len(w) + Len(d) /\ Len(w) \in Nat /\ Len(d) \in Nat
  BY Appended, ElementOf
<1>2. \A i \in 1 .. Len(w) : (w \o d)[i] = w[i]
  BY Appended
<1>3. \A i \in 1 .. Len(d) : (w \o d)[Len(w) + i] = d[i]
  BY Appended
<1> QED BY <1>1, <1>2, <1>3 DEF SameWords

\* The plan with one more place.
LEMMA Placed ==
  ASSUME NEW R \in [Nat -> Nat], NEW m \in Nat, NEW e \in Nat, e > m + 1, NEW r \in Nat
  PROVE  [R EXCEPT ![e] = r] \in [Nat -> Nat] /\ [R EXCEPT ![e] = r][e] = r
         /\ SamePlan([R EXCEPT ![e] = r], R, m)
<1>1. [R EXCEPT ![e] = r] \in [Nat -> Nat]
  OBVIOUS
<1>2. [R EXCEPT ![e] = r][e] = r
  OBVIOUS
<1>3. \A i \in 1 .. m + 1 : [R EXCEPT ![e] = r][i] = R[i]
  OBVIOUS
<1> QED BY <1>1, <1>2, <1>3 DEF SamePlan

Typed(w, q, R, D) ==
  w \in Seq(Words) /\ q \in Seq(Request) /\ R \in [Nat -> Nat] /\ D \in [Nat -> Nat]

\* The second plan is the first one and a last entry.
OneMore(w, q, R, D, w2, q2, R2, D2) ==
  /\ Len(w) < Len(w2)
  /\ SameWords(w2, w, Len(w)) /\ SamePlan(R2, R, Len(w)) /\ SamePlan(D2, D, Len(w))
  /\ Extends(q2, q)
  /\ D2[Len(w2) + 1] = Len(q2)
  /\ EntryPlan(R2, D2, w2, q2, Len(w) + 1)
  /\ Closes(w2, Len(w) + 1) = Len(w2) + 1

LEMMA EntryAdded ==
  ASSUME NEW w, NEW q, NEW E, NEW R, NEW D, Planned(E, R, D, w, q), Typed(w, q, R, D),
         NEW w2, NEW q2, NEW R2, NEW D2, Typed(w2, q2, R2, D2),
         OneMore(w, q, R, D, w2, q2, R2, D2)
  PROVE  /\ Planned(E \cup {Len(w2) + 1}, R2, D2, w2, q2)
         /\ w2[Len(w) + 1].kind = "group" /\ (Len(w) + 1) % 2 = 1 =>
              LastGroup(E \cup {Len(w2) + 1}, w2, Len(w) + 1)
<1> DEFINE l == Len(w)
           l2 == Len(w2)
           F == E \cup {l2 + 1}
<1>1. l \in Nat /\ l2 \in Nat /\ l < l2 /\ Len(q) \in Nat /\ Len(q2) \in Nat
  BY ElementOf DEF Typed, OneMore
<1>2. /\ E \in SUBSET (1 .. l + 1) /\ 1 \in E /\ l + 1 \in E
      /\ R \in [Nat -> Nat] /\ D \in [Nat -> Nat] /\ R[1] = 0 /\ D[1] = 0 /\ D[l + 1] = Len(q)
  BY DEF Planned
<1>2a. /\ SameWords(w2, w, l) /\ SamePlan(R2, R, l) /\ SamePlan(D2, D, l)
       /\ D2[l2 + 1] = Len(q2) /\ EntryPlan(R2, D2, w2, q2, l + 1) /\ Closes(w2, l + 1) = l2 + 1
       /\ l <= l /\ Extends(q2, q) /\ Typed(w, q, R, D) /\ Typed(w2, q2, R2, D2)
  BY <1>1 DEF OneMore
<1>2b. \A p \in E : p <= l => EntryPlan(R, D, w, q, p) /\ Closes(w, p) \in E
  BY DEF Planned
<1>2c. \A p \in E : D[p] <= Len(q)
  BY DEF Planned
<1> HIDE DEF l, l2
<1>3. ASSUME NEW p \in E
      PROVE  p \in 1 .. l + 1 /\ p \in Nat /\ D[p] \in Nat /\ D[p] <= Len(q) /\ R2[p] = R[p] /\ D2[p] = D[p]
  <2>1. p \in 1 .. l + 1 /\ p \in Nat
    BY <1>2
  <2>2. D[p] \in Nat /\ D[p] <= Len(q)
    BY <1>2, <1>2c, <2>1
  <2> QED BY <1>2a, <2>1, <2>2 DEF SamePlan
<1>4. Len(q) <= Len(q2)
  BY <1>2a DEF Extends
<1>5. ASSUME NEW p \in E, p <= l
      PROVE  EntryPlan(R2, D2, w2, q2, p) /\ Closes(w2, p) = Closes(w, p) /\ Closes(w, p) \in E
             /\ Closes(w2, p) <= l + 1
  <2>1. p \in 1 .. l
    BY <1>1, <1>3, <1>5
  <2>2. EntryPlan(R, D, w, q, p) /\ Closes(w, p) \in E
    BY <1>2b, <1>5
  <2>3. Closes(w, p) <= l + 1 /\ D[Closes(w, p)] <= Len(q)
    BY <1>1, <1>3, <2>2
  <2>4. EntryPlan(R2, D2, w2, q2, p) /\ Closes(w2, p) = Closes(w, p)
    BY <1>1, <1>2, <1>2a, <2>1, <2>2, <2>3, EntryKept DEF Typed
  <2> QED BY <2>2, <2>3, <2>4
<1>6. ASSUME NEW p \in F, p <= l2
      PROVE  EntryPlan(R2, D2, w2, q2, p) /\ Closes(w2, p) \in F
  <2>1. p \in E /\ p \in 1 .. l + 1
    BY <1>1, <1>3, <1>6
  <2>2. CASE p <= l
    BY <1>5, <2>1, <2>2
  <2>3. CASE p = l + 1
    BY <1>2a, <2>3
  <2> QED BY <1>1, <2>1, <2>2, <2>3
<1>7. \A p \in F : D2[p] <= Len(q2)
  <2> SUFFICES ASSUME NEW p \in F PROVE D2[p] <= Len(q2)
    OBVIOUS
  <2>1. CASE p \in E
    BY <1>1, <1>3, <1>4, <2>1
  <2>2. CASE p = l2 + 1
    BY <1>1, <1>2a, <2>2
  <2> QED BY <2>1, <2>2
<1>8. F \in SUBSET (1 .. l2 + 1) /\ 1 \in F /\ l2 + 1 \in F
  <2>1. \A p \in E : p \in 1 .. l2 + 1
    BY <1>1, <1>3
  <2>2. E \subseteq 1 .. l2 + 1 /\ l2 + 1 \in 1 .. l2 + 1
    BY <1>1, <2>1
  <2> QED BY <1>2, <2>2
<1>9. R2[1] = 0 /\ D2[1] = 0
  BY <1>2, <1>3
<1>10. Planned(F, R2, D2, w2, q2)
  BY <1>2a, <1>6, <1>7, <1>8, <1>9 DEF Planned, l2, Typed
<1>11. ASSUME w2[l + 1].kind = "group", (l + 1) % 2 = 1 PROVE LastGroup(F, w2, l + 1)
  <2>1. ASSUME NEW p \in F, p <= l2, p # l + 1 PROVE p < l + 1 /\ Closes(w2, p) <= l + 1
    <3>1. p \in E /\ p \in 1 .. l + 1 /\ p <= l
      BY <1>1, <1>3, <2>1
    <3> QED BY <1>1, <1>5, <3>1
  <2>2. l + 1 \in F /\ l + 1 <= l2
    BY <1>1, <1>2
  <2> HIDE DEF F
  <2> QED BY <1>2a, <1>11, <2>1, <2>2 DEF LastGroup, l2
<1> QED BY <1>10, <1>11 DEF l, l2

LEMMA ReachesWait ==
  ASSUME NEW w \in Seq(Words), NEW q \in Seq(Request), NEW r \in Nat, NEW n \in 0 .. MaxWait,
         Reaches(w, q, r, 0)
  PROVE  Reaches(w \o <<Wait(n), Pad>>, q, IF n = 0 THEN r ELSE (Epoch(r) + n) * Period, 0)
<1> DEFINE s == IF n = 0 THEN r ELSE (Epoch(r) + n) * Period
           d == <<Wait(n), Pad>>
           w2 == w \o d
           l == Len(w)
<1>1. s \in Nat /\ l \in Nat
  <2>1. Epoch(r) \in Nat
    BY EpochNat
  <2>2. (Epoch(r) + n) * Period \in Nat
    BY <2>1, PeriodFacts
  <2> QED BY <2>2, ElementOf
<1>2. d \in Seq(Words) /\ Len(d) = 2 /\ d[1] = Wait(n)
  BY DEF Wait, Pad, Words
<1> HIDE DEF s, d
<1>3. w2 \in Seq(Words) /\ Len(w2) = l + 2 /\ SameWords(w2, w, l) /\ w2[l + 1] = Wait(n)
  <2>1. w2 \in Seq(Words) /\ Len(w2) = l + Len(d) /\ SameWords(w2, w, l)
    BY <1>2, Joined
  <2>2. 1 \in 1 .. Len(d)
    BY <1>2
  <2>3. w2[l + 1] = d[1]
    BY <1>2, <2>2, Joined
  <2> QED BY <1>2, <2>1, <2>3
<1> HIDE DEF w2
<1>4. PICK E, R, D : Planned(E, R, D, w, q) /\ R[l + 1] = r
  BY DEF Reaches
<1>5. R \in [Nat -> Nat] /\ D \in [Nat -> Nat] /\ D[l + 1] = Len(q) /\ Len(q) \in Nat
  BY <1>4, ElementOf DEF Planned
<1> DEFINE R2 == [R EXCEPT ![l + 3] = s]
           D2 == [D EXCEPT ![l + 3] = Len(q)]
<1>6. R2 \in [Nat -> Nat] /\ R2[l + 3] = s /\ SamePlan(R2, R, l)
  <2>1. l + 3 \in Nat /\ l + 3 > l + 1
    BY <1>1
  <2> QED BY <1>1, <1>5, <2>1, Placed
<1>7. D2 \in [Nat -> Nat] /\ D2[l + 3] = Len(q) /\ SamePlan(D2, D, l)
  <2>1. l + 3 \in Nat /\ l + 3 > l + 1
    BY <1>1
  <2> DEFINE k == Len(q)
             e == l + 3
  <2>2. k \in Nat /\ l \in Nat /\ D \in [Nat -> Nat] /\ e \in Nat /\ e > l + 1
    BY <1>1, <1>5, <2>1
  <2> HIDE DEF k, e
  <2>3. [D EXCEPT ![e] = k] \in [Nat -> Nat] /\ [D EXCEPT ![e] = k][e] = k
        /\ SamePlan([D EXCEPT ![e] = k], D, l)
    BY <2>2, Placed
  <2> QED BY <2>3 DEF k, e
<1> HIDE DEF R2, D2
<1>8. R2[l + 1] = r /\ D2[l + 1] = Len(q)
  <2>1. l + 1 \in 1 .. l + 1
    BY <1>1
  <2> QED BY <1>4, <1>5, <1>6, <1>7, <2>1 DEF SamePlan
<1>9. Closes(w2, l + 1) = l + 3 /\ Len(w2) + 1 = l + 3 /\ l < Len(w2) /\ (l + 1) + 2 = l + 3
  BY <1>1, <1>3 DEF Closes, Wait
<1>10. EntryPlan(R2, D2, w2, q, l + 1)
  <2>1. w2[l + 1].kind = "wait" /\ w2[l + 1].count = n
    BY <1>3 DEF Wait
  <2>2. WaitPlan(R2, D2, w2, l + 1)
    BY <1>6, <1>7, <1>8, <1>9, <2>1 DEF WaitPlan, s
  <2> QED BY <2>1, <2>2 DEF EntryPlan
<1>11. Extends(q, q)
  BY <1>5 DEF Extends
<1>12. Planned(E \cup {Len(w2) + 1}, R2, D2, w2, q)
  <2>1. OneMore(w, q, R, D, w2, q, R2, D2)
    BY <1>3, <1>6, <1>7, <1>9, <1>10, <1>11 DEF OneMore
  <2>2. Typed(w, q, R, D) /\ Typed(w2, q, R2, D2)
    BY <1>3, <1>5, <1>6, <1>7 DEF Typed
  <2> QED BY <1>4, <2>1, <2>2, EntryAdded
<1>13. Reaches(w2, q, s, 0)
  BY <1>6, <1>9, <1>12 DEF Reaches
<1> QED BY <1>13 DEF w2, s, d

LEMMA Requested ==
  ASSUME NEW q \in Seq(Request), NEW x \in Request
  PROVE  /\ Append(q, x) \in Seq(Request) /\ Len(Append(q, x)) = Len(q) + 1
         /\ Extends(Append(q, x), q) /\ Append(q, x)[Len(q) + 1] = x
<1>1. Append(q, x) \in Seq(Request) /\ Len(Append(q, x)) = Len(q) + 1 /\ Append(q, x)[Len(q) + 1] = x
  OBVIOUS
<1>2. \A i \in 1 .. Len(q) : Append(q, x)[i] = q[i]
  OBVIOUS
<1>3. Len(q) <= Len(Append(q, x))
  BY <1>1, ElementOf
<1> QED BY <1>1, <1>2, <1>3 DEF Extends

LEMMA ReachesConfig ==
  ASSUME NEW w \in Seq(Words), NEW q \in Seq(Request), NEW r \in Nat, NEW t \in Nat,
         r <= t, t < r + Period, Reaches(w, q, r, 0)
  PROVE  Reaches(w \o ConfigEntry(t), Append(q, Asked(Setting, t, 0, t)), t + Latency, 0)
<1> DEFINE d == ConfigEntry(t)
           w2 == w \o d
           x == Asked(Setting, t, 0, t)
           q2 == Append(q, x)
           l == Len(w)
           s == t + Latency
<1>1. s \in Nat /\ l \in Nat /\ Len(q) \in Nat
  BY PeriodFacts, ElementOf
<1>2. d \in Seq(Words) /\ Len(d) = 4 /\ d[1] = Config(t)
  <2>1. t % Period \in 0 .. Period - 1
    BY EpochOf
  <2> QED BY <2>1 DEF ConfigEntry, Config, Payload, Pad, Words
<1>3. x \in Request /\ x.id = Setting /\ x.release = t
  BY DEF Asked, Request
<1> HIDE DEF d, s, x
<1>4. w2 \in Seq(Words) /\ Len(w2) = l + 4 /\ SameWords(w2, w, l) /\ w2[l + 1] = Config(t)
  <2>1. w2 \in Seq(Words) /\ Len(w2) = l + Len(d) /\ SameWords(w2, w, l)
    BY <1>2, Joined
  <2>2. 1 \in 1 .. Len(d)
    BY <1>2
  <2>3. w2[l + 1] = d[1]
    BY <1>2, <2>2, Joined
  <2> QED BY <1>2, <2>1, <2>3
<1>5. q2 \in Seq(Request) /\ Len(q2) = Len(q) + 1 /\ Extends(q2, q) /\ q2[Len(q) + 1] = x
  BY <1>3, Requested
<1> HIDE DEF w2, q2
<1>6. PICK E, R, D : Planned(E, R, D, w, q) /\ R[l + 1] = r
  BY DEF Reaches
<1>7. R \in [Nat -> Nat] /\ D \in [Nat -> Nat] /\ D[l + 1] = Len(q) /\ Len(q2) \in Nat
  BY <1>5, <1>6, ElementOf DEF Planned
<1> DEFINE R2 == [R EXCEPT ![l + 5] = s]
           D2 == [D EXCEPT ![l + 5] = Len(q2)]
<1>8. R2 \in [Nat -> Nat] /\ R2[l + 5] = s /\ SamePlan(R2, R, l)
  <2>1. l + 5 \in Nat /\ l + 5 > l + 1
    BY <1>1
  <2> QED BY <1>1, <1>7, <2>1, Placed
<1>9. D2 \in [Nat -> Nat] /\ D2[l + 5] = Len(q2) /\ SamePlan(D2, D, l)
  <2>1. l + 5 \in Nat /\ l + 5 > l + 1
    BY <1>1
  <2> QED BY <1>1, <1>7, <2>1, Placed
<1> HIDE DEF R2, D2
<1>10. R2[l + 1] = r /\ D2[l + 1] = Len(q)
  <2>1. l + 1 \in 1 .. l + 1
    BY <1>1
  <2> QED BY <1>6, <1>7, <1>8, <1>9, <2>1 DEF SamePlan
<1>11. Closes(w2, l + 1) = l + 5 /\ Len(w2) + 1 = l + 5 /\ l < Len(w2) /\ (l + 1) + 4 = l + 5
  BY <1>1, <1>4 DEF Closes, Config
<1>12. EntryPlan(R2, D2, w2, q2, l + 1)
  <2>1. w2[l + 1].kind = "config" /\ w2[l + 1].time = t % Period
    BY <1>4 DEF Config
  <2>2. From(r, t % Period) = t
    BY FromIs
  <2>3. ConfigPlan(R2, D2, w2, q2, l + 1)
    BY <1>3, <1>5, <1>8, <1>9, <1>10, <1>11, <2>1, <2>2 DEF ConfigPlan, s
  <2> QED BY <2>1, <2>3 DEF EntryPlan
<1>13. Planned(E \cup {Len(w2) + 1}, R2, D2, w2, q2)
  <2>1. OneMore(w, q, R, D, w2, q2, R2, D2)
    BY <1>4, <1>5, <1>8, <1>9, <1>11, <1>12 DEF OneMore
  <2>2. Typed(w, q, R, D) /\ Typed(w2, q2, R2, D2)
    BY <1>4, <1>5, <1>7, <1>8, <1>9 DEF Typed
  <2> QED BY <1>6, <2>1, <2>2, EntryAdded
<1>14. Reaches(w2, q2, s, 0)
  BY <1>8, <1>11, <1>13 DEF Reaches
<1> QED BY <1>14 DEF w2, s, d, q2, x

LEMMA ReachesGroup ==
  ASSUME NEW w \in Seq(Words), NEW q \in Seq(Request), NEW r \in Nat, NEW t \in Nat, NEW t0 \in Nat,
         NEW st \in Nat, NEW a \in Ids, r <= t, t < r + Period, Len(w) % 2 = 0, Reaches(w, q, r, 0)
  PROVE  Reaches(w \o <<Group(1, t), Pulse(a, st)>>, Append(q, Asked(a, t0, st, t)), t + Latency, Len(w) + 1)
<1> DEFINE d == <<Group(1, t), Pulse(a, st)>>
           w2 == w \o d
           x == Asked(a, t0, st, t)
           q2 == Append(q, x)
           l == Len(w)
           s == t + Latency
<1>1. s \in Nat /\ l \in Nat /\ Len(q) \in Nat
  BY PeriodFacts, ElementOf
<1>2. d \in Seq(Words) /\ Len(d) = 2 /\ d[1] = Group(1, t) /\ d[2] = Pulse(a, st)
  <2>1. Group(1, t) \in Words
    BY WordTypes
  <2>3. Pulse(a, st) \in Words
    BY WordTypes
  <2> QED BY <2>1, <2>3
<1>3. x \in Request /\ x.id = a /\ x.release = t /\ x.stamp = st
  BY DEF Asked, Request
<1>4. (l + 1) % 2 = 1 /\ (l + 2) % 2 = 0
  <2>1. l \in Nat /\ l % 2 = 0
    BY <1>1
  <2> HIDE DEF l
  <2> QED BY <2>1
<1> HIDE DEF d, s, x
<1>5. w2 \in Seq(Words) /\ Len(w2) = l + 2 /\ SameWords(w2, w, l)
      /\ w2[l + 1] = Group(1, t) /\ w2[l + 2] = Pulse(a, st)
  <2>1. w2 \in Seq(Words) /\ Len(w2) = l + Len(d) /\ SameWords(w2, w, l)
    BY <1>2, Joined
  <2>2. 1 \in 1 .. Len(d) /\ 2 \in 1 .. Len(d)
    BY <1>2
  <2>3. w2[l + 1] = d[1]
    BY <1>2, <2>2, Joined
  <2>4. w2[l + 2] = d[2]
    BY <1>2, <2>2, Joined
  <2> QED BY <1>2, <2>1, <2>3, <2>4
<1>6. q2 \in Seq(Request) /\ Len(q2) = Len(q) + 1 /\ Extends(q2, q) /\ q2[Len(q) + 1] = x
  BY <1>3, Requested
<1> HIDE DEF w2, q2
<1>7. PICK E, R, D : Planned(E, R, D, w, q) /\ R[l + 1] = r
  BY DEF Reaches
<1>8. R \in [Nat -> Nat] /\ D \in [Nat -> Nat] /\ D[l + 1] = Len(q) /\ Len(q2) \in Nat
  BY <1>6, <1>7, ElementOf DEF Planned
<1> DEFINE R2 == [R EXCEPT ![l + 3] = s]
           D2 == [D EXCEPT ![l + 3] = Len(q2)]
<1>9. R2 \in [Nat -> Nat] /\ R2[l + 3] = s /\ SamePlan(R2, R, l)
  <2>1. l + 3 \in Nat /\ l + 3 > l + 1
    BY <1>1
  <2> QED BY <1>1, <1>8, <2>1, Placed
<1>10. D2 \in [Nat -> Nat] /\ D2[l + 3] = Len(q2) /\ SamePlan(D2, D, l)
  <2> DEFINE k == Len(q2)
             e == l + 3
  <2>0. l + 3 \in Nat /\ l + 3 > l + 1
    BY <1>1
  <2>1. k \in Nat /\ l \in Nat /\ D \in [Nat -> Nat] /\ e \in Nat /\ e > l + 1
    BY <1>1, <1>8, <2>0
  <2> HIDE DEF k, e
  <2>2. [D EXCEPT ![e] = k] \in [Nat -> Nat] /\ [D EXCEPT ![e] = k][e] = k
        /\ SamePlan([D EXCEPT ![e] = k], D, l)
    BY <2>1, Placed
  <2> QED BY <2>2 DEF k, e
<1> HIDE DEF R2, D2
<1>11. R2[l + 1] = r /\ D2[l + 1] = Len(q)
  <2>1. l + 1 \in 1 .. l + 1
    BY <1>1
  <2> QED BY <1>7, <1>8, <1>9, <1>10, <2>1 DEF SamePlan
<1>12. Closes(w2, l + 1) = l + 3 /\ Len(w2) + 1 = l + 3 /\ l < Len(w2)
  <2>1. Closes(w2, l + 1) = (l + 1) + 1 + 1 + (((l + 1) + 1) % 2)
    BY <1>5 DEF Closes, Group
  <2> HIDE DEF l
  <2>2. (l + 1) + 1 = l + 2 /\ (l + 1) + 1 + 1 + 0 = l + 3 /\ (l + 2) + 1 = l + 3 /\ l < l + 2
    BY <1>1
  <2>3. ((l + 1) + 1) % 2 = 0
    BY <1>4, <2>2
  <2>4. Closes(w2, l + 1) = l + 3
    BY <2>1, <2>2, <2>3
  <2>5. Len(w2) + 1 = l + 3 /\ l < Len(w2)
    BY <1>5, <2>2
  <2> QED BY <2>4, <2>5
<1>13. EntryPlan(R2, D2, w2, q2, l + 1)
  <2>1. w2[l + 1].kind = "group" /\ w2[l + 1].time = t % Period /\ w2[l + 1].count = 1
    BY <1>5 DEF Group
  <2>2. From(r, t % Period) = t
    BY FromIs
  <2>3. t + 1 - 1 + Latency = s /\ t + 1 - 1 = t /\ (l + 1) + 1 = l + 2
    BY <1>1 DEF s
  <2>4. Carries(w2[l + 2], x)
    BY <1>3, <1>5 DEF Pulse, Carries
  <2>5. \A j \in 1 .. 1 : /\ Carries(w2[(l + 1) + j], q2[Len(q) + j])
                          /\ q2[Len(q) + j].release = t + j - 1
    BY <1>3, <1>6, <2>3, <2>4
  <2>6. GroupPlan(R2, D2, w2, q2, l + 1)
    <3>1. From(R2[l + 1], w2[l + 1].time) = t
      BY <1>11, <2>1, <2>2
    <3>2. D2[Closes(w2, l + 1)] = D2[l + 1] + w2[l + 1].count
      BY <1>6, <1>10, <1>11, <1>12, <2>1
    <3>3. R2[Closes(w2, l + 1)] = t + 1 - 1 + Latency
      BY <1>9, <1>12, <2>3
    <3> QED BY <1>11, <2>1, <2>5, <3>1, <3>2, <3>3 DEF GroupPlan
  <2> QED BY <2>1, <2>6 DEF EntryPlan
<1> DEFINE F == E \cup {Len(w2) + 1}
<1>14. Planned(F, R2, D2, w2, q2) /\ LastGroup(F, w2, l + 1)
  <2>1. OneMore(w, q, R, D, w2, q2, R2, D2)
    BY <1>5, <1>6, <1>9, <1>10, <1>12, <1>13 DEF OneMore
  <2>2. Typed(w, q, R, D) /\ Typed(w2, q2, R2, D2)
    BY <1>5, <1>6, <1>8, <1>9, <1>10 DEF Typed
  <2>3. w2[l + 1].kind = "group"
    BY <1>5 DEF Group
  <2> QED BY <1>4, <1>7, <2>1, <2>2, <2>3, EntryAdded
<1> HIDE DEF F
<1>15. Reaches(w2, q2, s, l + 1)
  <2>1. R2[Len(w2) + 1] = s
    BY <1>9, <1>12
  <2> QED BY <1>14, <2>1 DEF Reaches
<1> QED BY <1>15 DEF w2, s, d, q2, x

\* The group at g with a pulse more.
OnePulseMore(w2, w, g, x) ==
  LET n == w[g].count
  IN  /\ w2 \in Seq(Words)
      /\ Len(w2) = IF n % 2 = 1 THEN Len(w) + 2 ELSE Len(w)
      /\ \A i \in 1 .. g - 1 : w2[i] = w[i]
      /\ w2[g].kind = "group" /\ w2[g].count = n + 1 /\ w2[g].time = w[g].time
      /\ \A j \in 1 .. n : w2[g + j] = w[g + j]
      /\ Carries(w2[g + n + 1], x)

LEMMA Parities ==
  ASSUME NEW g \in Nat, NEW n \in Nat, g % 2 = 1
  PROVE  /\ n % 2 = 1 => (g + n) % 2 = 0 /\ (g + (n + 1)) % 2 = 1
         /\ n % 2 # 1 => (g + n) % 2 = 1 /\ (g + (n + 1)) % 2 = 0
OBVIOUS

LEMMA ReachesContinued ==
  ASSUME NEW w \in Seq(Words), NEW q \in Seq(Request), NEW r \in Nat, NEW g \in Nat \ {0},
         Reaches(w, q, r, g), NEW w2, NEW x \in Request, OnePulseMore(w2, w, g, x),
         x.release = r - Latency + 1
  PROVE  Reaches(w2, Append(q, x), r + 1, g)
<1> DEFINE q2 == Append(q, x)
           l == Len(w)
           l2 == Len(w2)
           k == Len(q)
<1>1. PICK E, R, D : Planned(E, R, D, w, q) /\ R[l + 1] = r /\ LastGroup(E, w, g)
  BY DEF Reaches
<1>2. /\ E \in SUBSET (1 .. l + 1) /\ 1 \in E /\ l + 1 \in E
      /\ R \in [Nat -> Nat] /\ D \in [Nat -> Nat] /\ R[1] = 0 /\ D[1] = 0 /\ D[l + 1] = k
      /\ \A p \in E : D[p] <= k
      /\ \A p \in E : p <= l => EntryPlan(R, D, w, q, p) /\ Closes(w, p) \in E
  BY <1>1 DEF Planned
<1>3. /\ g \in E /\ g <= l /\ g % 2 = 1 /\ w[g].kind = "group" /\ Closes(w, g) = l + 1
      /\ \A p \in E : p <= l /\ p # g => p < g /\ Closes(w, p) <= g
  BY <1>1 DEF LastGroup
<1>4. w2 \in Seq(Words) /\ l \in Nat /\ l2 \in Nat /\ k \in Nat /\ g \in Nat /\ g >= 1 /\ g \in 1 .. l
      /\ Latency \in Nat /\ r \in Nat
  <2>1. w2 \in Seq(Words)
    BY DEF OnePulseMore
  <2>2. l \in Nat /\ l2 \in Nat /\ k \in Nat
    BY <2>1, ElementOf
  <2> QED BY <1>3, <2>1, <2>2, PeriodFacts
<1>5. q2 \in Seq(Request) /\ Len(q2) = k + 1 /\ Extends(q2, q) /\ q2[k + 1] = x
  BY Requested
<1> DEFINE n == w[g].count
           f == From(R[g], w[g].time)
           d == D[g]
           c == w[g].time
           rg == R[g]
<1>6. /\ n \in Nat /\ n >= 1 /\ Closes(w, g) = g + 1 + n + ((g + n) % 2)
  BY <1>3, <1>4, ClosesType
<1>7. GroupPlan(R, D, w, q, g)
  BY <1>2, <1>3 DEF EntryPlan
<1>8. /\ D[l + 1] = d + n /\ R[l + 1] = f + n - 1 + Latency
      /\ \A j \in 1 .. n : Carries(w[g + j], q[d + j]) /\ q[d + j].release = f + j - 1
  BY <1>3, <1>7 DEF GroupPlan
<1>9. d \in Nat /\ f \in Nat
  <2>1. D[g] \in Nat /\ R[g] \in Nat
    BY <1>2, <1>4
  <2>2. w[g] \in Words
    BY <1>4, ElementOf
  <2>3. w[g].time \in Int
    BY <1>3, <2>2, KindFacts
  <2> QED BY <2>1, <2>3, FromType
<1>10. /\ l2 = IF n % 2 = 1 THEN l + 2 ELSE l
       /\ \A i \in 1 .. g - 1 : w2[i] = w[i]
       /\ w2[g].kind = "group" /\ w2[g].count = n + 1 /\ w2[g].time = c
       /\ \A j \in 1 .. n : w2[g + j] = w[g + j]
       /\ Carries(w2[g + n + 1], x)
  BY DEF OnePulseMore
<1>11. k = d + n /\ r = f + n - 1 + Latency
  BY <1>1, <1>2, <1>8
<1>12. x.release = f + (n + 1) - 1
  <2>1. x.release = r - Latency + 1
    OBVIOUS
  <2> HIDE DEF f, n
  <2> QED BY <1>4, <1>6, <1>9, <1>11, <2>1
<1> HIDE DEF q2, l, l2, k, n, f, d, c, rg
<1>13. Closes(w2, g) = g + 1 + (n + 1) + ((g + (n + 1)) % 2)
  BY <1>10 DEF Closes
<1>14. Closes(w2, g) = l2 + 1 /\ l2 >= l /\ l2 >= g
  <2>1. CASE n % 2 = 1
    <3>1. (g + n) % 2 = 0 /\ (g + (n + 1)) % 2 = 1
      BY <1>3, <1>4, <1>6, <2>1, Parities
    <3>2. l + 1 = g + 1 + n /\ l2 = l + 2 /\ Closes(w2, g) = g + 1 + (n + 1) + 1
      <4>1. l2 = l + 2
        BY <1>10, <2>1
      <4>2. Closes(w2, g) = g + 1 + (n + 1) + 1
        BY <1>13, <3>1
      <4>3. l + 1 = g + 1 + n
        <5>1. Closes(w, g) = g + 1 + n + 0
          BY <1>6, <3>1
        <5>2. g + 1 + n + 0 = g + 1 + n
          BY <1>4, <1>6
        <5> QED BY <1>3, <5>1, <5>2
      <4> QED BY <4>1, <4>2, <4>3
    <3> QED BY <1>4, <1>6, <3>2
  <2>2. CASE n % 2 # 1
    <3>1. (g + n) % 2 = 1 /\ (g + (n + 1)) % 2 = 0
      BY <1>3, <1>4, <1>6, <2>2, Parities
    <3>2. l + 1 = g + 1 + n + 1 /\ l2 = l /\ Closes(w2, g) = g + 1 + (n + 1)
      BY <1>3, <1>4, <1>6, <1>10, <1>13, <2>2, <3>1
    <3> QED BY <1>4, <1>6, <3>2
  <2> QED BY <2>1, <2>2
<1> DEFINE e == l2 + 1
           r1 == r + 1
           k1 == k + 1
           R2 == [R EXCEPT ![e] = r1]
           D2 == [D EXCEPT ![e] = k1]
           F == (E \ {l + 1}) \cup {e}
           m == g - 1
<1>15. e \in Nat /\ r1 \in Nat /\ k1 \in Nat /\ r1 = r + 1 /\ k1 = k + 1 /\ e > g /\ m \in Nat /\ m + 1 = g /\ e > m + 1
       /\ m <= l /\ m <= l2
  BY <1>4, <1>14
<1> HIDE DEF e, m, r1, k1
<1>16. R2 \in [Nat -> Nat] /\ R2[e] = r1
  <2>1. R \in [Nat -> Nat] /\ e \in Nat /\ r1 \in Nat
    BY <1>2, <1>15
  <2>2. [R EXCEPT ![e] = r1] \in [Nat -> Nat]
    BY <2>1
  <2>3. [R EXCEPT ![e] = r1][e] = r1
    BY <2>1
  <2> QED BY <2>2, <2>3
<1>17. D2 \in [Nat -> Nat] /\ D2[e] = k1
  <2>1. D \in [Nat -> Nat] /\ e \in Nat /\ k1 \in Nat
    BY <1>2, <1>15
  <2>2. [D EXCEPT ![e] = k1] \in [Nat -> Nat]
    BY <2>1
  <2>3. [D EXCEPT ![e] = k1][e] = k1
    BY <2>1
  <2> QED BY <2>2, <2>3
<1>18. SamePlan(R2, R, m)
  BY <1>2, <1>15, Placed
<1>19. SamePlan(D2, D, m)
  BY <1>2, <1>15, Placed
<1>20. SameWords(w2, w, m)
  BY <1>10, <1>15 DEF SameWords, l, l2, m
<1> HIDE DEF R2, D2
<1>21. ASSUME NEW p \in F PROVE p = e \/ (p \in E /\ p <= l /\ p \in Nat /\ p >= 1 /\ p <= g)
  <2>1. CASE p # e
    <3>1. p \in E /\ p # l + 1
      BY <2>1
    <3>2. p \in 1 .. l + 1 /\ p <= l
      BY <1>2, <1>4, <3>1
    <3>3. p <= g
      BY <1>3, <1>4, <3>1, <3>2
    <3> QED BY <1>4, <3>1, <3>2, <3>3
  <2> QED BY <2>1
<1>22. ASSUME NEW p \in E, p <= l, p # g
       PROVE  EntryPlan(R2, D2, w2, q2, p) /\ Closes(w2, p) = Closes(w, p) /\ Closes(w, p) <= g
              /\ Closes(w, p) \in F /\ p < g
  <2>1. p < g /\ Closes(w, p) <= g /\ Closes(w, p) \in E /\ EntryPlan(R, D, w, q, p)
    BY <1>2, <1>3, <1>22
  <2>2. D[Closes(w, p)] <= k
    BY <1>2, <2>1
  <2>3. p \in 1 .. m
    <3>1. p \in 1 .. l + 1
      BY <1>2, <1>22
    <3> QED BY <1>4, <1>15, <2>1, <3>1
  <2>4. EntryPlan(R2, D2, w2, q2, p) /\ Closes(w2, p) = Closes(w, p)
    BY <1>2, <1>5, <1>15, <1>18, <1>19, <1>20, <2>1, <2>2, <2>3, EntryKept DEF k
  <2>5. Closes(w, p) # l + 1
    BY <1>3, <1>4, <2>1
  <2> QED BY <2>1, <2>4, <2>5
<1>23. EntryPlan(R2, D2, w2, q2, g)
  <2>1. R2[g] = R[g] /\ D2[g] = d
    <3>1. g \in 1 .. m + 1
      BY <1>4, <1>15
    <3> QED BY <1>18, <1>19, <3>1 DEF SamePlan, d
  <2>2. From(R2[g], w2[g].time) = f
    BY <1>10, <2>1 DEF f, c
  <2>3. D2[Closes(w2, g)] = d + (n + 1) /\ R2[Closes(w2, g)] = f + (n + 1) - 1 + Latency
    <3>1. Closes(w2, g) = e
      BY <1>14 DEF e
    <3> QED BY <1>4, <1>6, <1>9, <1>11, <1>15, <1>16, <1>17, <3>1
  <2>4. ASSUME NEW j \in 1 .. n + 1
        PROVE  /\ Carries(w2[g + j], q2[d + j])
               /\ q2[d + j].release = f + j - 1
    <3>1. CASE j = n + 1
      <4>1. g + j = g + n + 1 /\ d + j = k + 1
        BY <1>4, <1>6, <1>9, <1>11, <3>1
      <4> QED BY <1>5, <1>10, <1>12, <3>1, <4>1
    <3>2. CASE j # n + 1
      <4>1. j \in 1 .. n
        BY <1>6, <3>2
      <4>2. d + j \in 1 .. k
        BY <1>6, <1>9, <1>11, <4>1
      <4>3. q2[d + j] = q[d + j]
        BY <1>5, <4>2 DEF Extends, k
      <4> QED BY <1>8, <1>10, <4>1, <4>3
    <3> QED BY <3>1, <3>2
  <2>5. GroupPlan(R2, D2, w2, q2, g)
    BY <1>10, <2>1, <2>2, <2>3, <2>4 DEF GroupPlan
  <2> QED BY <1>10, <2>5 DEF EntryPlan
<1>24. F \in SUBSET (1 .. e) /\ 1 \in F /\ e \in F /\ g \in F
  <2>1. F \subseteq 1 .. e
    BY <1>15, <1>21
  <2>2. 1 # l + 1 /\ g # l + 1
    BY <1>4
  <2> QED BY <1>2, <1>3, <2>1, <2>2
<1>25. R2[1] = 0 /\ D2[1] = 0
  <2>1. 1 \in 1 .. m + 1
    BY <1>4, <1>15
  <2> QED BY <1>2, <1>18, <1>19, <2>1 DEF SamePlan
<1>26. ASSUME NEW p \in F PROVE D2[p] <= k + 1
  <2>1. CASE p = e
    BY <1>15, <1>17, <2>1
  <2>2. CASE p # e
    <3>1. p \in E /\ p \in 1 .. m + 1
      BY <1>4, <1>15, <1>21, <2>2
    <3>2. D2[p] = D[p] /\ D[p] <= k /\ D[p] \in Nat
      BY <1>2, <1>19, <3>1 DEF SamePlan
    <3> QED BY <1>4, <3>2
  <2> QED BY <2>1, <2>2
<1>27. ASSUME NEW p \in F, p <= l2 PROVE EntryPlan(R2, D2, w2, q2, p) /\ Closes(w2, p) \in F
  <2>1. p \in E /\ p <= l
    BY <1>4, <1>21, <1>27 DEF e
  <2>2. CASE p = g
    BY <1>14, <1>23, <1>24, <2>2 DEF e
  <2>3. CASE p # g
    BY <1>22, <2>1, <2>3
  <2> QED BY <2>2, <2>3
<1>28. LastGroup(F, w2, g)
  <2>1. ASSUME NEW p \in F, p <= l2, p # g PROVE p < g /\ Closes(w2, p) <= g
    <3>1. p \in E /\ p <= l
      BY <1>4, <1>21, <2>1 DEF e
    <3> QED BY <1>22, <2>1, <3>1
  <2> HIDE DEF F
  <2> QED BY <1>3, <1>10, <1>14, <1>24, <2>1 DEF LastGroup, l2
<1> HIDE DEF F
<1>29. Planned(F, R2, D2, w2, q2)
  BY <1>5, <1>15, <1>16, <1>17, <1>24, <1>25, <1>26, <1>27 DEF Planned, e, l2
<1>30. Reaches(w2, q2, r + 1, g)
  BY <1>15, <1>16, <1>28, <1>29 DEF Reaches, e, l2
<1> QED BY <1>30 DEF q2

-----------------------------------------------------------------------------
(* The host keeps the plan.                                                *)

\* No pause is longer than a wait entry can count: the code truncates it otherwise.
WaitsSuffice == \A g \in Gaps : g + MinDistance <= MaxWait * Period

Code == program \o playback_entry_buffer

\* When the playing unit will be through with everything asked for, and where the
\* group starts that can be continued.
Through == IF asked = <<>> THEN 0 ELSE Latest.release + Latency
LastStart ==
  IF asked # <<>> /\ Latest.id # Setting /\ last_group_start_in_buffer > 0
  THEN Len(program) + last_group_start_in_buffer ELSE 0

Filled ==
  /\ Len(program) % 2 = 0
  /\ Reaches(Code, asked, Through, LastStart)
  /\ Epoch(Through) = Epoch(last_playback_reltime + Latency)
  /\ asked = <<>> => time = 0

LEMMA GapFilled ==
  ASSUME NEW r \in Nat, NEW p \in Nat, NEW t \in Nat, NEW u \in Nat, p <= r, r <= u, t <= u,
         Epoch(r) = Epoch(p + Latency), Epoch(p) < Epoch(t), u = t \/ u = p + MinDistance
  PROVE  LET n == Epoch(t) - Epoch(r)
             s == IF n = 0 THEN r ELSE (Epoch(r) + n) * Period
         IN  n \in Nat /\ s \in Nat /\ s <= u /\ u < s + Period
<1> DEFINE n == Epoch(t) - Epoch(r)
           s == IF n = 0 THEN r ELSE (Epoch(r) + n) * Period
<1>0. MinDistance < Period /\ Latency < Period /\ Latency \in Nat /\ MinDistance \in Nat /\ Period \in Nat
  BY SpikeAssumption
<1>1. Epoch(r) \in Nat /\ Epoch(t) \in Nat /\ Epoch(p) \in Nat
  BY EpochNat
<1>2. Epoch(r) <= Epoch(p) + 1
  <2>1. Latency \in 0 .. Period - 1
    BY <1>0
  <2>2. Epoch(p + Latency) = Epoch(p) + (IF p % Period > Period - Latency - 1 THEN 1 ELSE 0)
    BY <2>1, EpochLater
  <2> QED BY <1>1, <2>2
<1>3. n \in Nat
  BY <1>1, <1>2
<1>4. CASE n = 0
  <2>1. s = r /\ Epoch(r) = Epoch(t)
    BY <1>1, <1>4
  <2>2. t < r + Period
    BY <2>1, EpochNear
  <2>3. u < r + Period
    BY <1>0, <2>2
  <2> QED BY <1>3, <2>1, <2>3
<1>5. CASE n # 0
  <2>1. s = Epoch(t) * Period
    BY <1>1, <1>5
  <2>2. s \in Nat /\ s <= t /\ t < s + Period
    BY <2>1, EpochRange
  <2>3. p < s
    <3>1. p < t
      <4>1. CASE t <= p
        BY <1>1, <4>1, EpochMono
      <4> QED BY <4>1
    <3>2. CASE s <= p
      <4>1. Epoch(s) <= Epoch(p)
        BY <2>2, <3>2, EpochMono
      <4>2. Epoch(s) = Epoch(t)
        <5>1. s = Epoch(t) * Period + 0 /\ 0 \in 0 .. Period - 1
          BY <1>0, <2>1, <2>2, SpikeAssumption
        <5> QED BY <1>1, <2>2, <5>1, EpochIs
      <4> QED BY <1>1, <4>1, <4>2
    <3> QED BY <2>2, <3>2
  <2>4. u < s + Period
    BY <1>0, <2>2, <2>3
  <2>5. s <= u
    BY <2>2
  <2> QED BY <1>3, <2>2, <2>4, <2>5
<1> QED BY <1>3, <1>4, <1>5

LEMMA NoGap ==
  ASSUME NEW r \in Nat, NEW p \in Nat, NEW t \in Nat, NEW u \in Nat, p <= r, r <= u,
         u = t \/ u = p + MinDistance, t - p <= Period \div 2 \/ Epoch(t) <= Epoch(p)
  PROVE  u < r + Period
<1>0. MinDistance < Period /\ MinDistance \in Nat /\ Period \in Nat /\ Period > 0
      /\ Period \div 2 < Period /\ Period \div 2 \in Nat
  BY SpikeAssumption
<1>1. CASE u = p + MinDistance
  BY <1>0, <1>1
<1>2. CASE u = t /\ t - p <= Period \div 2
  BY <1>0, <1>2
<1>3. CASE u = t /\ Epoch(t) <= Epoch(p)
  <2>1. Epoch(p) <= Epoch(r) /\ Epoch(r) <= Epoch(t)
    BY <1>3, EpochMono
  <2>2. Epoch(r) = Epoch(t)
    BY <1>3, <2>1, EpochNat
  <2> QED BY <1>3, <2>2, EpochNear
<1> QED BY <1>1, <1>2, <1>3

LEMMA Weaken ==
  ASSUME NEW w, NEW q, NEW r, NEW g, Reaches(w, q, r, g)
  PROVE  Reaches(w, q, r, 0)
BY DEF Reaches

\* The wait entry before a release at u that is asked for at t, if one is needed.
LEMMA ReachesOverflow ==
  ASSUME NEW w \in Seq(Words), NEW q \in Seq(Request), NEW r \in Nat, NEW g, Reaches(w, q, r, g),
         NEW t \in Nat, NEW u \in Nat, last_playback_reltime \in Nat, last_playback_reltime <= r,
         r <= u, t <= u, Epoch(r) = Epoch(last_playback_reltime + Latency),
         u = t \/ u = last_playback_reltime + MinDistance, t <= r + MaxWait * Period
  PROVE  \E s \in Nat : Reaches(w \o Overflow(t), q, s, 0) /\ s <= u /\ u < s + Period
<1> DEFINE p == last_playback_reltime
<1>0. Reaches(w, q, r, 0)
  BY Weaken
<1>1. CASE FarAhead(t)
  <2>1. Epoch(p) < Epoch(t)
    BY <1>1 DEF FarAhead
  <2> DEFINE n == Epoch(t) - Epoch(r)
             s == IF n = 0 THEN r ELSE (Epoch(r) + n) * Period
  <2>2. n \in Nat /\ s \in Nat /\ s <= u /\ u < s + Period
    <3> HIDE DEF p
    <3>1. /\ p \in Nat /\ p <= r /\ Epoch(r) = Epoch(p + Latency)
          /\ u = t \/ u = p + MinDistance
      BY DEF p
    <3> QED BY <2>1, <3>1, GapFilled
  <2>3. n <= MaxWait /\ MaxWait \in Nat
    <3>1. MaxWait \in Nat
      BY SpikeAssumption
    <3>2. Epoch(t) <= Epoch(r) + MaxWait
      BY <3>1, EpochsApart
    <3> QED BY <3>1, <3>2, EpochNat
  <2>4. Waits(t) = n
    <3>1. Latency \in 0 .. Period - 1
      BY SpikeAssumption
    <3>2. Epoch(p + Latency) = Epoch(p) + (IF p % Period > Period - Latency - 1 THEN 1 ELSE 0)
      BY <3>1, EpochLater
    <3>3. Epoch(p) \in Nat /\ Epoch(t) \in Nat /\ Epoch(r) \in Nat
      BY EpochNat
    <3>4. n = Epoch(t) - Epoch(p) - (IF p % Period > Period - Latency - 1 THEN 1 ELSE 0)
      BY <3>2, <3>3
    <3> HIDE DEF n
    <3> QED BY <2>2, <2>3, <3>4 DEF Waits
  <2>5. Overflow(t) = <<Wait(n), Pad>>
    BY <1>1, <2>4 DEF Overflow
  <2>6. n \in 0 .. MaxWait
    BY <2>2, <2>3
  <2>7. Reaches(w \o <<Wait(n), Pad>>, q, s, 0)
    <3> HIDE DEF n
    <3> QED BY <1>0, <2>6, ReachesWait DEF s
  <2> HIDE DEF s, n
  <2> QED BY <2>2, <2>5, <2>7
<1>2. CASE ~FarAhead(t)
  <2>1. w \o Overflow(t) = w
    BY <1>2, ConcatEmptySeq DEF Overflow
  <2>2. t - p <= Period \div 2 \/ Epoch(t) <= Epoch(p)
    BY <1>2, EpochNat, SpikeAssumption DEF FarAhead
  <2>3. u < r + Period
    <3> HIDE DEF p
    <3>2. p \in Nat /\ p <= r
      BY DEF p
    <3>3. u = t \/ u = p + MinDistance
      BY DEF p
    <3> QED BY <2>2, <3>2, <3>3, NoGap
  <2> QED BY <1>0, <2>1, <2>3
<1> QED BY <1>1, <1>2

LEMMA SumEven ==
  ASSUME NEW a \in Nat, NEW b \in Nat, a % 2 = 0, b % 2 = 0
  PROVE  (a + b) % 2 = 0
OBVIOUS

LEMMA Associates ==
  ASSUME NEW c \in Seq(Words), NEW d \in Seq(Words), NEW e \in Seq(Words)
  PROVE  (c \o d) \o e = c \o (d \o e)
BY ConcatAssociative

LEMMA CodeFacts ==
  ASSUME TypeOK
  PROVE  /\ Code \in Seq(Words) /\ Len(Code) = Len(program) + Len(playback_entry_buffer)
         /\ program \in Seq(Words) /\ playback_entry_buffer \in Seq(Words)
         /\ Len(program) \in Nat /\ Len(playback_entry_buffer) \in Nat
         /\ Len(program) % 2 = 0 => Len(Code) % 2 = 0
<1> DEFINE a == Len(program)
           b == Len(playback_entry_buffer)
<1>1. program \in Seq(Words) /\ playback_entry_buffer \in Seq(Words) /\ b % 2 = 0
  BY DEF TypeOK
<1>2. a \in Nat /\ b \in Nat
  BY <1>1, ElementOf
<1>3. Code \in Seq(Words) /\ Len(Code) = a + b
  BY <1>1, Joined DEF Code
<1>4. ASSUME a % 2 = 0 PROVE Len(Code) % 2 = 0
  <2> HIDE DEF a, b
  <2> QED BY <1>1, <1>2, <1>3, <1>4, SumEven
<1> QED BY <1>1, <1>2, <1>3, <1>4

LEMMA ThroughFacts ==
  ASSUME HostInv, phase = "fill", asked = <<>> => time = 0
  PROVE  /\ Through \in Nat /\ last_playback_reltime \in Nat /\ time \in Nat
         /\ asked \in Seq(Request)
         /\ last_playback_reltime <= Through /\ time <= Through + MinDistance
         /\ asked # <<>> /\ Latest.id = Setting => Through = time + Latency
         /\ asked # <<>> /\ Latest.id # Setting => Through = last_playback_reltime + Latency
         /\ asked = <<>> => last_playback_reltime = 0 /\ Through = 0 /\ calls = 0
         /\ asked # <<>> => calls > 0
<1>0. Latency \in Nat /\ MinDistance \in Nat
  BY SpikeAssumption
<1>1. HostTypes /\ Paced /\ IF asked = <<>> THEN last_playback_reltime = 0 /\ calls = 0
                            ELSE Standing /\ calls > 0
  BY DEF HostInv
<1>2. asked \in Seq(Request) /\ time \in Nat /\ last_playback_reltime \in Nat /\ calls \in Nat
  BY <1>1 DEF HostTypes
<1>3. CASE asked = <<>>
  BY <1>0, <1>1, <1>2, <1>3 DEF Through
<1>4. CASE asked # <<>>
  <2>1. Len(asked) \in DOMAIN asked /\ Latest \in Request
    BY <1>2, <1>4 DEF Latest
  <2>2. Latest.release > Latest.time - MinDistance
    BY <1>1, <2>1 DEF Paced, Latest
  <2>3. Latest.release \in Nat /\ Latest.time = time
    BY <1>1, <1>4, <2>1 DEF Request, Standing
  <2>4. Through = Latest.release + Latency
    BY <1>4 DEF Through
  <2>5. IF Latest.id = Setting THEN Latest.release = time /\ last_playback_reltime <= time
                               ELSE Latest.release = last_playback_reltime
    BY <1>1, <1>4 DEF Standing
  <2>6. CASE Latest.id = Setting
    <3>1. Latest.release = time /\ last_playback_reltime <= time
      BY <2>5, <2>6
    <3>2. Through = time + Latency
      BY <2>4, <3>1
    <3>3. last_playback_reltime <= Through /\ time <= Through + MinDistance /\ Through \in Nat
      BY <1>0, <1>2, <3>1, <3>2
    <3> QED BY <1>1, <1>2, <1>4, <2>6, <3>2, <3>3
  <2>7. CASE Latest.id # Setting
    <3>1. Latest.release = last_playback_reltime
      BY <2>5, <2>7
    <3>2. Through = last_playback_reltime + Latency
      BY <2>4, <3>1
    <3>3. last_playback_reltime > time - MinDistance
      BY <2>2, <2>3, <3>1
    <3>4. last_playback_reltime <= Through /\ time <= Through + MinDistance /\ Through \in Nat
      BY <1>0, <1>2, <3>2, <3>3
    <3> QED BY <1>1, <1>2, <1>4, <2>7, <3>2, <3>4
  <2> QED BY <2>6, <2>7
<1> QED BY <1>3, <1>4

LEMMA NearEnough ==
  ASSUME WaitsSuffice, NEW r \in Nat, time \in Nat, time <= r + MinDistance, NEW g \in Gaps
  PROVE  time + g <= r + MaxWait * Period
<1>1. g \in Nat /\ MinDistance \in Nat
  BY SpikeAssumption
<1>2. g + MinDistance <= MaxWait * Period
  BY DEF WaitsSuffice
<1>3. MaxWait * Period \in Nat
  BY PeriodFacts, SpikeAssumption
<1> QED BY <1>1, <1>2, <1>3

\* What a request leaves.
LEMMA FilledBy ==
  ASSUME NEW x \in Request, asked \in Seq(Request), asked' = Append(asked, x),
         Len(program') % 2 = 0,
         Reaches(Code', asked', x.release + Latency, LastStart'),
         Epoch(x.release + Latency) = Epoch(last_playback_reltime' + Latency)
  PROVE  Filled'
<1>1. asked' # <<>> /\ Latest' = x
  BY DEF Latest
<1>2. Through' = x.release + Latency
  BY <1>1 DEF Through
<1> QED BY <1>1, <1>2 DEF Filled

LEMMA SettingFacts ==
  ASSUME Orderly, HostInv, phase = "fill", Filled, NEW g \in Gaps, AddSetting(time + g)
  PROVE  /\ Through <= time + g /\ time + g \in Nat /\ last_playback_reltime <= time + g
         /\ Asked(Setting, time + g, 0, time + g) \in Request
         /\ asked' = Append(asked, Asked(Setting, time + g, 0, time + g))
         /\ last_group_start_in_buffer' = last_group_start_in_buffer
         /\ LastStart' = 0
<1> DEFINE t == time + g
           x == Asked(Setting, t, 0, t)
<1>0. Latency \in Nat /\ MinDistance \in Nat /\ Latency < MinDistance /\ g \in Nat
  BY SpikeAssumption
<1>1. /\ Through \in Nat /\ last_playback_reltime \in Nat /\ time \in Nat
      /\ asked \in Seq(Request)
      /\ last_playback_reltime <= Through
      /\ asked # <<>> /\ Latest.id = Setting => Through = time + Latency
      /\ asked # <<>> /\ Latest.id # Setting => Through = last_playback_reltime + Latency
      /\ asked = <<>> => Through = 0
      /\ asked # <<>> => calls > 0
  BY ThroughFacts DEF Filled
<1>2. /\ KeepsDistance(t) /\ Distant(t) /\ asked' = Append(asked, x)
      /\ last_group_start_in_buffer' = last_group_start_in_buffer
  BY DEF AddSetting
<1>3. t \in Nat
  BY <1>0, <1>1
<1>4. Through <= t
  <2>1. CASE asked = <<>>
    BY <1>1, <1>3, <2>1
  <2>2. CASE asked # <<>> /\ Latest.id = Setting
    <3>1. t >= time + MinDistance
      BY <1>2, <2>2 DEF KeepsDistance, AfterConfig, Latest
    <3> HIDE DEF t
    <3> QED BY <1>0, <1>1, <1>3, <2>2, <3>1
  <2>3. CASE asked # <<>> /\ Latest.id # Setting
    <3>1. t >= last_playback_reltime + MinDistance
      BY <1>1, <1>2, <2>3 DEF Distant
    <3> HIDE DEF t
    <3> QED BY <1>0, <1>1, <1>3, <2>3, <3>1
  <2> QED BY <2>1, <2>2, <2>3
<1>5. last_playback_reltime <= t
  BY <1>1, <1>3, <1>4
<1>6. x \in Request
  BY <1>3 DEF Asked, Request
<1>7. LastStart' = 0
  <2>1. asked' # <<>> /\ Latest' = x
    BY <1>1, <1>2, <1>6 DEF Latest
  <2> QED BY <2>1 DEF LastStart, Asked
<1> QED BY <1>2, <1>3, <1>4, <1>5, <1>6, <1>7

LEMMA ConfigFilled ==
  ASSUME Orderly, TypeOK, HostInv, phase = "fill", Filled, NEW g \in Gaps,
         addPlaybackConfig(time + g) \/ sendPlaybackConfig(time + g)
  PROVE  Filled'
<1> DEFINE t == time + g
           x == Asked(Setting, t, 0, t)
           d == ConfigEntry(t)
<1>1. AddSetting(t) /\ SameEpoch(t) /\ last_playback_reltime' = last_playback_reltime
  BY DEF addPlaybackConfig, sendPlaybackConfig
<1>2. Through <= t /\ t \in Nat /\ x \in Request /\ asked' = Append(asked, x) /\ LastStart' = 0
  BY <1>1, SettingFacts
<1>3. /\ Len(program) % 2 = 0 /\ Reaches(Code, asked, Through, 0)
      /\ Epoch(Through) = Epoch(last_playback_reltime + Latency) /\ Through \in Nat
      /\ asked \in Seq(Request)
  BY ThroughFacts, Weaken DEF Filled
<1>4. Code \in Seq(Words) /\ program \in Seq(Words) /\ playback_entry_buffer \in Seq(Words)
      /\ Len(program) \in Nat
  BY CodeFacts
<1>5. d \in Seq(Words) /\ Len(d) = 4
  <2>1. t % Period \in 0 .. Period - 1
    BY <1>2, EpochOf
  <2> QED BY <2>1 DEF ConfigEntry, Config, Payload, Pad, Words
<1>6. Epoch(t + Latency) = Epoch(last_playback_reltime + Latency)
  BY <1>1 DEF SameEpoch
<1>7. t < Through + Period
  <2>1. Latency \in Nat /\ t + Latency \in Nat /\ Period \in Nat
    BY <1>2, SpikeAssumption
  <2>2. t + Latency < Through + Period
    <3> HIDE DEF t
    <3> QED BY <1>3, <1>6, <2>1, EpochNear
  <2> QED BY <1>2, <1>3, <2>1, <2>2
<1> HIDE DEF d, x, t
<1>8. Code' = Code \o d /\ Len(program') % 2 = 0
  <2>1. CASE addPlaybackConfig(t)
    <3>1. program' = program /\ playback_entry_buffer' = playback_entry_buffer \o d
      BY <2>1 DEF addPlaybackConfig, d
    <3>2. Code \o d = program \o (playback_entry_buffer \o d)
      BY <1>4, <1>5, ConcatAssociative DEF Code
    <3>3. Code' = program \o (playback_entry_buffer \o d)
      BY <3>1 DEF Code
    <3> QED BY <1>3, <3>1, <3>2, <3>3
  <2>2. CASE sendPlaybackConfig(t)
    <3>1. program' = program \o d /\ playback_entry_buffer = <<>> /\ playback_entry_buffer' = <<>>
      BY <2>2 DEF sendPlaybackConfig, d
    <3>2. program' \in Seq(Words) /\ Len(program') = Len(program) + 4
      <4>1. program \o d \in Seq(Words)
        BY <1>4, <1>5, Joined
      <4>2. Len(program \o d) = Len(program) + Len(d)
        BY <1>4, <1>5, Joined
      <4> QED BY <1>5, <3>1, <4>1, <4>2
    <3>3. Code' = program'
      BY <3>1, <3>2, ConcatEmptySeq DEF Code
    <3>4. Code = program
      BY <1>4, <3>1, ConcatEmptySeq DEF Code
    <3> QED BY <1>3, <1>4, <3>1, <3>2, <3>3, <3>4, Parity
  <2> QED BY <2>1, <2>2 DEF t
<1>9. Reaches(Code', asked', t + Latency, 0)
  BY <1>2, <1>3, <1>4, <1>7, <1>8, ReachesConfig DEF d, x
<1>10. x.release = t
  BY DEF x, Asked
<1> QED BY <1>1, <1>2, <1>3, <1>6, <1>8, <1>9, <1>10, FilledBy

LEMMA FPGAConfigFilled ==
  ASSUME Orderly, WaitsSuffice, TypeOK, HostInv, phase = "fill", Filled, NEW g \in Gaps,
         addPlaybackFPGAConfig(time + g)
  PROVE  Filled'
<1> DEFINE t == time + g
           x == Asked(Setting, t, 0, t)
           d == ConfigEntry(t)
           o == Overflow(t)
           b == playback_entry_buffer
<1>1. /\ AddSetting(t) /\ last_playback_reltime' = t /\ program' = program
      /\ b' = b \o o \o d
  BY DEF addPlaybackFPGAConfig
<1>2. Through <= t /\ t \in Nat /\ x \in Request /\ asked' = Append(asked, x) /\ LastStart' = 0
  BY <1>1, SettingFacts
<1>3. /\ Len(program) % 2 = 0 /\ Reaches(Code, asked, Through, LastStart)
      /\ Epoch(Through) = Epoch(last_playback_reltime + Latency) /\ Through \in Nat
      /\ last_playback_reltime \in Nat /\ last_playback_reltime <= Through
      /\ asked \in Seq(Request)
  BY ThroughFacts DEF Filled
<1>4. Code \in Seq(Words) /\ program \in Seq(Words) /\ b \in Seq(Words)
  BY CodeFacts
<1>5. d \in Seq(Words) /\ o \in Seq(Words)
  <2>1. t % Period \in 0 .. Period - 1
    BY <1>2, EpochOf
  <2>2. d \in Seq(Words)
    BY <2>1 DEF ConfigEntry, Config, Payload, Pad, Words
  <2>3. o \in Seq(Words)
    BY <1>2, <1>3, OverflowTypes
  <2> QED BY <2>2, <2>3
<1>6. t <= Through + MaxWait * Period
  BY <1>3, NearEnough, ThroughFacts DEF Filled
<1> HIDE DEF d, x, t, b
<1>7. PICK s \in Nat : Reaches(Code \o o, asked, s, 0) /\ s <= t /\ t < s + Period
  <2>1. t <= t
    BY <1>2
  <2> QED BY <1>2, <1>3, <1>4, <1>6, <2>1, ReachesOverflow
<1> HIDE DEF o
<1>8. Code' = (Code \o o) \o d
  <2> DEFINE bo == b \o o
  <2>1. Code' = program \o (bo \o d) /\ Code = program \o b
    BY <1>1 DEF Code, b
  <2>2. bo \in Seq(Words) /\ (program \o b) \o o = program \o bo
    <3>1. bo \in Seq(Words)
      BY <1>4, <1>5, Joined
    <3>2. program \in Seq(Words) /\ b \in Seq(Words) /\ o \in Seq(Words)
      BY <1>4, <1>5
    <3>3. (program \o b) \o o = program \o (b \o o)
      BY <3>2, Associates
    <3> QED BY <3>1, <3>3
  <2> HIDE DEF bo
  <2>3. (program \o bo) \o d = program \o (bo \o d)
    <3>1. program \in Seq(Words) /\ d \in Seq(Words)
      BY <1>4, <1>5
    <3> QED BY <2>2, <3>1, Associates
  <2> QED BY <2>1, <2>2, <2>3
<1>9. Code \o o \in Seq(Words)
  BY <1>4, <1>5, Joined
<1>10. Reaches(Code', asked', t + Latency, 0)
  BY <1>2, <1>3, <1>7, <1>8, <1>9, ReachesConfig DEF d, x
<1>11. x.release = t
  BY DEF x, Asked
<1> QED BY <1>1, <1>2, <1>3, <1>10, <1>11, FilledBy

LEMMA StartFilled ==
  ASSUME Orderly, WaitsSuffice, TypeOK, HostInv, phase = "fill", Filled, NEW g \in Gaps, NEW a \in Ids, NEW st \in Nat,
         addPlaybackPulse(time + g, st, a), ~Continues(time + g)
  PROVE  Filled'
<1> DEFINE t == time + g
           u == Shifted(t)
           x == Asked(a, t, st, u)
           d == <<Group(1, u), Pulse(a, st)>>
           o == Overflow(t)
           b == playback_entry_buffer
           p == last_playback_reltime
<1>0. Latency \in Nat /\ MinDistance \in Nat /\ Latency < MinDistance /\ g \in Nat /\ a # Setting
  BY SpikeAssumption
<1>1. /\ KeepsDistance(t) /\ p' = u /\ program' = program
      /\ b' = (b \o o) \o d
      /\ last_group_start_in_buffer' = Len(b \o o) + 1
      /\ asked' = Append(asked, x)
  BY DEF addPlaybackPulse, startGroup
<1>2. /\ Len(program) % 2 = 0 /\ Reaches(Code, asked, Through, LastStart)
      /\ Epoch(Through) = Epoch(p + Latency)
  BY DEF Filled
<1>3. /\ Through \in Nat /\ p \in Nat /\ time \in Nat /\ p <= Through /\ time <= Through + MinDistance
      /\ asked \in Seq(Request)
      /\ asked # <<>> /\ Latest.id = Setting => Through = time + Latency
      /\ asked # <<>> /\ Latest.id # Setting => Through = p + Latency
      /\ asked = <<>> => Through = 0
  BY ThroughFacts DEF Filled
<1>4. Code \in Seq(Words) /\ program \in Seq(Words) /\ b \in Seq(Words) /\ Len(Code) % 2 = 0
      /\ Len(Code) \in Nat /\ Len(program) \in Nat /\ Len(b) \in Nat
      /\ Len(Code) = Len(program) + Len(b)
  BY <1>2, CodeFacts
<1>5. t \in Nat
  BY <1>0, <1>3
<1>6. u \in Nat /\ t <= u /\ (u = t \/ u = p + MinDistance) /\ u >= p + MinDistance
  <2> HIDE DEF t
  <2> QED BY <1>0, <1>3, <1>5 DEF Shifted
<1>7. Through <= u
  <2>1. CASE asked = <<>>
    BY <1>3, <1>6, <2>1
  <2>2. CASE asked # <<>> /\ Latest.id = Setting
    <3>1. Orderly /\ AfterConfig
      BY <2>2 DEF AfterConfig, Latest
    <3>2. t >= time + MinDistance
      BY <1>1, <3>1 DEF KeepsDistance
    <3> HIDE DEF t, u
    <3> QED BY <1>0, <1>3, <1>5, <1>6, <2>2, <3>2
  <2>3. CASE asked # <<>> /\ Latest.id # Setting
    <3> HIDE DEF t, u
    <3> QED BY <1>0, <1>3, <1>6, <2>3
  <2> QED BY <2>1, <2>2, <2>3
<1>8. t <= Through + MaxWait * Period
  BY <1>3, NearEnough
<1>9. o \in Seq(Words) /\ (Len(o) = 0 \/ Len(o) = 2)
  <2>1. o \in Seq(Words) /\ Len(o) \in {0, 2}
    BY <1>3, <1>5, OverflowTypes
  <2> QED BY <2>1
<1>10. d \in Seq(Words)
  <2>1. Group(1, u) \in Words
    BY <1>6, WordTypes
  <2>2. Pulse(a, st) \in Words
    BY <1>5, WordTypes
  <2> QED BY <2>1, <2>2
<1>11. x \in Request /\ x.release = u /\ x.id = a
  BY <1>5, <1>6 DEF Asked, Request
<1> HIDE DEF t, u, x, d, b
<1>12. PICK s \in Nat : Reaches(Code \o o, asked, s, 0) /\ s <= u /\ u < s + Period
  BY <1>2, <1>3, <1>4, <1>5, <1>6, <1>7, <1>8, ReachesOverflow
<1> HIDE DEF o
<1>13. Code \o o \in Seq(Words) /\ Len(Code \o o) = Len(Code) + Len(o) /\ Len(b \o o) = Len(b) + Len(o)
       /\ b \o o \in Seq(Words)
  BY <1>4, <1>9, Joined
<1>14. Code' = (Code \o o) \o d
  <2> DEFINE bo == b \o o
  <2>1. Code' = program \o (bo \o d) /\ Code = program \o b
    BY <1>1 DEF Code, b
  <2>2. bo \in Seq(Words) /\ (program \o b) \o o = program \o bo
    <3>1. bo \in Seq(Words)
      BY <1>4, <1>9, Joined
    <3>2. program \in Seq(Words) /\ b \in Seq(Words) /\ o \in Seq(Words)
      BY <1>4, <1>9
    <3>3. (program \o b) \o o = program \o (b \o o)
      BY <3>2, Associates
    <3> QED BY <3>1, <3>3
  <2> HIDE DEF bo
  <2>3. (program \o bo) \o d = program \o (bo \o d)
    BY <1>4, <1>10, <2>2, Associates
  <2> QED BY <2>1, <2>2, <2>3
<1>15. Len(Code \o o) % 2 = 0
  <2> DEFINE k == Len(Code)
             m == Len(o)
             l == Len(Code \o o)
  <2>1. k \in Nat /\ k % 2 = 0 /\ l = k + m /\ (m = 0 \/ m = 2)
    BY <1>4, <1>9, <1>13
  <2> HIDE DEF k, m, l
  <2>2. l % 2 = 0
    BY <2>1
  <2> QED BY <2>2 DEF l
<1>16. Reaches(Code', asked', u + Latency, Len(Code \o o) + 1)
  BY <1>1, <1>3, <1>5, <1>6, <1>12, <1>13, <1>14, <1>15, ReachesGroup DEF d, x
<1>17. LastStart' = Len(Code \o o) + 1
  <2>1. asked' # <<>> /\ Latest' = x
    <3>1. Len(asked) \in Nat /\ Len(asked') = Len(asked) + 1 /\ asked'[Len(asked) + 1] = x
      BY <1>1, <1>3, <1>11, Requested, ElementOf
    <3>2. Latest' = x
      BY <3>1 DEF Latest
    <3>3. asked' # <<>>
      BY <1>1, <1>3, <1>11
    <3> QED BY <3>2, <3>3
  <2>2. Len(b \o o) + 1 > 0 /\ Len(program) + (Len(b \o o) + 1) = Len(Code \o o) + 1
    BY <1>4, <1>9, <1>13
  <2>3. program' = program /\ last_group_start_in_buffer' = Len(b \o o) + 1
    BY <1>1
  <2> QED BY <1>0, <1>11, <2>1, <2>2, <2>3 DEF LastStart
<1> QED BY <1>1, <1>2, <1>3, <1>11, <1>16, <1>17, FilledBy DEF p

\* The buffer b2 is b with a pulse more in its last group, of n.
IsPatched(b2, b, s, n, y) ==
  /\ Len(b2) = IF n % 2 = 1 THEN Len(b) + 2 ELSE Len(b)
  /\ \A i \in 1 .. Len(b) : i # s /\ (n % 2 = 1 \/ i # Len(b)) => b2[i] = b[i]
  /\ b2[s].kind = "group" /\ b2[s].count = n + 1 /\ b2[s].time = b[s].time
  /\ b2[IF n % 2 = 1 THEN Len(b) + 1 ELSE Len(b)] = y

LEMMA Patched ==
  ASSUME NEW b \in Seq(Words), NEW s \in 1 .. Len(b), s # Len(b), b[s].kind = "group",
         NEW n \in Nat, n = b[s].count, n < MaxGroup, NEW y \in Words
  PROVE  IsPatched([WithPulse(b, n, y) EXCEPT ![s].count = n + 1], b, s, n, y)
<1> DEFINE w == WithPulse(b, n, y)
           l == Len(b)
           k == IF n % 2 = 1 THEN l + 1 ELSE l
           v == [b[s] EXCEPT !.count = n + 1]
           b2 == [w EXCEPT ![s].count = n + 1]
<1>0. l \in Nat /\ s \in Nat /\ s <= l /\ s >= 1 /\ b[s] \in Words
  <2>1. l \in Nat
    BY ElementOf
  <2>2. b[s] \in Words
    BY ElementOf
  <2> QED BY <2>1, <2>2
<1>1. /\ w \in Seq(Words) /\ Len(w) = IF n % 2 = 1 THEN l + 2 ELSE l
      /\ w[s] = b[s] /\ w[k] = y
      /\ \A i \in 1 .. l : n % 2 = 1 \/ i # l => w[i] = b[i]
  <2>1. CASE n % 2 = 1
    <3>1. w = b \o <<y, Pad>> /\ Pad \in Words
      BY <2>1 DEF WithPulse, Pad, Words
    <3> HIDE DEF w
    <3>2. w \in Seq(Words)
      BY <3>1, TwoAppended
    <3>3. Len(w) = l + 2
      BY <3>1, TwoAppended
    <3>4. \A i \in 1 .. l : w[i] = b[i]
      BY <3>1, TwoAppended
    <3>5. w[l + 1] = y
      BY <3>1, TwoAppended
    <3> QED BY <2>1, <3>2, <3>3, <3>4, <3>5
  <2>2. CASE n % 2 # 1
    <3>1. w = [b EXCEPT ![l] = y] /\ l \in 1 .. l
      BY <1>0, <2>2 DEF WithPulse
    <3> HIDE DEF w, l
    <3>2. w \in Seq(Words) /\ Len(w) = l
      BY <3>1, Replaced DEF l
    <3>3. w[l] = y
      BY <3>1, Replaced DEF l
    <3>4. \A i \in 1 .. l : i # l => w[i] = b[i]
      BY <3>1, Replaced DEF l
    <3>5. s # l /\ s \in 1 .. l
      BY DEF l
    <3> QED BY <2>2, <3>2, <3>3, <3>4, <3>5
  <2> QED BY <2>1, <2>2
<1> HIDE DEF w
<1>2. v \in Words /\ v.kind = "group" /\ v.count = n + 1 /\ v.time = b[s].time
  <2>1. n + 1 \in 1 .. MaxGroup
    BY SpikeAssumption
  <2>2. v \in Words /\ v.kind = "group"
    BY <1>0, <2>1, GroupWord
  <2>3. b[s] \in [kind : {"group"}, count : 1 .. MaxGroup, time : 0 .. Period - 1]
    BY <1>0 DEF Words
  <2>4. v.count = n + 1 /\ v.time = b[s].time
    BY <2>3
  <2> QED BY <2>2, <2>4
<1>3. b2 = [w EXCEPT ![s] = v]
  BY <1>1
<1> HIDE DEF v, b2
<1>4. s \in 1 .. Len(w) /\ Len(w) \in Nat
  BY <1>0, <1>1
<1>5. Len(b2) = Len(w)
  BY <1>1, <1>2, <1>3, <1>4, Replaced
<1>6. b2[s] = v
  BY <1>1, <1>2, <1>3, <1>4, Replaced
<1>7. \A j \in 1 .. Len(w) : j # s => b2[j] = w[j]
  BY <1>1, <1>2, <1>3, <1>4, Replaced
<1>8. k \in 1 .. Len(w) /\ k # s
  BY <1>0, <1>1
<1>9. b2[k] = y
  BY <1>1, <1>7, <1>8
<1>10. ASSUME NEW i \in 1 .. l, i # s, n % 2 = 1 \/ i # l PROVE b2[i] = b[i]
  <2>1. i \in 1 .. Len(w)
    BY <1>0, <1>1
  <2> QED BY <1>1, <1>7, <1>10, <2>1
<1>11. IsPatched(b2, b, s, n, y)
  BY <1>1, <1>2, <1>5, <1>6, <1>9, <1>10 DEF IsPatched
<1> QED BY <1>11 DEF b2, w

LEMMA CodeAt ==
  ASSUME TypeOK
  PROVE  /\ \A i \in 1 .. Len(program) : Code[i] = program[i]
         /\ \A i \in 1 .. Len(playback_entry_buffer) : Code[Len(program) + i] = playback_entry_buffer[i]
<1>1. program \in Seq(Words) /\ playback_entry_buffer \in Seq(Words)
  BY DEF TypeOK
<1> QED BY <1>1, Appended DEF Code

LEMMA ContinueFilled ==
  ASSUME Orderly, TypeOK, TypeOK', HostInv, phase = "fill", Filled, NEW g \in Gaps, NEW a \in Ids, NEW st \in Nat,
         addPlaybackPulse(time + g, st, a), Continues(time + g)
  PROVE  Filled'
<1> DEFINE t == time + g
           p == last_playback_reltime
           x == Asked(a, t, st, p + 1)
           b == playback_entry_buffer
           s == last_group_start_in_buffer
           n == GroupCount
           y == Pulse(a, st)
           h == Len(program)
           G == h + s
<1>0. Latency \in Nat /\ MinDistance \in Nat /\ Latency < MinDistance /\ g \in Nat /\ a # Setting
  BY SpikeAssumption
<1>1. /\ KeepsDistance(t) /\ program' = program
      /\ b' = [WithPulse(b, n, y) EXCEPT ![s].count = n + 1]
      /\ p' = p + 1 /\ s' = s
      /\ asked' = Append(asked, x)
  BY DEF addPlaybackPulse, continueGroup
<1>2. t < p + MinDistance /\ p > 0 /\ s > 0 /\ n < MaxGroup
  BY DEF Continues
<1>3. /\ h % 2 = 0 /\ Reaches(Code, asked, Through, LastStart)
  BY DEF Filled
<1>4. /\ Through \in Nat /\ p \in Nat /\ time \in Nat
      /\ asked \in Seq(Request)
      /\ asked # <<>> /\ Latest.id # Setting => Through = p + Latency
      /\ asked = <<>> => p = 0
  BY ThroughFacts DEF Filled
<1>5. t \in Nat
  BY <1>0, <1>4
<1>6. asked # <<>> /\ Latest.id # Setting
  <2>1. asked # <<>>
    BY <1>2, <1>4
  <2>2. ASSUME Latest.id = Setting PROVE FALSE
    <3>1. t >= time + MinDistance
      BY <1>1, <2>1, <2>2 DEF KeepsDistance, AfterConfig, Latest
    <3>2. p <= time
      BY <2>1, <2>2 DEF HostInv, Standing
    <3> HIDE DEF t
    <3> QED BY <1>0, <1>2, <1>4, <1>5, <3>1, <3>2
  <2> QED BY <2>1, <2>2
<1>7. LastStart = G
  BY <1>2, <1>6 DEF LastStart
<1>8. Through = p + Latency
  BY <1>4, <1>6
<1>9. x \in Request /\ x.id = a /\ x.release = p + 1
  BY <1>4, <1>5 DEF Asked, Request
<1>10. y \in Words /\ Carries(y, x)
  <2>1. y \in Words
    BY <1>5, WordTypes
  <2>2. x.id = a /\ x.stamp = st
    BY DEF Asked
  <2> HIDE DEF x, t
  <2>3. Carries(y, x)
    BY <2>2 DEF Pulse, Carries
  <2> QED BY <2>1, <2>3
<1>11. /\ Code \in Seq(Words) /\ Code' \in Seq(Words) /\ b \in Seq(Words) /\ h \in Nat /\ Len(b) \in Nat
       /\ Len(b') \in Nat /\ Len(Code) = h + Len(b) /\ Len(Code') = h + Len(b')
  <2>1. program \in Seq(Words) /\ b' \in Seq(Words)
    BY <1>1 DEF TypeOK
  <2>2. program \o b' \in Seq(Words) /\ Len(program \o b') = Len(program) + Len(b') /\ Len(b') \in Nat
    BY <2>1, Joined, ElementOf
  <2>3. Code' = program \o b'
    BY <1>1 DEF Code
  <2> QED BY <2>2, <2>3, CodeFacts
<1>12. s \in 1 .. Len(b) /\ s % 2 = 1 /\ b[s].kind = "group" /\ s \in Nat /\ s # Len(b)
  <2>1. s \in 0 .. Len(b) /\ s % 2 = 1 /\ b[s].kind = "group" /\ Len(b) % 2 = 0
    BY <1>2 DEF TypeOK
  <2> QED BY <1>2, <1>11, <2>1
<1>13. n = b[s].count /\ n \in Nat /\ n >= 1
  <2>1. b[s] \in Words
    BY <1>11, <1>12, ElementOf
  <2> QED BY <1>12, <2>1, KindFacts DEF GroupCount
<1> HIDE DEF t, x, b, s, n, y
<1>14. /\ Len(b') = IF n % 2 = 1 THEN Len(b) + 2 ELSE Len(b)
       /\ \A i \in 1 .. Len(b) : i # s /\ (n % 2 = 1 \/ i # Len(b)) => b'[i] = b[i]
       /\ b'[s].kind = "group" /\ b'[s].count = n + 1 /\ b'[s].time = b[s].time
       /\ b'[IF n % 2 = 1 THEN Len(b) + 1 ELSE Len(b)] = y
  <2>1. IsPatched([WithPulse(b, n, y) EXCEPT ![s].count = n + 1], b, s, n, y)
    BY <1>2, <1>10, <1>11, <1>12, <1>13, Patched
  <2>2. IsPatched(b', b, s, n, y)
    BY <1>1, <2>1
  <2> QED BY <2>2 DEF IsPatched
<1>14a. Len(b') >= Len(b) /\ (n % 2 = 1 => Len(b') = Len(b) + 2)
  BY <1>11, <1>14
<1>15. /\ \A i \in 1 .. h : Code[i] = program[i]
       /\ \A i \in 1 .. Len(b) : Code[h + i] = b[i]
  BY CodeAt DEF b
<1>16. /\ \A i \in 1 .. h : Code'[i] = program[i]
       /\ \A i \in 1 .. Len(b') : Code'[h + i] = b'[i]
  <2>1. program \in Seq(Words) /\ b' \in Seq(Words)
    BY <1>1 DEF TypeOK, b
  <2>2. Code' = program \o b'
    BY <1>1 DEF Code, b
  <2> QED BY <2>1, <2>2, Appended
<1>17. Code[G] = b[s] /\ Code'[G] = b'[s]
  <2>1. s \in 1 .. Len(b')
    BY <1>11, <1>12, <1>14
  <2> QED BY <1>12, <1>15, <1>16, <2>1
<1>18. G % 2 = 1 /\ G \in Nat \ {0}
  <2>1. h \in Nat /\ s \in Nat /\ s >= 1
    BY <1>11, <1>12
  <2> HIDE DEF h
  <2> QED BY <1>3, <1>12, <2>1
<1>19. Closes(Code, G) = Len(Code) + 1
  BY <1>3, <1>7, <1>18 DEF Reaches, LastGroup
<1>20. IF n % 2 = 1 THEN s + n = Len(b) ELSE s + n + 1 = Len(b)
  <2>1. Closes(Code, G) = G + 1 + n + ((G + n) % 2)
    BY <1>12, <1>13, <1>17 DEF Closes
  <2> DEFINE lb == Len(b)
             z == (G + n) % 2
  <2>2. h + s + 1 + n + z = h + lb + 1 /\ lb \in Nat /\ h \in Nat /\ s \in Nat /\ n \in Nat
    BY <1>11, <1>12, <1>13, <1>19, <2>1
  <2>3. (n % 2 = 1 => z = 0) /\ (n % 2 # 1 => z = 1)
    BY <1>13, <1>18, Parities
  <2> HIDE DEF lb, z, h
  <2>4. s + n + z = lb
    <3>1. z = 0 \/ z = 1
      BY <2>3
    <3> QED BY <2>2, <3>1
  <2> QED BY <1>12, <1>13, <2>3, <2>4 DEF lb
<1>20n. h \in Nat /\ s \in Nat /\ s >= 1 /\ n \in Nat /\ n >= 1 /\ Len(b) \in Nat /\ Len(b') \in Nat
  BY <1>11, <1>12, <1>13
<1>20a. /\ s + n <= Len(b) /\ (n % 2 # 1 => s + n < Len(b))
        /\ s + n + 1 = IF n % 2 = 1 THEN Len(b) + 1 ELSE Len(b)
  <2>1. CASE n % 2 = 1
    BY <1>20, <1>20n, <2>1
  <2>2. CASE n % 2 # 1
    BY <1>20, <1>20n, <2>2
  <2> QED BY <2>1, <2>2
<1>21. OnePulseMore(Code', Code, G, x)
  <2>1. Code[G].count = n
    BY <1>13, <1>17
  <2>2. Len(Code') = IF n % 2 = 1 THEN Len(Code) + 2 ELSE Len(Code)
    <3> HIDE DEF h
    <3> QED BY <1>11, <1>14
  <2>3. ASSUME NEW i \in 1 .. G - 1 PROVE Code'[i] = Code[i]
    <3>1. CASE i \in 1 .. h
      BY <1>15, <1>16, <3>1
    <3>2. CASE i \notin 1 .. h
      <4> DEFINE j == i - h
      <4>1. j \in Nat /\ j >= 1 /\ j < s /\ i = h + j
        <5> HIDE DEF h
        <5> QED BY <1>11, <1>12, <3>2
      <4> HIDE DEF j
      <4>2. j \in 1 .. Len(b) /\ j # s /\ j # Len(b) /\ j \in 1 .. Len(b')
        <5> DEFINE lb == Len(b)
                   lb2 == Len(b')
        <5>1. lb \in Nat /\ lb2 \in Nat /\ lb2 >= lb /\ s \in Nat /\ s >= 1 /\ s <= lb
          BY <1>11, <1>12, <1>14a, <1>20n
        <5> HIDE DEF lb, lb2
        <5>2. j \in 1 .. lb /\ j # s /\ j # lb /\ j \in 1 .. lb2
          BY <4>1, <5>1
        <5> QED BY <5>2 DEF lb, lb2
      <4>3. Code'[h + j] = b'[j] /\ Code[h + j] = b[j] /\ b'[j] = b[j]
        BY <1>14, <1>15, <1>16, <4>2
      <4> QED BY <4>1, <4>3
    <3> QED BY <3>1, <3>2
  <2>4. Code'[G].kind = "group" /\ Code'[G].count = n + 1 /\ Code'[G].time = Code[G].time
    BY <1>14, <1>17
  <2>5. ASSUME NEW i \in 1 .. n PROVE Code'[G + i] = Code[G + i]
    <3> DEFINE j == s + i
    <3>1. j \in Nat /\ G + i = h + j
      <4> HIDE DEF h
      <4> QED BY <1>11, <1>12, <1>13
    <3>2. j \in 1 .. Len(b) /\ j # s /\ (n % 2 = 1 \/ j # Len(b)) /\ j \in 1 .. Len(b')
      BY <1>14a, <1>20a, <1>20n
    <3> HIDE DEF j, G
    <3>3. Code'[h + j] = b'[j] /\ Code[h + j] = b[j] /\ b'[j] = b[j]
      BY <1>14, <1>15, <1>16, <3>2
    <3> QED BY <3>1, <3>3
  <2>6. Carries(Code'[G + n + 1], x)
    <3> DEFINE j == s + n + 1
    <3>1. j \in Nat /\ G + n + 1 = h + j
      <4> HIDE DEF h
      <4> QED BY <1>20n
    <3>2. j \in 1 .. Len(b') /\ j = IF n % 2 = 1 THEN Len(b) + 1 ELSE Len(b)
      BY <1>14a, <1>20a, <1>20n
    <3> HIDE DEF j, G
    <3>3. Code'[h + j] = y
      BY <1>14, <1>16, <3>2
    <3> QED BY <1>10, <3>1, <3>3
  <2> QED BY <1>11, <2>1, <2>2, <2>3, <2>4, <2>5, <2>6 DEF OnePulseMore
<1>22. x.release = Through - Latency + 1
  BY <1>0, <1>4, <1>8, <1>9
<1> HIDE DEF G
<1>23. Reaches(Code', Append(asked, x), Through + 1, G)
  BY <1>3, <1>4, <1>7, <1>9, <1>11, <1>18, <1>21, <1>22, ReachesContinued
<1>24. x.release + Latency = Through + 1 /\ x.release + Latency = p' + Latency
  BY <1>0, <1>1, <1>4, <1>8, <1>9
<1>25. LastStart' = G
  <2>1. Len(asked) \in Nat /\ Len(asked') = Len(asked) + 1 /\ asked'[Len(asked) + 1] = x
    BY <1>1, <1>4, <1>9, Requested, ElementOf
  <2>2. Latest' = x
    BY <2>1 DEF Latest
  <2>3. asked' # <<>>
    BY <1>1, <1>4, <1>9
  <2>4. program' = program /\ last_group_start_in_buffer' = s /\ s > 0
    BY <1>1, <1>2 DEF s
  <2> QED BY <1>0, <1>9, <2>2, <2>3, <2>4 DEF LastStart, G
<1> QED BY <1>1, <1>3, <1>4, <1>9, <1>23, <1>24, <1>25, FilledBy DEF p

-----------------------------------------------------------------------------
(* The playing unit keeps to the plan.                                     *)

Released == [id : Ids \cup {Setting}, time : Nat]

\* Between two entries, or in the group at g.
Stands(E, R, D) ==
  \/ left = 0 /\ pos \in E /\ ready = R[pos] /\ Len(played) = D[pos]
  \/ \E g \in E :
       /\ g <= Len(program) /\ program[g].kind = "group"
       /\ left \in 1 .. program[g].count
       /\ pos = g + 1 + (program[g].count - left)
       /\ ready = From(R[g], program[g].time) + (program[g].count - left)
       /\ Len(played) = D[g] + (program[g].count - left)

Matches ==
  /\ played \in Seq(Released) /\ Len(played) <= Len(asked)
  /\ \A i \in DOMAIN played : played[i].id = asked[i].id /\ played[i].time = asked[i].release

FillInv == phase = "fill" => Filled /\ pos = 1 /\ left = 0 /\ ready = 0 /\ played = <<>>
PlayInv == phase = "play" =>
  \E E, R, D : Planned(E, R, D, program, asked) /\ Stands(E, R, D)
ReadInv == phase = "read" => Len(played) = Len(asked)

PlanInv == TypeOK /\ HostInv /\ Matches /\ FillInv /\ PlayInv /\ ReadInv

LEMMA PlaceFacts ==
  ASSUME TypeOK, NEW E, NEW R, NEW D, Planned(E, R, D, program, asked), NEW p \in E
  PROVE  /\ p \in Nat /\ p >= 1 /\ p <= Len(program) + 1 /\ R[p] \in Nat /\ D[p] \in Nat /\ D[p] <= Len(asked)
         /\ Len(program) \in Nat
<1>1. E \in SUBSET (1 .. Len(program) + 1) /\ R \in [Nat -> Nat] /\ D \in [Nat -> Nat]
      /\ \A i \in E : D[i] <= Len(asked)
  BY DEF Planned
<1>2. p \in 1 .. Len(program) + 1
  BY <1>1
<1>3. Len(program) \in Nat
  BY CodeFacts
<1>4. p \in Nat
  BY <1>2
<1>5. R[p] \in Nat /\ D[p] \in Nat
  BY <1>1, <1>4
<1> QED BY <1>1, <1>2, <1>3, <1>4, <1>5

LEMMA EntryFacts ==
  ASSUME TypeOK, NEW E, NEW R, NEW D, Planned(E, R, D, program, asked), NEW p \in E, p <= Len(program)
  PROVE  /\ EntryPlan(R, D, program, asked, p) /\ Closes(program, p) \in E
         /\ program[p].kind \in {"wait", "config", "group"}
         /\ program[p].kind = "wait" => Closes(program, p) = p + 2
         /\ program[p].kind = "config" => Closes(program, p) = p + 4
         /\ program[p].kind = "group" =>
              /\ Closes(program, p) = p + 1 + program[p].count + ((p + program[p].count) % 2)
              /\ program[p].count \in Nat /\ program[p].count >= 1
              /\ Closes(program, p) > p + program[p].count
              /\ From(R[p], program[p].time) \in Nat
<1>1. EntryPlan(R, D, program, asked, p) /\ Closes(program, p) \in E
  BY DEF Planned
<1>2. program[p].kind \in {"wait", "config", "group"}
  BY <1>1 DEF EntryPlan
<1>3. p \in 1 .. Len(program) /\ program \in Seq(Words)
  BY PlaceFacts, CodeFacts
<1>4. /\ program[p].kind = "wait" => Closes(program, p) = p + 2
      /\ program[p].kind = "config" => Closes(program, p) = p + 4
      /\ program[p].kind = "group" =>
           /\ Closes(program, p) = p + 1 + program[p].count + ((p + program[p].count) % 2)
           /\ program[p].count \in Nat /\ program[p].count >= 1
           /\ Closes(program, p) > p + program[p].count
  BY <1>2, <1>3, ClosesType
<1>5. ASSUME program[p].kind = "group" PROVE From(R[p], program[p].time) \in Nat
  <2>1. program[p] \in Words
    BY <1>3, ElementOf
  <2>2. program[p].time \in Int /\ R[p] \in Nat
    BY <1>5, <2>1, KindFacts, PlaceFacts
  <2> QED BY <2>2, FromType
<1> QED BY <1>1, <1>2, <1>4, <1>5

\* A release that was asked for.
LEMMA MatchesAppend ==
  ASSUME Matches, asked \in Seq(Request), asked' = asked, NEW a, NEW t \in Nat,
         a \in Ids \cup {Setting}, played' = Append(played, [id |-> a, time |-> t]),
         Len(played) + 1 <= Len(asked), a = asked[Len(played) + 1].id, t = asked[Len(played) + 1].release
  PROVE  Matches' /\ Len(played') = Len(played) + 1
<1> DEFINE x == [id |-> a, time |-> t]
<1>1. x \in Released /\ x.id = a /\ x.time = t
  BY DEF Released
<1>2. played \in Seq(Released)
        /\ \A i \in DOMAIN played : played[i].id = asked[i].id /\ played[i].time = asked[i].release
  BY DEF Matches
<1> HIDE DEF x
<1>3. played' = Append(played, x)
  BY DEF x
<1>4. played' \in Seq(Released) /\ Len(played') = Len(played) + 1 /\ Len(played) \in Nat
  BY <1>1, <1>2, <1>3
<1>5. \A i \in 1 .. Len(played) : played'[i] = played[i]
  BY <1>1, <1>2, <1>3
<1>6. played'[Len(played) + 1] = x
  BY <1>1, <1>2, <1>3
<1>7. ASSUME NEW i \in DOMAIN played'
      PROVE  played'[i].id = asked[i].id /\ played'[i].time = asked[i].release
  <2>1. i \in 1 .. Len(played) + 1
    BY <1>4, <1>7
  <2>2. CASE i = Len(played) + 1
    BY <1>1, <1>6, <2>2
  <2>3. CASE i # Len(played) + 1
    <3>1. i \in 1 .. Len(played)
      BY <1>4, <2>1, <2>3
    <3> QED BY <1>2, <1>5, <3>1
  <2> QED BY <2>2, <2>3
<1>8. Len(played') <= Len(asked')
  BY <1>4
<1> QED BY <1>4, <1>7, <1>8 DEF Matches

\* At an entry.
LEMMA AtEntry ==
  ASSUME NEW E, NEW R, NEW D, Stands(E, R, D), left = 0
  PROVE  pos \in E /\ ready = R[pos] /\ Len(played) = D[pos]
BY DEF Stands

LEMMA WaitPlayed ==
  ASSUME PlanInv, PlayWait
  PROVE  PlayInv' /\ Matches'
<1>1. /\ phase = "play" /\ left = 0 /\ pos <= Len(program) /\ program[pos].kind = "wait"
      /\ UNCHANGED <<asked, program, phase, left, played>>
      /\ ready' = (LET n == program[pos].count IN IF n = 0 THEN ready ELSE (Epoch(ready) + n) * Period)
      /\ pos' = pos + 2
  BY DEF PlayWait, Playing, hostVars
<1>2. PICK E, R, D : Planned(E, R, D, program, asked) /\ Stands(E, R, D)
  BY <1>1 DEF PlanInv, PlayInv
<1>3. pos \in E /\ ready = R[pos] /\ Len(played) = D[pos]
  BY <1>1, <1>2, AtEntry
<1>4. EntryPlan(R, D, program, asked, pos) /\ pos + 2 \in E
  BY <1>1, <1>2, <1>3, EntryFacts DEF PlanInv
<1>5. WaitPlan(R, D, program, pos)
  BY <1>1, <1>4 DEF EntryPlan
<1>6. Stands(E, R, D)'
  BY <1>1, <1>3, <1>4, <1>5 DEF Stands, WaitPlan
<1>7. Planned(E, R, D, program', asked')
  BY <1>1, <1>2
<1>8. Matches'
  BY <1>1 DEF PlanInv, Matches
<1> QED BY <1>6, <1>7, <1>8 DEF PlayInv

LEMMA ConfigPlayed ==
  ASSUME PlanInv, PlayConfig
  PROVE  PlayInv' /\ Matches'
<1>1. /\ phase = "play" /\ left = 0 /\ pos <= Len(program) /\ program[pos].kind = "config"
      /\ UNCHANGED <<asked, program, phase, left>>
      /\ ready' = Release(program[pos].time) + Latency
      /\ played' = Append(played, [id |-> Setting, time |-> Release(program[pos].time)])
      /\ pos' = pos + 4
  BY DEF PlayConfig, Playing, hostVars
<1>2. PICK E, R, D : Planned(E, R, D, program, asked) /\ Stands(E, R, D)
  BY <1>1 DEF PlanInv, PlayInv
<1>3. pos \in E /\ ready = R[pos] /\ Len(played) = D[pos]
  BY <1>1, <1>2, AtEntry
<1>4. EntryPlan(R, D, program, asked, pos) /\ pos + 4 \in E
  BY <1>1, <1>2, <1>3, EntryFacts DEF PlanInv
<1> DEFINE t == From(R[pos], program[pos].time)
<1>5. /\ D[pos + 4] = D[pos] + 1 /\ R[pos + 4] = t + Latency
      /\ asked[D[pos] + 1].id = Setting /\ asked[D[pos] + 1].release = t
  BY <1>1, <1>4 DEF EntryPlan, ConfigPlan
<1>6. Release(program[pos].time) = t
  BY <1>3 DEF Release, From
<1>7. t \in Nat
  <2>1. program[pos] \in Words
    BY <1>1, <1>2, <1>3, PlaceFacts, CodeFacts, ElementOf DEF PlanInv
  <2>2. program[pos].time \in Int /\ R[pos] \in Nat
    BY <1>1, <1>2, <1>3, <2>1, KindFacts, PlaceFacts DEF PlanInv
  <2> QED BY <2>2, FromType
<1> HIDE DEF t
<1>8. Len(played) + 1 <= Len(asked) /\ Matches /\ asked \in Seq(Request)
  <2>1. D[pos + 4] <= Len(asked)
    BY <1>2, <1>4, PlaceFacts DEF PlanInv
  <2> QED BY <1>3, <1>5, <2>1 DEF PlanInv, HostInv, HostTypes
<1>9. Matches' /\ Len(played') = Len(played) + 1
  <2>1. played' = Append(played, [id |-> Setting, time |-> t]) /\ asked' = asked
    BY <1>1, <1>6
  <2>2. Setting = asked[Len(played) + 1].id /\ t = asked[Len(played) + 1].release
    BY <1>3, <1>5
  <2> QED BY <1>7, <1>8, <2>1, <2>2, MatchesAppend
<1>10. Stands(E, R, D)'
  BY <1>1, <1>3, <1>4, <1>5, <1>6, <1>9 DEF Stands
<1>11. Planned(E, R, D, program', asked')
  BY <1>1, <1>2
<1> QED BY <1>9, <1>10, <1>11 DEF PlayInv

LEMMA GroupPlayed ==
  ASSUME PlanInv, PlayGroup
  PROVE  PlayInv' /\ Matches'
<1>1. /\ phase = "play" /\ left = 0 /\ pos <= Len(program) /\ program[pos].kind = "group"
      /\ UNCHANGED <<asked, program, phase, played>>
      /\ left' = program[pos].count /\ ready' = Release(program[pos].time) /\ pos' = pos + 1
  BY DEF PlayGroup, Playing, hostVars
<1>2. PICK E, R, D : Planned(E, R, D, program, asked) /\ Stands(E, R, D)
  BY <1>1 DEF PlanInv, PlayInv
<1>3. pos \in E /\ ready = R[pos] /\ Len(played) = D[pos]
  BY <1>1, <1>2, AtEntry
<1>4. program[pos].count \in Nat /\ program[pos].count >= 1 /\ From(R[pos], program[pos].time) \in Nat
  BY <1>1, <1>2, <1>3, EntryFacts DEF PlanInv
<1>5. Release(program[pos].time) = From(R[pos], program[pos].time)
  BY <1>3 DEF Release, From
<1>6. D[pos] \in Nat /\ pos \in Nat
  BY <1>2, <1>3, PlaceFacts DEF PlanInv
<1>7. Stands(E, R, D)'
  <2> DEFINE n == program[pos].count
             f == From(R[pos], program[pos].time)
             d == D[pos]
  <2>1. /\ left' = n /\ pos' = pos + 1 /\ ready' = f /\ Len(played') = d
        /\ n \in Nat /\ n >= 1 /\ f \in Nat /\ d \in Nat
    BY <1>1, <1>3, <1>4, <1>5, <1>6
  <2>2. n - n = 0 /\ n \in 1 .. n /\ pos + 1 + 0 = pos + 1 /\ f + 0 = f /\ d + 0 = d
    <3> HIDE DEF n, f, d
    <3> QED BY <1>6, <2>1
  <2>3. /\ pos <= Len(program') /\ program'[pos].kind = "group"
        /\ left' \in 1 .. program'[pos].count
        /\ pos' = pos + 1 + (program'[pos].count - left')
        /\ ready' = From(R[pos], program'[pos].time) + (program'[pos].count - left')
        /\ Len(played') = D[pos] + (program'[pos].count - left')
    <3>1. program' = program
      BY <1>1
    <3> QED BY <1>1, <2>1, <2>2, <3>1
  <2> QED BY <1>3, <2>3 DEF Stands
<1>8. Planned(E, R, D, program', asked')
  BY <1>1, <1>2
<1>9. Matches'
  BY <1>1 DEF PlanInv, Matches
<1> QED BY <1>7, <1>8, <1>9 DEF PlayInv

LEMMA PulsePlayed ==
  ASSUME PlanInv, PlayPulse
  PROVE  /\ PlayInv' /\ Matches'
         /\ Len(played) + 1 <= Len(asked)
         /\ Carries(program[pos], asked[Len(played) + 1]) /\ ready = asked[Len(played) + 1].release
<1>1. /\ phase = "play" /\ left > 0
      /\ UNCHANGED <<asked, program, phase>>
      /\ played' = Append(played, [id |-> program[pos].id, time |-> ready])
      /\ left' = left - 1
      /\ IF left = 1 THEN ready' = ready + Latency /\ pos' = pos + 1 + (pos % 2)
                     ELSE ready' = ready + 1 /\ pos' = pos + 1
  BY DEF PlayPulse, hostVars
<1>2. PICK E, R, D : Planned(E, R, D, program, asked) /\ Stands(E, R, D)
  BY <1>1 DEF PlanInv, PlayInv
<1>3. PICK g \in E :
       /\ g <= Len(program) /\ program[g].kind = "group"
       /\ left \in 1 .. program[g].count
       /\ pos = g + 1 + (program[g].count - left)
       /\ ready = From(R[g], program[g].time) + (program[g].count - left)
       /\ Len(played) = D[g] + (program[g].count - left)
  <2>1. left # 0
    BY <1>1
  <2> QED BY <1>2, <2>1 DEF Stands
<1> DEFINE n == program[g].count
           f == From(R[g], program[g].time)
           d == D[g]
           c == Closes(program, g)
           j == n - left + 1
<1>4. n \in Nat /\ n >= 1 /\ f \in Nat /\ c \in E /\ c = g + 1 + n + ((g + n) % 2)
      /\ EntryPlan(R, D, program, asked, g)
  BY <1>2, <1>3, EntryFacts DEF PlanInv
<1>5. g \in Nat /\ d \in Nat
  BY <1>2, PlaceFacts DEF PlanInv
<1>6. GroupPlan(R, D, program, asked, g)
  BY <1>3, <1>4 DEF EntryPlan
<1>7. /\ D[c] = d + n /\ R[c] = f + n - 1 + Latency
      /\ \A i \in 1 .. n : /\ Carries(program[g + i], asked[d + i])
                           /\ asked[d + i].release = f + i - 1
  BY <1>6 DEF GroupPlan
<1>8. D[c] <= Len(asked)
  BY <1>2, <1>4, PlaceFacts DEF PlanInv
<1>9. left \in 1 .. n /\ pos = g + 1 + (n - left) /\ ready = f + (n - left) /\ Len(played) = d + (n - left)
  BY <1>3
<1> HIDE DEF n, f, d, c
<1>10. j \in 1 .. n /\ left \in Nat /\ left >= 1 /\ pos = g + j /\ ready = f + j - 1 /\ Len(played) + 1 = d + j
       /\ j \in Nat /\ left = n - j + 1
  BY <1>4, <1>5, <1>9
<1> HIDE DEF j
<1>11. program[pos].id = asked[Len(played) + 1].id /\ ready = asked[Len(played) + 1].release
       /\ Carries(program[pos], asked[Len(played) + 1])
  BY <1>7, <1>10 DEF Carries
<1>12. Len(played) + 1 <= Len(asked) /\ Matches /\ asked \in Seq(Request) /\ Len(asked) \in Nat
       /\ Len(played) \in Nat
  <2>1. asked \in Seq(Request) /\ Len(asked) \in Nat
    BY ElementOf DEF PlanInv, HostInv, HostTypes
  <2>2. Len(played) + 1 <= Len(asked)
    <3> DEFINE la == Len(asked)
    <3>1. la \in Nat /\ d + n <= la
      BY <1>7, <1>8, <2>1
    <3>2. d + j <= d + n /\ d + j \in Nat /\ d + n \in Nat
      BY <1>4, <1>5, <1>10
    <3> HIDE DEF la
    <3>3. d + j <= la
      BY <3>1, <3>2
    <3> QED BY <1>10, <3>3 DEF la
  <2>3. Len(played) \in Nat
    BY ElementOf DEF PlanInv, Matches
  <2> QED BY <2>1, <2>2, <2>3 DEF PlanInv
<1>13. ready \in Nat /\ asked[Len(played) + 1].id \in Ids \cup {Setting}
  <2>1. Len(played) + 1 \in 1 .. Len(asked)
    BY <1>12
  <2>2. asked[Len(played) + 1] \in Request
    BY <1>12, <2>1, ElementOf
  <2> QED BY <2>2 DEF Request, PlanInv, TypeOK
<1>14. Matches' /\ Len(played') = Len(played) + 1
  <2>1. asked' = asked /\ played' = Append(played, [id |-> program[pos].id, time |-> ready])
    BY <1>1
  <2> QED BY <1>11, <1>12, <1>13, <2>1, MatchesAppend
<1>15. Stands(E, R, D)'
  <2>1. CASE left = 1
    <3>1. j = n
      BY <1>4, <1>10, <2>1
    <3>2. pos' = c
      <4>1. pos' = pos + 1 + (pos % 2)
        BY <1>1, <2>1
      <4>2. pos = g + n
        BY <1>10, <3>1
      <4>3. pos' = (g + n) + 1 + ((g + n) % 2)
        BY <4>1, <4>2
      <4>4. (g + n) % 2 \in 0 .. 1
        BY <1>4, <1>5
      <4> QED BY <1>4, <1>5, <4>3, <4>4
    <3>3. ready' = R[c]
      BY <1>1, <1>7, <1>10, <2>1, <3>1
    <3>4. Len(played') = D[c]
      BY <1>7, <1>10, <1>14, <3>1
    <3>5. left' = 0
      BY <1>1, <2>1
    <3> QED BY <1>4, <3>2, <3>3, <3>4, <3>5 DEF Stands
  <2>2. CASE left # 1
    <3>1. left' = left - 1 /\ ready' = ready + 1 /\ pos' = pos + 1
      BY <1>1, <2>2
    <3>2. /\ left' \in 1 .. n /\ pos' = g + 1 + (n - left') /\ ready' = f + (n - left')
          /\ Len(played') = d + (n - left')
      BY <1>4, <1>5, <1>9, <1>10, <1>12, <1>14, <2>2, <3>1
    <3>3. /\ g <= Len(program') /\ program'[g].kind = "group"
          /\ left' \in 1 .. program'[g].count
          /\ pos' = g + 1 + (program'[g].count - left')
          /\ ready' = From(R[g], program'[g].time) + (program'[g].count - left')
          /\ Len(played') = D[g] + (program'[g].count - left')
      <4>1. program' = program
        BY <1>1
      <4> QED BY <1>3, <3>2, <4>1 DEF n, f, d
    <3> QED BY <3>3 DEF Stands
  <2> QED BY <2>1, <2>2
<1>16. Planned(E, R, D, program', asked')
  BY <1>1, <1>2
<1> QED BY <1>11, <1>12, <1>14, <1>15, <1>16 DEF PlayInv

LEMMA PlanAligned ==
  ASSUME PlanInv
  PROVE  Aligned
<1> SUFFICES ASSUME phase = "play"
             PROVE  /\ left > 0 => pos <= Len(program)
                    /\ pos <= Len(program) =>
                         program[pos].kind \in IF left > 0 THEN {"pulse"} ELSE {"wait", "config", "group"}
  BY DEF Aligned
<1>1. PICK E, R, D : Planned(E, R, D, program, asked) /\ Stands(E, R, D)
  BY DEF PlanInv, PlayInv
<1>2. CASE left = 0
  <2>1. pos \in E
    BY <1>1, <1>2, AtEntry
  <2>2. pos <= Len(program) => program[pos].kind \in {"wait", "config", "group"}
    BY <1>1, <2>1, EntryFacts DEF PlanInv
  <2> QED BY <1>2, <2>2
<1>3. CASE left # 0
  <2>1. PICK g \in E :
       /\ g <= Len(program) /\ program[g].kind = "group"
       /\ left \in 1 .. program[g].count
       /\ pos = g + 1 + (program[g].count - left)
    BY <1>1, <1>3 DEF Stands
  <2> DEFINE n == program[g].count
             c == Closes(program, g)
             j == n - left + 1
             l == Len(program)
  <2>2. n \in Nat /\ n >= 1 /\ c \in E /\ c > g + n /\ EntryPlan(R, D, program, asked, g)
    BY <1>1, <2>1, EntryFacts DEF PlanInv
  <2>3. c \in Nat /\ c <= l + 1 /\ l \in Nat /\ g \in Nat
    BY <1>1, <2>2, PlaceFacts DEF PlanInv
  <2>4. GroupPlan(R, D, program, asked, g)
    BY <2>1, <2>2 DEF EntryPlan
  <2>5. \A i \in 1 .. n : program[g + i].kind = "pulse"
    BY <2>4 DEF GroupPlan, Carries
  <2>6. left \in 1 .. n /\ pos = g + 1 + (n - left)
    BY <2>1
  <2> HIDE DEF n, c, l
  <2>7. j \in 1 .. n /\ pos = g + j /\ left > 0
    BY <2>2, <2>3, <2>6
  <2>8. pos <= l
    BY <2>2, <2>3, <2>7
  <2> QED BY <2>5, <2>7, <2>8 DEF l
<1> QED BY <1>2, <1>3

LEMMA PlanIsPlayed == ASSUME PlanInv PROVE PlayedAsPlanned
<1>1. Aligned
  BY PlanAligned
<1> QED BY <1>1 DEF PlayedAsPlanned, PlanInv, Matches, ReadInv

LEMMA FilledStep ==
  ASSUME Orderly, WaitsSuffice, PlanInv, TypeOK', HostInv', NEW g \in Gaps,
         \/ \E a \in Ids, st \in Nat : addPlaybackPulse(time + g, st, a)
         \/ addPlaybackConfig(time + g) \/ sendPlaybackConfig(time + g)
         \/ addPlaybackFPGAConfig(time + g)
  PROVE  FillInv' /\ PlayInv' /\ ReadInv' /\ Matches'
<1>1. /\ phase = "fill" /\ phase' = phase
      /\ UNCHANGED <<pos, left, ready, played>>
  BY DEF addPlaybackPulse, addPlaybackConfig, sendPlaybackConfig, addPlaybackFPGAConfig, AddSetting, Call,
         playVars
<1>2. Filled /\ pos = 1 /\ left = 0 /\ ready = 0 /\ played = <<>> /\ TypeOK /\ HostInv
  BY <1>1 DEF PlanInv, FillInv
<1>3. Filled'
  <2>1. ASSUME NEW a \in Ids, NEW st \in Nat, addPlaybackPulse(time + g, st, a) PROVE Filled'
    <3>1. CASE Continues(time + g)
      BY <1>1, <1>2, <2>1, <3>1, ContinueFilled
    <3>2. CASE ~Continues(time + g)
      BY <1>1, <1>2, <2>1, <3>2, StartFilled
    <3> QED BY <3>1, <3>2
  <2>2. CASE addPlaybackConfig(time + g) \/ sendPlaybackConfig(time + g)
    BY <1>1, <1>2, <2>2, ConfigFilled
  <2>3. CASE addPlaybackFPGAConfig(time + g)
    BY <1>1, <1>2, <2>3, FPGAConfigFilled
  <2> QED BY <2>1, <2>2, <2>3
<1>4. Matches'
  <2>1. played' = <<>>
    BY <1>1, <1>2
  <2>2. \E x : asked' = Append(asked, x) /\ x \in Request
    <3>1. \E x : asked' = Append(asked, x)
      BY DEF addPlaybackPulse, continueGroup, startGroup, addPlaybackConfig, sendPlaybackConfig,
             addPlaybackFPGAConfig, AddSetting
    <3>3. asked \in Seq(Request) /\ asked' \in Seq(Request)
      BY <1>2 DEF HostInv, HostTypes
    <3>4. PICK x : asked' = Append(asked, x)
      BY <3>1
    <3>5. asked'[Len(asked) + 1] = x /\ Len(asked) + 1 \in 1 .. Len(asked')
      BY <3>3, <3>4
    <3> QED BY <3>3, <3>4, <3>5, ElementOf
  <2>3. Len(asked') \in Nat
    <3>1. asked \in Seq(Request)
      BY <1>2 DEF HostInv, HostTypes
    <3> QED BY <2>2, <3>1, Requested, ElementOf
  <2> QED BY <2>1, <2>3 DEF Matches
<1> QED BY <1>1, <1>2, <1>3, <1>4 DEF FillInv, PlayInv, ReadInv

LEMMA FlushFilled ==
  ASSUME PlanInv, flushPlaybackPulses
  PROVE  Filled'
<1> DEFINE b == playback_entry_buffer
<1>1. /\ phase = "fill" /\ program' = program \o b /\ b' = <<>> /\ last_group_start_in_buffer' = 0
      /\ UNCHANGED <<asked, time, last_playback_reltime>>
  BY DEF flushPlaybackPulses
<1>2. Filled /\ TypeOK
  BY <1>1 DEF PlanInv, FillInv
<1>3. Code \in Seq(Words) /\ Len(Code) % 2 = 0
  BY <1>2, CodeFacts DEF Filled
<1>4. program' = Code
  BY <1>1 DEF Code
<1>5. Code' = Code
  BY <1>1, <1>3, <1>4, ConcatEmptySeq DEF Code
<1>6. Through' = Through
  BY <1>1 DEF Through, Latest
<1>7. LastStart' = 0
  BY <1>1 DEF LastStart
<1>8. Reaches(Code, asked, Through, 0)
  BY <1>2, Weaken DEF Filled
<1> QED BY <1>1, <1>2, <1>3, <1>4, <1>5, <1>6, <1>7, <1>8 DEF Filled

LEMMA StartPlanned ==
  ASSUME PlanInv, startPlaybackTrace
  PROVE  PlayInv'
<1>1. /\ phase = "fill" /\ playback_entry_buffer = <<>> /\ phase' = "play"
      /\ UNCHANGED <<asked, program, pos, left, ready, played>>
  BY DEF startPlaybackTrace, playVars
<1>2. Filled /\ TypeOK /\ pos = 1 /\ left = 0 /\ ready = 0 /\ played = <<>>
  BY <1>1 DEF PlanInv, FillInv
<1>3. Code = program
  BY <1>1, <1>2, CodeFacts, ConcatEmptySeq DEF Code
<1>4. PICK E, R, D : Planned(E, R, D, program, asked)
  BY <1>2, <1>3 DEF Filled, Reaches
<1>5. 1 \in E /\ R[1] = 0 /\ D[1] = 0
  BY <1>4 DEF Planned
<1>6. Stands(E, R, D)'
  BY <1>1, <1>2, <1>5 DEF Stands
<1>7. Planned(E, R, D, program', asked')
  BY <1>1, <1>4
<1> QED BY <1>6, <1>7 DEF PlayInv

LEMMA AllPlayed ==
  ASSUME PlanInv, startTraceRead
  PROVE  Len(played) = Len(asked)
<1>1. phase = "play" /\ pos > Len(program) /\ left = 0
  BY DEF startTraceRead, Finished
<1>2. PICK E, R, D : Planned(E, R, D, program, asked) /\ Stands(E, R, D)
  BY <1>1 DEF PlanInv, PlayInv
<1>3. pos \in E /\ Len(played) = D[pos]
  BY <1>1, <1>2, AtEntry
<1>4. pos \in Nat /\ pos <= Len(program) + 1 /\ Len(program) \in Nat
  BY <1>2, <1>3, PlaceFacts DEF PlanInv
<1>5. pos = Len(program) + 1
  BY <1>1, <1>4
<1> QED BY <1>2, <1>3, <1>5 DEF Planned

LEMMA PlanStep ==
  ASSUME Orderly, WaitsSuffice, PlanInv, [Next]_vars, TypeOK', HostInv'
  PROVE  PlanInv'
<1> SUFFICES Matches' /\ FillInv' /\ PlayInv' /\ ReadInv'
  BY DEF PlanInv
<1>0. Matches /\ FillInv /\ PlayInv /\ ReadInv
  BY DEF PlanInv
<1>1. CASE \E g \in Gaps :
             \/ \E a \in Ids, st \in Nat : addPlaybackPulse(time + g, st, a)
             \/ addPlaybackConfig(time + g) \/ sendPlaybackConfig(time + g)
             \/ addPlaybackFPGAConfig(time + g)
  BY <1>1, FilledStep
<1>2. CASE flushPlaybackPulses
  <2>1. phase = "fill" /\ phase' = phase /\ UNCHANGED <<asked, pos, left, ready, played>>
    BY <1>2 DEF flushPlaybackPulses, playVars
  <2>2. Filled'
    BY <1>2, FlushFilled
  <2> QED BY <1>0, <2>1, <2>2 DEF Matches, FillInv, PlayInv, ReadInv
<1>3. CASE startPlaybackTrace
  <2>1. phase' = "play" /\ UNCHANGED <<asked, played>>
    BY <1>3 DEF startPlaybackTrace, playVars
  <2>2. PlayInv'
    BY <1>3, StartPlanned
  <2> QED BY <1>0, <2>1, <2>2 DEF Matches, FillInv, ReadInv
<1>4. CASE startTraceRead
  <2>1. phase' = "read" /\ UNCHANGED <<asked, played>>
    BY <1>4 DEF startTraceRead, hostVars, playVars
  <2>2. Len(played) = Len(asked)
    BY <1>4, AllPlayed
  <2> QED BY <1>0, <2>1, <2>2 DEF Matches, FillInv, PlayInv, ReadInv
<1>5. ASSUME UNCHANGED <<hostVars, program, phase, playVars>>
      PROVE  Matches' /\ FillInv' /\ PlayInv' /\ ReadInv'
  <2>1. UNCHANGED <<asked, program, phase, played, pos, left, ready>>
    BY <1>5 DEF hostVars, playVars
  <2>2. Matches'
    BY <1>0, <2>1 DEF Matches
  <2>3. FillInv'
    <3>1. Filled => Filled'
      BY <1>5 DEF Filled, hostVars, Code, Through, LastStart, Latest
    <3> QED BY <1>0, <2>1, <3>1 DEF FillInv
  <2>4. ReadInv'
    BY <1>0, <2>1 DEF ReadInv
  <2>5. ASSUME NEW E, NEW R, NEW D, Stands(E, R, D) PROVE Stands(E, R, D)'
    BY <2>1, <2>5 DEF Stands
  <2>6. PlayInv'
    BY <1>0, <2>1, <2>5 DEF PlayInv
  <2> QED BY <2>2, <2>3, <2>4, <2>6
<1>6. CASE fill_receive_buffer \/ RecordOverflow \/ UNCHANGED vars
  BY <1>5, <1>6 DEF fill_receive_buffer, RecordOverflow, vars
<1>7. CASE PlayWait \/ PlayConfig \/ PlayGroup \/ PlayPulse
  <2>1. phase = "play" /\ phase' = phase
    BY <1>7 DEF PlayWait, PlayConfig, PlayGroup, PlayPulse, Playing
  <2>2. PlayInv' /\ Matches'
    BY <1>7, WaitPlayed, ConfigPlayed, GroupPlayed, PulsePlayed
  <2> QED BY <2>1, <2>2 DEF FillInv, ReadInv
<1>8. CASE Host
  <2>1. time \in Nat
    BY DEF PlanInv, TypeOK
  <2> QED BY <1>1, <1>2, <1>3, <1>4, <1>6, <1>8, <2>1, HostCalls
<1> QED BY <1>6, <1>7, <1>8 DEF Next, FPGA

LEMMA PlanInit == ASSUME Init PROVE PlanInv
<1> USE SpikeAssumption
<1>1. TypeOK
  BY DEF Init, TypeOK
<1>2. HostInv
  BY DEF Init, HostInv, HostTypes, Paced
<1>3. Matches
  BY DEF Init, Matches
<1>4. phase = "fill"
  BY DEF Init
<1>5. Filled
  <2>1. Code = <<>> /\ Len(Code) = 0 /\ Len(program) % 2 = 0
    BY ConcatEmptySeq DEF Init, Code
  <2> DEFINE E == {1}
             Z == [i \in Nat |-> 0]
  <2>2. Planned(E, Z, Z, <<>>, <<>>)
    <3>1. Len(<<>>) = 0 /\ 0 + 1 = 1 /\ Z \in [Nat -> Nat] /\ Z[1] = 0
      OBVIOUS
    <3>2. E \in SUBSET (1 .. 0 + 1) /\ 1 \in E
      OBVIOUS
    <3>3. \A p \in E : Z[p] <= 0 /\ ~(p <= 0)
      OBVIOUS
    <3> HIDE DEF E, Z
    <3> QED BY <3>1, <3>2, <3>3 DEF Planned
  <2>3. Reaches(<<>>, <<>>, 0, 0)
    <3>1. Z[Len(<<>>) + 1] = 0
      OBVIOUS
    <3> HIDE DEF E, Z
    <3> QED BY <2>2, <3>1 DEF Reaches
  <2>4. Through = 0 /\ LastStart = 0 /\ asked = <<>> /\ last_playback_reltime = 0 /\ time = 0
    BY DEF Init, Through, LastStart
  <2>5. Epoch(0) = Epoch(0 + Latency)
    <3>1. Latency \in 0 .. Period - 1 /\ Latency = 0 * Period + Latency /\ 0 = 0 * Period + 0 /\ 0 \in 0 .. Period - 1
      OBVIOUS
    <3>2. Epoch(Latency) = 0
      BY <3>1, EpochIs
    <3>3. Epoch(0) = 0
      BY <3>1, EpochIs
    <3> QED BY <3>2, <3>3
  <2> QED BY <2>1, <2>3, <2>4, <2>5 DEF Filled
<1>6. FillInv /\ PlayInv /\ ReadInv
  BY <1>4, <1>5 DEF Init, FillInv, PlayInv, ReadInv
<1> QED BY <1>1, <1>2, <1>3, <1>6 DEF PlanInv

\* The FPGA, which sees times modulo its period and counts overflows only while
\* it waits, releases every pulse and every configuration packet at the time the
\* host planned, and finds an entry wherever it expects one
\* (host_al_controller.cpp:454-652). As long as no pause is longer than one wait
\* entry can count: addPlaybackPulse truncates it (:511-516).
THEOREM PlayedAsPlannedHolds ==
  ASSUME Orderly, WaitsSuffice
  PROVE  Spec => []PlayedAsPlanned
<1>1. Init => PlanInv
  BY PlanInit
<1>2. PlanInv /\ [Next]_vars /\ TypeOK' => PlanInv'
  <2> SUFFICES ASSUME PlanInv, [Next]_vars, TypeOK' PROVE PlanInv'
    OBVIOUS
  <2>1. HostInv'
    BY HostStep DEF PlanInv
  <2> QED BY <2>1, PlanStep
<1>3. PlanInv => PlayedAsPlanned
  BY PlanIsPlayed
<1> QED BY <1>1, <1>2, <1>3, TypeCorrect, PTL DEF Spec

-----------------------------------------------------------------------------
(* The pulses among what was asked for.                                    *)

\* A set of numbers has a least one.
LEMMA Least ==
  ASSUME NEW S \in SUBSET Nat, S # {}
  PROVE  \E c \in S : \A d \in S : c <= d
<1>1. PICK c \in S : \A d \in S : ~(<<d, c>> \in OpToRel(<, Nat))
  BY WFMin, NatLessThanWellFounded, Zenon
<1>2. ASSUME NEW d \in S PROVE c <= d
  <2>1. <<d, c>> \in Nat \X Nat
    BY SMT
  <2>2. <<d, c>> \notin {p \in Nat \X Nat : p[1] < p[2]}
    BY <1>1, Zenon DEF OpToRel
  <2>3. ~(<<d, c>>[1] < <<d, c>>[2])
    BY <2>1, <2>2
  <2> QED BY <2>3
<1> QED BY <1>2

\* The function Pulses is computed with.
Among(q, f) ==
  f = [n \in 0 .. Len(q) |->
         IF n = 0 THEN <<>>
         ELSE IF q[n].id = Setting THEN f[n - 1] ELSE Append(f[n - 1], q[n])]

\* The pulses among the first n that were asked for.
PulsesOf(n) == (CHOOSE f : Among(asked, f))[n]

LEMMA AmongExists ==
  ASSUME NEW q, Len(q) \in Nat
  PROVE  \E f : Among(q, f)
<1> DEFINE Step(f, n) == IF n = 0 THEN <<>>
                         ELSE IF q[n].id = Setting THEN f[n - 1] ELSE Append(f[n - 1], q[n])
           P(f, m) == f = [n \in 0 .. m |-> Step(f, n)]
           S == {m \in Nat : ~\E f : P(f, m)}
<1>1. S = {}
  <2> SUFFICES ASSUME S # {} PROVE FALSE
    OBVIOUS
  <2>1. PICK m \in S : \A d \in S : m <= d
    <3> HIDE DEF S
    <3>1. S \in SUBSET Nat
      BY DEF S
    <3> QED BY <3>1, Least
  <2>2. m \in Nat /\ ~\E f : P(f, m)
    BY <2>1
  <2>3. CASE m = 0
    <3> DEFINE g == [n \in 0 .. 0 |-> <<>>]
    <3>1. P(g, 0)
      <4>1. \A n \in 0 .. 0 : Step(g, n) = <<>>
        OBVIOUS
      <4> QED BY <4>1
    <3> QED BY <2>2, <2>3, <3>1
  <2>4. CASE m # 0
    <3>1. m - 1 \in Nat /\ m - 1 \notin S
      <4>1. m - 1 \in Nat /\ ~(m <= m - 1)
        BY <2>2, <2>4
      <4> HIDE DEF S
      <4> QED BY <2>1, <4>1
    <3>2. PICK f : P(f, m - 1)
      BY <3>1
    <3> DEFINE g == [n \in 0 .. m |-> IF n = m THEN Step(f, m) ELSE f[n]]
    <3>3. \A n \in 0 .. m - 1 : f[n] = Step(f, n)
      BY <3>2
    <3> HIDE DEF Step
    <3>4. ASSUME NEW n \in 0 .. m PROVE g[n] = Step(g, n)
      <4>1. n # 0 => g[n - 1] = f[n - 1]
        BY <2>2
      <4>2. Step(g, n) = Step(f, n)
        BY <4>1 DEF Step
      <4>3. n # m => n \in 0 .. m - 1
        BY <2>2
      <4> QED BY <3>3, <4>2, <4>3
    <3>5. g = [n \in 0 .. m |-> Step(g, n)]
      <4> DEFINE h == [n \in 0 .. m |-> Step(g, n)]
      <4>1. \A n \in 0 .. m : g[n] = h[n]
        <5> HIDE DEF g
        <5> QED BY <3>4
      <4> HIDE DEF h
      <4>2. h = [n \in 0 .. m |-> h[n]]
        BY DEF h
      <4>3. g = [n \in 0 .. m |-> g[n]]
        OBVIOUS
      <4> HIDE DEF g
      <4>4. [n \in 0 .. m |-> g[n]] = [n \in 0 .. m |-> h[n]]
        BY <4>1
      <4>5. g = h
        BY <4>2, <4>3, <4>4
      <4> QED BY <4>5 DEF h
    <3>6. P(g, m)
      BY <3>5
    <3> QED BY <2>2, <3>6
  <2> QED BY <2>3, <2>4
<1>2. \E f : P(f, Len(q))
  BY <1>1
<1> QED BY <1>2 DEF Among

LEMMA PulsesOfFacts ==
  ASSUME asked \in Seq(Request)
  PROVE  /\ PulsesOf(0) = <<>> /\ Pulses = PulsesOf(Len(asked))
         /\ \A n \in 1 .. Len(asked) :
              PulsesOf(n) = IF asked[n].id = Setting THEN PulsesOf(n - 1)
                                                     ELSE Append(PulsesOf(n - 1), asked[n])
<1>1. Len(asked) \in Nat
  BY ElementOf
<1> DEFINE f == CHOOSE f : Among(asked, f)
<1>2. Among(asked, f)
  BY <1>1, AmongExists
<1>3. Pulses = f[Len(asked)]
  BY DEF Pulses, Among
<1>4. \A n : PulsesOf(n) = f[n]
  BY DEF PulsesOf
<1> HIDE DEF f
<1>5. f = [n \in 0 .. Len(asked) |->
             IF n = 0 THEN <<>>
             ELSE IF asked[n].id = Setting THEN f[n - 1] ELSE Append(f[n - 1], asked[n])]
  BY <1>2 DEF Among
<1>6. \A n \in 0 .. Len(asked) :
        f[n] = IF n = 0 THEN <<>>
               ELSE IF asked[n].id = Setting THEN f[n - 1] ELSE Append(f[n - 1], asked[n])
  BY <1>5
<1>7. f[0] = <<>>
  BY <1>1, <1>6
<1>8. PulsesOf(0) = <<>> /\ Pulses = PulsesOf(Len(asked))
  BY <1>3, <1>4, <1>7
<1>9. ASSUME NEW n \in 1 .. Len(asked)
      PROVE  PulsesOf(n) = IF asked[n].id = Setting THEN PulsesOf(n - 1)
                                                     ELSE Append(PulsesOf(n - 1), asked[n])
  <2>1. n \in 0 .. Len(asked) /\ n # 0
    BY <1>1
  <2>2. f[n] = IF asked[n].id = Setting THEN f[n - 1] ELSE Append(f[n - 1], asked[n])
    BY <1>6, <2>1
  <2> QED BY <1>4, <2>2
<1> QED BY <1>8, <1>9

\* The function Expected is computed with.
Keeps(q, f) ==
  f = [n \in 0 .. Len(q) |->
         IF n = 0 THEN <<>>
         ELSE IF ReadAs(q[n]) < 0 \/ Repeats(f[n - 1], q[n]) THEN f[n - 1]
         ELSE Append(f[n - 1], [id |-> q[n].id, time |-> ReadAs(q[n])])]

\* What is to come out of the first n pulses.
KeptOf(n) == (CHOOSE f : Keeps(Pulses, f))[n]

LEMMA KeepsExists ==
  ASSUME NEW q, Len(q) \in Nat
  PROVE  \E f : Keeps(q, f)
<1> DEFINE Step(f, n) == IF n = 0 THEN <<>>
                         ELSE IF ReadAs(q[n]) < 0 \/ Repeats(f[n - 1], q[n]) THEN f[n - 1]
                         ELSE Append(f[n - 1], [id |-> q[n].id, time |-> ReadAs(q[n])])
           P(f, m) == f = [n \in 0 .. m |-> Step(f, n)]
           S == {m \in Nat : ~\E f : P(f, m)}
<1>1. S = {}
  <2> SUFFICES ASSUME S # {} PROVE FALSE
    OBVIOUS
  <2>1. PICK m \in S : \A d \in S : m <= d
    <3> HIDE DEF S
    <3>1. S \in SUBSET Nat
      BY DEF S
    <3> QED BY <3>1, Least
  <2>2. m \in Nat /\ ~\E f : P(f, m)
    BY <2>1
  <2>3. CASE m = 0
    <3> DEFINE g == [n \in 0 .. 0 |-> <<>>]
    <3>1. P(g, 0)
      <4>1. \A n \in 0 .. 0 : Step(g, n) = <<>>
        OBVIOUS
      <4> QED BY <4>1
    <3> QED BY <2>2, <2>3, <3>1
  <2>4. CASE m # 0
    <3>1. m - 1 \in Nat /\ m - 1 \notin S
      <4>1. m - 1 \in Nat /\ ~(m <= m - 1)
        BY <2>2, <2>4
      <4> HIDE DEF S
      <4> QED BY <2>1, <4>1
    <3>2. PICK f : P(f, m - 1)
      BY <3>1
    <3> DEFINE g == [n \in 0 .. m |-> IF n = m THEN Step(f, m) ELSE f[n]]
    <3>3. \A n \in 0 .. m - 1 : f[n] = Step(f, n)
      BY <3>2
    <3> HIDE DEF Step
    <3>4. ASSUME NEW n \in 0 .. m PROVE g[n] = Step(g, n)
      <4>1. n # 0 => g[n - 1] = f[n - 1]
        BY <2>2
      <4>2. Step(g, n) = Step(f, n)
        BY <4>1 DEF Step
      <4>3. n # m => n \in 0 .. m - 1
        BY <2>2
      <4> QED BY <3>3, <4>2, <4>3
    <3>5. g = [n \in 0 .. m |-> Step(g, n)]
      <4> DEFINE h == [n \in 0 .. m |-> Step(g, n)]
      <4>1. \A n \in 0 .. m : g[n] = h[n]
        <5> HIDE DEF g
        <5> QED BY <3>4
      <4> HIDE DEF h
      <4>2. h = [n \in 0 .. m |-> h[n]]
        BY DEF h
      <4>3. g = [n \in 0 .. m |-> g[n]]
        OBVIOUS
      <4> HIDE DEF g
      <4>4. [n \in 0 .. m |-> g[n]] = [n \in 0 .. m |-> h[n]]
        BY <4>1
      <4>5. g = h
        BY <4>2, <4>3, <4>4
      <4> QED BY <4>5 DEF h
    <3>6. P(g, m)
      BY <3>5
    <3> QED BY <2>2, <3>6
  <2> QED BY <2>3, <2>4
<1>2. \E f : P(f, Len(q))
  BY <1>1
<1> QED BY <1>2 DEF Keeps

LEMMA KeptOfFacts ==
  ASSUME Len(Pulses) \in Nat
  PROVE  /\ KeptOf(0) = <<>> /\ Expected = KeptOf(Len(Pulses))
         /\ \A n \in 1 .. Len(Pulses) :
              KeptOf(n) = IF ReadAs(Pulses[n]) < 0 \/ Repeats(KeptOf(n - 1), Pulses[n]) THEN KeptOf(n - 1)
                          ELSE Append(KeptOf(n - 1), [id |-> Pulses[n].id, time |-> ReadAs(Pulses[n])])
<1> DEFINE f == CHOOSE f : Keeps(Pulses, f)
<1>2. Keeps(Pulses, f)
  BY KeepsExists
<1>3. Expected = f[Len(Pulses)]
  BY DEF Expected, Keeps
<1>4. \A n : KeptOf(n) = f[n]
  BY DEF KeptOf
<1> HIDE DEF f
<1>5. \A n \in 0 .. Len(Pulses) :
        f[n] = IF n = 0 THEN <<>>
               ELSE IF ReadAs(Pulses[n]) < 0 \/ Repeats(f[n - 1], Pulses[n]) THEN f[n - 1]
               ELSE Append(f[n - 1], [id |-> Pulses[n].id, time |-> ReadAs(Pulses[n])])
  <2> DEFINE g(n) == IF n = 0 THEN <<>>
               ELSE IF ReadAs(Pulses[n]) < 0 \/ Repeats(f[n - 1], Pulses[n]) THEN f[n - 1]
               ELSE Append(f[n - 1], [id |-> Pulses[n].id, time |-> ReadAs(Pulses[n])])
  <2>1. f = [n \in 0 .. Len(Pulses) |-> g(n)]
    BY <1>2 DEF Keeps
  <2> HIDE DEF g
  <2>2. \A n \in 0 .. Len(Pulses) : f[n] = g(n)
    BY <2>1
  <2> QED BY <2>2 DEF g
<1>6. f[0] = <<>>
  <2>1. 0 \in 0 .. Len(Pulses)
    OBVIOUS
  <2> HIDE DEF KeptOf
  <2> QED BY <1>5, <2>1
<1>7. ASSUME NEW n \in 1 .. Len(Pulses) PROVE n \in 0 .. Len(Pulses) /\ n # 0
  OBVIOUS
<1> QED BY <1>3, <1>4, <1>5, <1>6, <1>7

\* What is to come out is decided by what was asked for.
LEMMA KeptKept ==
  ASSUME UNCHANGED <<asked, replacing>>
  PROVE  \A n : KeptOf(n)' = KeptOf(n)
BY DEF KeptOf, Keeps, Repeats, ReadAs, Recent, Stamped, Pulses

-----------------------------------------------------------------------------
(* Times in the trace.                                                     *)

HalfPeriod == Period \div 2
PulseAsked == [id : Ids, time : Nat, stamp : Nat, release : Nat]

LEMMA HalfFacts ==
  /\ HalfPeriod \in Nat \ {0} /\ Period = 2 * HalfPeriod
BY SpikeAssumption DEF HalfPeriod

\* A time is so many periods, perhaps half of one, and a rest.
LEMMA HalfOf ==
  ASSUME NEW t \in Nat
  PROVE  \E b \in 0 .. 1, d \in 0 .. HalfPeriod - 1 :
           /\ Half(t) = 2 * Epoch(t) + b
           /\ t = Epoch(t) * Period + b * HalfPeriod + d
           /\ t % Period = b * HalfPeriod + d
<1> DEFINE H == HalfPeriod
           e == Epoch(t)
           m == t % Period
           b == IF m >= H THEN 1 ELSE 0
           d == IF m >= H THEN m - H ELSE m
           z == e * Period
<1>1. H \in Nat \ {0} /\ Period = 2 * H
  BY HalfFacts
<1>2. e \in Nat /\ m \in 0 .. Period - 1 /\ t = z + m /\ z \in Nat
  BY EpochOf, EpochRange
<1>3. z = 2 * e * H
  BY <1>1, <1>2
<1> HIDE DEF H, e, m, z
<1>4. b \in 0 .. 1 /\ d \in 0 .. H - 1 /\ m = b * H + d
  BY <1>1, <1>2
<1> HIDE DEF b, d
<1>5. (2 * e + b) * H = 2 * e * H + b * H /\ b * H \in Nat
  BY <1>1, <1>2, <1>4
<1>6. t = (2 * e + b) * H + d /\ 2 * e + b \in Int
  BY <1>1, <1>2, <1>3, <1>4, <1>5
<1>7. t \div H = 2 * e + b
  BY <1>1, <1>2, <1>4, <1>6, DivModAre
<1>8. t = z + b * H + d
  BY <1>1, <1>2, <1>4, <1>5
<1> QED BY <1>4, <1>7, <1>8 DEF Half, HalfPeriod, H, m, e, z

LEMMA StampedFacts ==
  ASSUME replacing \in BOOLEAN, NEW x \in PulseAsked
  PROVE  Stamped(x) \in Nat
BY DEF Stamped, PulseAsked

\* Recent or not, a pulse is read as the time in the two halves up to its release
\* that has its timestamp.
LEMMA ReadAsIs ==
  ASSUME NEW x \in PulseAsked, NEW u \in Nat, Stamped(x) = u
  PROVE  LET f == (Half(x.release) - 1) * Period
         IN  f \in Int /\ ReadAs(x) = f + ((u - f) % (2 * Period))
<1> DEFINE h == Half(x.release)
           k == Half(u \div 2)
           v == u \div 2
           H == HalfPeriod
           P == Period
           f == (h - 1) * P
<1>1. H \in Nat \ {0} /\ P = 2 * H
  BY HalfFacts
<1>2. h \in Int
  <2>1. x.release \in Int
    BY DEF PulseAsked
  <2>2. x.release \div H \in Int
    <3> HIDE DEF H
    <3> QED BY <1>1, <2>1, DivMod
  <2> QED BY <2>2 DEF Half, HalfPeriod
<1>3. f \in Int
  <2> HIDE DEF h
  <2> QED BY <1>2, PeriodFacts
<1>4. CASE ~Recent(x)
  BY <1>3, <1>4 DEF ReadAs
<1>5. CASE Recent(x)
  <2>1. k = h - 1 \/ k = h
    BY <1>5 DEF Recent
  <2>2. v \in Int /\ u % 2 \in 0 .. 1 /\ u = v * 2 + (u % 2)
    <3>1. 2 \in Nat \ {0} /\ u \in Int
      OBVIOUS
    <3>2. u % 2 \in 0 .. 2 - 1 /\ v \in Int /\ u = v * 2 + (u % 2)
      BY <3>1, DivMod
    <3> QED BY <3>2
  <2>3. k \in Int /\ v = k * H + (v % H) /\ v % H \in 0 .. H - 1
    <3>1. v \div H \in Int /\ v = (v \div H) * H + (v % H) /\ v % H \in 0 .. H - 1
      <4> HIDE DEF v, H
      <4> QED BY <1>1, <2>2, DivMod
    <3>2. k = v \div H
      BY DEF Half, HalfPeriod
    <3> QED BY <3>1, <3>2
  <2> DEFINE a == u % 2
             b == v % H
  <2>4. a \in 0 .. 1 /\ b \in 0 .. H - 1 /\ u = v * 2 + a /\ v = k * H + b
    BY <2>2, <2>3
  <2>5. f = (h - 1) * P
    OBVIOUS
  <2> HIDE DEF a, b, v, k, h, f, H, P
  <2>6. (h - 1) * P = 2 * ((h - 1) * H) /\ h * H = (h - 1) * H + H /\ (h - 1) * H \in Int
    BY <1>1, <1>2
  <2>7. u = f + (2 * b + a) \/ u = f + P + (2 * b + a)
    <3> DEFINE W == (h - 1) * H
    <3>1. h * H = W + H /\ W \in Int /\ f = 2 * W
      BY <2>5, <2>6
    <3>2. k * H = W \/ k * H = W + H
      BY <2>1, <3>1
    <3> HIDE DEF W
    <3> DEFINE z == k * H
    <3>3. v = z + b /\ (z = W \/ z = W + H)
      BY <2>4, <3>2
    <3> HIDE DEF z
    <3> QED BY <1>1, <2>4, <3>1, <3>3
  <2>8. u - f \in 0 .. 2 * P - 1
    BY <1>1, <1>3, <2>4, <2>7
  <2>9. u - f = 0 * (2 * P) + (u - f) /\ 2 * P \in Nat \ {0} /\ u - f \in Int /\ 0 \in Int
    BY <1>1, <2>8
  <2>10. (u - f) % (2 * P) = u - f
    BY <2>8, <2>9, DivModAre
  <2>11. ReadAs(x) = u
    BY <1>5 DEF ReadAs
  <2>12. f + (u - f) = u
    BY <1>3
  <2>13. ReadAs(x) = f + ((u - f) % (2 * P))
    BY <2>10, <2>11, <2>12
  <2> QED BY <1>3, <2>13 DEF f, h, P
<1> QED BY <1>4, <1>5

-----------------------------------------------------------------------------
(* The trace.                                                              *)

TracedPulse == [kind : {"pulse"}, id : Ids, fpga_msb : BOOLEAN, stamp : Nat]
Entries     == [ov : BOOLEAN, pulses : {s \in Seq(TracedPulse) : Len(s) <= 2}]
Received    == [id : Ids, time : Nat]

\* The word of the trace for x, recorded after o overflows.
IsTraced(p, x, o) ==
  /\ p.id = x.id /\ (p.fpga_msb <=> x.release % Period >= HalfPeriod)
  /\ p.stamp = Stamped(x) % (2 * Period)
  /\ Epoch(x.release) = o

\* The entries hold the pulses of q, in order: A[j] of them and O[j] overflows
\* come before entry j.
Traces(A, O, tr, q) ==
  /\ A \in [Nat -> Nat] /\ O \in [Nat -> Nat]
  /\ \A j \in 1 .. Len(tr) + 1 : A[j] <= Len(q)
  /\ \A j \in 1 .. Len(tr) :
       /\ A[j + 1] = A[j] + Len(tr[j].pulses)
       /\ O[j + 1] = O[j] + (IF tr[j].ov THEN 1 ELSE 0)
       /\ \A i \in 1 .. Len(tr[j].pulses) : IsTraced(tr[j].pulses[i], q[A[j] + i], O[j])

\* With the pulse that waits, nothing is missing.
Waiting(a, q) ==
  /\ pending = None => Len(q) = a
  /\ pending # None => Len(q) = a + 1 /\ IsTraced(pending, q[Len(q)], overflows)

Out == PulsesOf(Len(played))

TraceTypes ==
  /\ trace \in Seq(Entries) /\ pending \in TracedPulse \cup {None}
  /\ recpulse_buffer \in Seq(Received)
  /\ Out \in Seq(PulseAsked)

Blank ==
  /\ trace = <<>> /\ pending = None /\ overflows = 0 /\ trace_overflow_count = 0 /\ recpulse_buffer = <<>>

\* Entry 1 is the next to be read.
Told(A, O) ==
  /\ Traces(A, O, trace, Out) /\ O[1] = trace_overflow_count /\ O[Len(trace) + 1] = overflows
  /\ Waiting(A[Len(trace) + 1], Out)
  /\ phase = "play" => A[1] = 0 /\ O[1] = 0
  /\ phase = "read" => pending = None /\ recpulse_buffer = KeptOf(A[1])

TraceInv ==
  /\ TraceTypes
  /\ phase = "fill" => Blank
  /\ phase # "fill" => \E A, O : Told(A, O)
  /\ phase = "play" => Finished \/ overflows * Period <= ready

\* The decoder finds the time that a pulse is to be read as from the count of
\* overflows, or that it lies before the start.
LEMMA TimeFound ==
  ASSUME TypeOK, NEW x \in PulseAsked, NEW p \in TracedPulse, IsTraced(p, x, trace_overflow_count)
  PROVE  /\ ReadAs(x) \in Int
         /\ IgnoredEarly(p) <=> ReadAs(x) < 0
         /\ ~IgnoredEarly(p) => IntTime(p) = ReadAs(x)
<1> DEFINE r == x.release
           o == trace_overflow_count
           P == Period
           H == HalfPeriod
           u == Stamped(x)
           m == p.stamp
           T == o * (2 * P)
<1>1. r \in Nat /\ o \in Nat /\ H \in Nat \ {0} /\ P = 2 * H /\ replacing \in BOOLEAN
  BY HalfFacts DEF PulseAsked, TypeOK
<1>2. u \in Nat
  BY <1>1, StampedFacts
<1>3. Epoch(r) = o /\ (p.fpga_msb <=> r % P >= H) /\ m = u % (2 * P)
  BY DEF IsTraced
<1>4. PICK c \in 0 .. 1, d \in 0 .. H - 1 : Half(r) = 2 * o + c /\ r % P = c * H + d
  <2> HIDE DEF r
  <2>1. \E c \in 0 .. 1, d \in 0 .. HalfPeriod - 1 :
           Half(r) = 2 * Epoch(r) + c /\ r % Period = c * HalfPeriod + d
    BY <1>1, HalfOf
  <2> QED BY <1>3, <2>1
<1>5. p.fpga_msb <=> c = 1
  <2> HIDE DEF r, H, P, o, m, u
  <2>1. c * H + d >= H <=> c = 1
    BY <1>1, <1>4
  <2> QED BY <1>3, <1>4, <2>1
<1> DEFINE f == (Half(r) - 1) * P
<1>6. f \in Int /\ ReadAs(x) = f + ((u - f) % (2 * P))
  BY <1>2, ReadAsIs
<1>7. f = T + c * P - P /\ T \in Nat /\ c * P \in Nat /\ 2 * P \in Nat \ {0}
  <2>1. f = ((2 * o + c) - 1) * P
    <3>1. Half(r) = 2 * o + c
      BY <1>4
    <3> QED BY <3>1, Zenon
  <2> HIDE DEF f, r, H, P, o, m, u
  <2>2. ((2 * o + c) - 1) * P = o * (2 * P) + c * P - P /\ o * (2 * P) \in Nat /\ c * P \in Nat
    BY <1>1
  <2> QED BY <1>1, <2>1, <2>2
<1> DEFINE e == u \div (2 * P)
           E == (e - o) * (2 * P)
<1>8. e \in Int /\ u = e * (2 * P) + m /\ m \in 0 .. 2 * P - 1
  <2> HIDE DEF e
  <2>1. u \div (2 * P) \in Int /\ u = (u \div (2 * P)) * (2 * P) + (u % (2 * P)) /\ u % (2 * P) \in 0 .. 2 * P - 1
    <3> DEFINE N == 2 * P
    <3>1. N \in Nat \ {0} /\ u \in Int
      BY <1>2, <1>7
    <3> HIDE DEF u, N
    <3>2. u \div N \in Int /\ u = (u \div N) * N + (u % N) /\ u % N \in 0 .. N - 1
      BY <3>1, DivMod
    <3> QED BY <3>2 DEF N
  <2> QED BY <1>3, <2>1 DEF e
<1>9. /\ BeforeOverflow(p) <=> c = 0 /\ m >= P
      /\ IntTime(p) = IF BeforeOverflow(p) /\ m + T >= 2 * P THEN (m + T) - 2 * P ELSE m + T
      /\ IgnoredEarly(p) <=> BeforeOverflow(p) /\ m + T < 2 * P
  <2>1. o * 2 * P = T
    <3> HIDE DEF o, P
    <3> QED BY <1>1
  <2>2. IntTime(p) = IF BeforeOverflow(p) /\ m + T >= 2 * P THEN (m + T) - 2 * P ELSE m + T
    <3> DEFINE t == m + o * 2 * P
    <3>1. t = m + T
      BY <2>1
    <3>2. IntTime(p) = IF BeforeOverflow(p) /\ t >= 2 * P THEN t - 2 * P ELSE t
      BY DEF IntTime
    <3> HIDE DEF t, T
    <3> QED BY <3>1, <3>2, Zenon
  <2>3. IgnoredEarly(p) <=> BeforeOverflow(p) /\ m + T < 2 * P
    BY <2>1 DEF IgnoredEarly
  <2>4. BeforeOverflow(p) <=> c = 0 /\ m >= P
    BY <1>4, <1>5 DEF BeforeOverflow
  <2> QED BY <2>2, <2>3, <2>4
<1> HIDE DEF f, r, H, P, o, m, u, T, e
<1>10. E \in Int /\ e * (2 * P) = E + T /\ u - f = E + (m - c * P + P)
  <2>1. E \in Int /\ e * (2 * P) = E + o * (2 * P)
    BY <1>1, <1>8
  <2> HIDE DEF E
  <2>2. u = E + T + m
    BY <1>8, <2>1 DEF T
  <2> QED BY <1>1, <1>7, <1>8, <2>1, <2>2 DEF T
<1>11. ASSUME NEW b \in 0 .. 1, NEW z \in 0 .. 2 * P - 1, m - c * P + P = b * (2 * P) + z
       PROVE  ReadAs(x) = T + c * P - P + z
  <2>1. u - f = (e - o + b) * (2 * P) + z
    <3>1. (e - o + b) * (2 * P) = E + b * (2 * P) /\ b * (2 * P) \in Int
      BY <1>1, <1>8
    <3> HIDE DEF E
    <3> QED BY <1>7, <1>8, <1>10, <1>11, <3>1
  <2>2. e - o + b \in Int /\ u - f \in Int
    BY <1>1, <1>2, <1>6, <1>8
  <2>3. (u - f) % (2 * P) = z
    BY <1>7, <2>1, <2>2, DivModAre
  <2> QED BY <1>6, <1>7, <2>3
<1> HIDE DEF E
<1>12. CASE c = 1
  <2>1. c * P = P
    BY <1>1, <1>12
  <2>2. m - c * P + P = 0 * (2 * P) + m
    BY <1>1, <1>8, <2>1
  <2>3. ReadAs(x) = T + m
    <3>1. ReadAs(x) = T + c * P - P + m
      BY <1>8, <1>11, <2>2
    <3> QED BY <1>1, <1>7, <1>8, <2>1, <3>1
  <2>4. ~BeforeOverflow(p)
    BY <1>9, <1>12
  <2> QED BY <1>7, <1>8, <1>9, <2>3, <2>4
<1>13. CASE c = 0 /\ m < P
  <2>1. c * P = 0
    BY <1>1, <1>13
  <2>2. m - c * P + P = 0 * (2 * P) + (m + P) /\ m + P \in 0 .. 2 * P - 1
    BY <1>1, <1>8, <1>13, <2>1
  <2>3. ReadAs(x) = T + m
    <3>1. ReadAs(x) = T + c * P - P + (m + P)
      BY <1>11, <2>2
    <3> QED BY <1>1, <1>7, <1>8, <2>1, <3>1
  <2>4. ~BeforeOverflow(p)
    BY <1>1, <1>8, <1>9, <1>13
  <2> QED BY <1>7, <1>8, <1>9, <2>3, <2>4
<1>14. CASE c = 0 /\ m >= P
  <2>1. c * P = 0
    BY <1>1, <1>14
  <2>2. m - c * P + P = 1 * (2 * P) + (m - P) /\ m - P \in 0 .. 2 * P - 1
    BY <1>1, <1>8, <1>14, <2>1
  <2>3. ReadAs(x) = T + m - 2 * P
    <3>1. ReadAs(x) = T + c * P - P + (m - P)
      BY <1>11, <2>2
    <3> QED BY <1>1, <1>7, <1>8, <2>1, <3>1
  <2>4. BeforeOverflow(p)
    BY <1>9, <1>14
  <2>5. m + T < 2 * P <=> ReadAs(x) < 0
    BY <1>1, <1>7, <1>8, <2>3
  <2>6. ReadAs(x) \in Int /\ (m + T) - 2 * P = T + m - 2 * P /\ (m + T >= 2 * P <=> ~(m + T < 2 * P))
    BY <1>1, <1>7, <1>8, <2>3
  <2> HIDE DEF BeforeOverflow
  <2> QED BY <1>9, <2>3, <2>4, <2>5, <2>6
<1>15. c = 1 \/ (c = 0 /\ m < P) \/ (c = 0 /\ m >= P)
  BY <1>1, <1>8
<1> QED BY <1>12, <1>13, <1>14, <1>15

LEMMA EntryType ==
  ASSUME NEW e \in Entries
  PROVE  /\ e.ov \in BOOLEAN /\ e.pulses \in Seq(TracedPulse) /\ Len(e.pulses) \in Nat /\ Len(e.pulses) <= 2
         /\ \A i \in 1 .. Len(e.pulses) : e.pulses[i] \in TracedPulse
<1>1. e.ov \in BOOLEAN /\ e.pulses \in Seq(TracedPulse) /\ Len(e.pulses) <= 2
  BY DEF Entries
<1> QED BY <1>1, ElementOf

\* The first entry is read.
LEMMA TracesTail ==
  ASSUME NEW tr \in Seq(Entries), tr # <<>>, NEW q \in Seq(PulseAsked), NEW A, NEW O, Traces(A, O, tr, q)
  PROVE  \E B, V : /\ Traces(B, V, Tail(tr), q)
                   /\ B[1] = A[1] + Len(Head(tr).pulses)
                   /\ V[1] = O[1] + (IF Head(tr).ov THEN 1 ELSE 0)
                   /\ B[Len(Tail(tr)) + 1] = A[Len(tr) + 1]
                   /\ V[Len(Tail(tr)) + 1] = O[Len(tr) + 1]
<1> DEFINE t == Tail(tr)
           B == [j \in Nat |-> A[j + 1]]
           V == [j \in Nat |-> O[j + 1]]
<1>1. Len(tr) \in Nat /\ Len(tr) >= 1 /\ Len(t) = Len(tr) - 1 /\ Head(tr) = tr[1]
      /\ \A j \in 1 .. Len(t) : t[j] = tr[j + 1]
  BY ElementOf
<1>2. A \in [Nat -> Nat] /\ O \in [Nat -> Nat]
  BY DEF Traces
<1>3. B \in [Nat -> Nat] /\ V \in [Nat -> Nat]
  <2>1. \A j \in Nat : j + 1 \in Nat
    OBVIOUS
  <2>2. \A j \in Nat : A[j + 1] \in Nat /\ O[j + 1] \in Nat
    BY <1>2, <2>1
  <2> QED BY <2>2
<1>4. \A j \in Nat : B[j] = A[j + 1] /\ V[j] = O[j + 1]
  OBVIOUS
<1> HIDE DEF t, B, V
<1>5. \A j \in 1 .. Len(t) + 1 : B[j] <= Len(q)
  <2> SUFFICES ASSUME NEW j \in 1 .. Len(t) + 1 PROVE B[j] <= Len(q)
    OBVIOUS
  <2>1. j + 1 \in 1 .. Len(tr) + 1 /\ j \in Nat
    BY <1>1
  <2> QED BY <1>4, <2>1 DEF Traces
<1>6. ASSUME NEW j \in 1 .. Len(t)
      PROVE  /\ B[j + 1] = B[j] + Len(t[j].pulses)
             /\ V[j + 1] = V[j] + (IF t[j].ov THEN 1 ELSE 0)
             /\ \A i \in 1 .. Len(t[j].pulses) : IsTraced(t[j].pulses[i], q[B[j] + i], V[j])
  <2>1. j + 1 \in 1 .. Len(tr) /\ j \in Nat /\ j + 1 \in Nat /\ t[j] = tr[j + 1]
    BY <1>1
  <2>2. /\ A[(j + 1) + 1] = A[j + 1] + Len(tr[j + 1].pulses)
        /\ O[(j + 1) + 1] = O[j + 1] + (IF tr[j + 1].ov THEN 1 ELSE 0)
        /\ \A i \in 1 .. Len(tr[j + 1].pulses) : IsTraced(tr[j + 1].pulses[i], q[A[j + 1] + i], O[j + 1])
    BY <2>1 DEF Traces
  <2> QED BY <1>4, <2>1, <2>2
<1>7. Traces(B, V, t, q)
  BY <1>3, <1>5, <1>6 DEF Traces
<1>8. 1 \in 1 .. Len(tr) /\ 1 \in Nat /\ Len(t) + 1 \in Nat /\ (Len(t) + 1) + 1 = Len(tr) + 1
  BY <1>1
<1>9. B[1] = A[1] + Len(Head(tr).pulses) /\ V[1] = O[1] + (IF Head(tr).ov THEN 1 ELSE 0)
  <2>1. A[1 + 1] = A[1] + Len(tr[1].pulses) /\ O[1 + 1] = O[1] + (IF tr[1].ov THEN 1 ELSE 0)
    BY <1>8 DEF Traces
  <2> QED BY <1>1, <1>4, <1>8, <2>1
<1>10. B[Len(t) + 1] = A[Len(tr) + 1] /\ V[Len(t) + 1] = O[Len(tr) + 1]
  <2>1. B[Len(t) + 1] = A[(Len(t) + 1) + 1] /\ V[Len(t) + 1] = O[(Len(t) + 1) + 1]
    BY <1>4, <1>8
  <2> QED BY <1>8, <2>1
<1> QED BY <1>7, <1>9, <1>10 DEF t

LEMMA TracesKept ==
  ASSUME NEW tr \in Seq(Entries), NEW q \in Seq(PulseAsked), NEW A, NEW O, Traces(A, O, tr, q),
         NEW q2 \in Seq(PulseAsked), Extends(q2, q)
  PROVE  Traces(A, O, tr, q2)
<1>1. /\ A \in [Nat -> Nat] /\ O \in [Nat -> Nat]
      /\ Len(q) \in Nat /\ Len(q2) \in Nat /\ Len(q) <= Len(q2) /\ Len(tr) \in Nat
  BY ElementOf DEF Traces, Extends
<1>2. ASSUME NEW j \in 1 .. Len(tr) + 1 PROVE A[j] <= Len(q2)
  <2>1. A[j] <= Len(q) /\ j \in Nat
    BY <1>1 DEF Traces
  <2>2. A[j] \in Nat
    BY <1>1, <2>1
  <2> QED BY <1>1, <2>1, <2>2
<1>3. ASSUME NEW j \in 1 .. Len(tr), NEW i \in 1 .. Len(tr[j].pulses)
      PROVE  IsTraced(tr[j].pulses[i], q2[A[j] + i], O[j])
  <2>1. A[j + 1] = A[j] + Len(tr[j].pulses) /\ IsTraced(tr[j].pulses[i], q[A[j] + i], O[j])
    BY <1>3 DEF Traces
  <2>2. j + 1 \in 1 .. Len(tr) + 1 /\ j \in Nat
    BY <1>1
  <2>3. A[j + 1] <= Len(q) /\ A[j] \in Nat
    BY <1>1, <2>2 DEF Traces
  <2>4. Len(tr[j].pulses) \in Nat
    BY ElementOf, EntryType
  <2>5. A[j] + i \in 1 .. Len(q)
    <3> DEFINE a == A[j]
               n == Len(tr[j].pulses)
               l == Len(q)
    <3>1. a \in Nat /\ n \in Nat /\ l \in Nat /\ a + n <= l /\ i \in 1 .. n
      BY <1>1, <2>1, <2>3, <2>4
    <3> HIDE DEF a, n, l
    <3>2. a + i \in 1 .. l
      BY <3>1
    <3> QED BY <3>2 DEF a, l
  <2> QED BY <2>1, <2>5 DEF Extends
<1> QED BY <1>1, <1>2, <1>3 DEF Traces

\* One more entry.
LEMMA TracesMore ==
  ASSUME NEW tr \in Seq(Entries), NEW q \in Seq(PulseAsked), NEW A, NEW O, Traces(A, O, tr, q),
         NEW e \in Entries, A[Len(tr) + 1] + Len(e.pulses) <= Len(q),
         \A i \in 1 .. Len(e.pulses) : IsTraced(e.pulses[i], q[A[Len(tr) + 1] + i], O[Len(tr) + 1])
  PROVE  \E B, V : /\ Traces(B, V, Append(tr, e), q) /\ B[1] = A[1] /\ V[1] = O[1]
                   /\ B[Len(Append(tr, e)) + 1] = A[Len(tr) + 1] + Len(e.pulses)
                   /\ V[Len(Append(tr, e)) + 1] = O[Len(tr) + 1] + (IF e.ov THEN 1 ELSE 0)
<1> DEFINE t == Append(tr, e)
           n == Len(tr) + 1
           b == A[n] + Len(e.pulses)
           v == O[n] + (IF e.ov THEN 1 ELSE 0)
           B == [A EXCEPT ![n + 1] = b]
           V == [O EXCEPT ![n + 1] = v]
<1>1. /\ A \in [Nat -> Nat] /\ O \in [Nat -> Nat] /\ n \in Nat /\ n >= 1 /\ n + 1 \in Nat
      /\ Len(t) = n /\ t[n] = e /\ \A j \in 1 .. n - 1 : t[j] = tr[j]
  <2>1. A \in [Nat -> Nat] /\ O \in [Nat -> Nat]
    BY DEF Traces
  <2>2. Len(tr) \in Nat
    BY ElementOf
  <2>3. Len(t) = Len(tr) + 1 /\ t[Len(tr) + 1] = e /\ \A j \in 1 .. Len(tr) : t[j] = tr[j]
    OBVIOUS
  <2> HIDE DEF t
  <2>4. n \in Nat /\ n >= 1 /\ n + 1 \in Nat /\ Len(tr) = n - 1
    BY <2>2
  <2>5. \A j \in 1 .. n - 1 : t[j] = tr[j]
    <3> HIDE DEF n
    <3> QED BY <2>3, <2>4
  <2>6. Len(t) = n /\ t[n] = e
    BY <2>3
  <2> QED BY <2>1, <2>4, <2>5, <2>6
<1>2. b \in Nat /\ v \in Nat
  <2>1. A[n] \in Nat /\ O[n] \in Nat
    <3> HIDE DEF n
    <3> QED BY <1>1
  <2> QED BY <2>1, EntryType
<1>3. /\ B \in [Nat -> Nat] /\ V \in [Nat -> Nat] /\ B[n + 1] = b /\ V[n + 1] = v
      /\ \A j \in 1 .. n : B[j] = A[j] /\ V[j] = O[j]
  <2> HIDE DEF n, b, v, t
  <2>1. n + 1 \in Nat /\ n \in Nat
    BY <1>1
  <2>2. B \in [Nat -> Nat] /\ V \in [Nat -> Nat]
    BY <1>1, <1>2, <2>1
  <2>3. B[n + 1] = b /\ V[n + 1] = v
    BY <1>1, <2>1
  <2>4. \A j \in 1 .. n : j \in Nat /\ j # n + 1
    BY <2>1
  <2>5. \A j \in 1 .. n : B[j] = A[j] /\ V[j] = O[j]
    BY <1>1, <2>4
  <2> QED BY <2>2, <2>3, <2>5
<1>4. Len(tr) = n - 1
  BY <1>1
<1>5. b <= Len(q)
  OBVIOUS
<1>6. /\ \A j \in 1 .. (n - 1) + 1 : A[j] <= Len(q)
      /\ \A j \in 1 .. n - 1 :
          /\ A[j + 1] = A[j] + Len(tr[j].pulses)
          /\ O[j + 1] = O[j] + (IF tr[j].ov THEN 1 ELSE 0)
          /\ \A i \in 1 .. Len(tr[j].pulses) : IsTraced(tr[j].pulses[i], q[A[j] + i], O[j])
  <2> HIDE DEF n
  <2> QED BY <1>4 DEF Traces
<1>7. \A i \in 1 .. Len(e.pulses) : IsTraced(e.pulses[i], q[A[n] + i], O[n])
  OBVIOUS
<1>8. b = A[n] + Len(e.pulses) /\ v = O[n] + (IF e.ov THEN 1 ELSE 0)
  OBVIOUS
<1> HIDE DEF t, n, b, v, B, V
<1>9. ASSUME NEW j \in 1 .. Len(t) + 1 PROVE B[j] <= Len(q)
  <2>1. CASE j = n + 1
    BY <1>3, <1>5, <2>1
  <2>2. CASE j # n + 1
    <3>0. j \in 1 .. n + 1
      BY <1>1
    <3>1. j \in 1 .. n /\ j \in 1 .. (n - 1) + 1
      BY <1>1, <2>2, <3>0
    <3> QED BY <1>3, <1>6, <3>1
  <2> QED BY <2>1, <2>2
<1>10. ASSUME NEW j \in 1 .. Len(t)
       PROVE  /\ B[j + 1] = B[j] + Len(t[j].pulses)
              /\ V[j + 1] = V[j] + (IF t[j].ov THEN 1 ELSE 0)
              /\ \A i \in 1 .. Len(t[j].pulses) : IsTraced(t[j].pulses[i], q[B[j] + i], V[j])
  <2>1. CASE j = n
    <3>1. B[j] = A[n] /\ V[j] = O[n] /\ B[j + 1] = b /\ V[j + 1] = v /\ t[j] = e
      BY <1>1, <1>3, <2>1
    <3> QED BY <1>7, <1>8, <3>1
  <2>2. CASE j # n
    <3>0. j \in 1 .. n
      BY <1>1
    <3>1. j \in 1 .. n - 1 /\ j \in 1 .. n /\ j + 1 \in 1 .. n
      BY <1>1, <2>2, <3>0
    <3>2. B[j] = A[j] /\ V[j] = O[j] /\ B[j + 1] = A[j + 1] /\ V[j + 1] = O[j + 1] /\ t[j] = tr[j]
      BY <1>1, <1>3, <3>1
    <3> QED BY <1>6, <3>1, <3>2
  <2> QED BY <2>1, <2>2
<1>11. Traces(B, V, t, q)
  BY <1>3, <1>9, <1>10 DEF Traces
<1>12. B[1] = A[1] /\ V[1] = O[1] /\ B[Len(t) + 1] = b /\ V[Len(t) + 1] = v
  <2>1. 1 \in 1 .. n
    BY <1>1
  <2> QED BY <1>1, <1>3, <2>1
<1> QED BY <1>11, <1>12, <1>8 DEF t, n

\* The next pulse of the trace adds what is to come out of it.
LEMMA DecodedNext ==
  ASSUME TypeOK, Pulses \in Seq(PulseAsked),
         NEW k \in 1 .. Len(Pulses), NEW p \in TracedPulse,
         IsTraced(p, Pulses[k], trace_overflow_count),
         NEW rec \in Seq(Received), rec = KeptOf(k - 1)
  PROVE  Decoded(rec, p) = KeptOf(k)
<1> DEFINE x == Pulses[k]
           t == ReadAs(x)
<1>1. x \in PulseAsked /\ Len(Pulses) \in Nat
  BY ElementOf
<1>2. t \in Int /\ (IgnoredEarly(p) <=> t < 0) /\ (~IgnoredEarly(p) => IntTime(p) = t)
  BY <1>1, TimeFound
<1>3. p.id = x.id
  BY DEF IsTraced
<1>4. KeptOf(k) = IF t < 0 \/ Repeats(rec, x) THEN rec ELSE Append(rec, [id |-> x.id, time |-> t])
  BY <1>1, KeptOfFacts
<1>5. ~IgnoredEarly(p) => (ReceivedTwice(rec, p) <=> Repeats(rec, x))
  <2> SUFFICES ASSUME ~IgnoredEarly(p) PROVE ReceivedTwice(rec, p) <=> Repeats(rec, x)
    OBVIOUS
  <2>1. IntTime(p) = t
    BY <1>2
  <2>2. CASE rec = <<>>
    BY <2>2 DEF ReceivedTwice, Repeats
  <2>3. CASE rec # <<>>
    <3> DEFINE b == rec[Len(rec)]
               y == b.time
    <3>1. y \in Nat
      <4>1. Len(rec) \in Nat /\ Len(rec) # 0
        BY <2>3, ElementOf
      <4>2. Len(rec) \in 1 .. Len(rec)
        BY <4>1
      <4>3. b \in Received
        BY <4>2, ElementOf
      <4> QED BY <4>3 DEF Received
    <3>2. ReceivedTwice(rec, p) <=> b.id = x.id /\ t \in {y, y + 2 * Period}
      BY <1>3, <2>1, <2>3 DEF ReceivedTwice
    <3>3. Repeats(rec, x) <=> b.id = x.id /\ t - y \in {0, 2 * Period}
      BY <2>3 DEF Repeats
    <3> HIDE DEF t, y, b
    <3>4. t \in {y, y + 2 * Period} <=> t - y \in {0, 2 * Period}
      BY <1>2, <3>1, PeriodFacts
    <3> QED BY <3>2, <3>3, <3>4
  <2> QED BY <2>2, <2>3
<1> HIDE DEF t, x
<1>6. CASE IgnoredEarly(p)
  BY <1>2, <1>4, <1>6 DEF Decoded
<1>7. CASE ~IgnoredEarly(p)
  <2>1. [id |-> p.id, time |-> IntTime(p)] = [id |-> x.id, time |-> t]
    BY <1>2, <1>3, <1>7
  <2> QED BY <1>2, <1>4, <1>5, <1>7, <2>1 DEF Decoded
<1> QED BY <1>6, <1>7

LEMMA DecodedSeq ==
  ASSUME TypeOK, NEW rec \in Seq(Received), NEW p \in TracedPulse
  PROVE  Decoded(rec, p) \in Seq(Received)
<1>1. p.id \in Ids /\ p.stamp \in Nat
  BY DEF TracedPulse
<1>2. IntTime(p) \in Nat
  <2> DEFINE z == trace_overflow_count * 2 * Period
             t == p.stamp + z
  <2>1. z \in Nat /\ 2 * Period \in Nat
    BY PeriodFacts DEF TypeOK
  <2> HIDE DEF z
  <2>2. t \in Nat
    BY <1>1, <2>1
  <2> HIDE DEF t
  <2>3. t >= 2 * Period => t - 2 * Period \in Nat
    BY <2>1, <2>2
  <2>4. IntTime(p) = IF BeforeOverflow(p) /\ t >= 2 * Period THEN t - 2 * Period ELSE t
    BY DEF IntTime, t, z
  <2> HIDE DEF BeforeOverflow
  <2> QED BY <2>2, <2>3, <2>4
<1>3. [id |-> p.id, time |-> IntTime(p)] \in Received
  BY <1>1, <1>2 DEF Received
<1> QED BY <1>3 DEF Decoded

LEMMA UpToTwo == ASSUME NEW n \in Nat, n <= 2 PROVE n = 0 \/ n = 1 \/ n = 2
OBVIOUS

LEMMA EntryDecoded ==
  ASSUME TypeOK, NEW e \in Entries, recpulse_buffer \in Seq(Received)
  PROVE  DecodedAll(e.pulses) \in Seq(Received)
<1> DEFINE ps == e.pulses
<1>1. Len(ps) \in Nat /\ Len(ps) <= 2 /\ \A i \in 1 .. Len(ps) : ps[i] \in TracedPulse
  BY EntryType
<1> HIDE DEF ps
<1>2. Len(ps) = 0 \/ Len(ps) = 1 \/ Len(ps) = 2
  BY <1>1, UpToTwo
<1>3. CASE Len(ps) = 0
  <2>1. DecodedAll(ps) = recpulse_buffer
    BY <1>3 DEF DecodedAll
  <2> QED BY <2>1 DEF ps
<1>4. CASE Len(ps) = 1
  <2>1. DecodedAll(ps) = Decoded(recpulse_buffer, ps[1])
    BY <1>4 DEF DecodedAll
  <2>2. ps[1] \in TracedPulse
    BY <1>1, <1>4
  <2> QED BY <2>1, <2>2, DecodedSeq DEF ps
<1>5. CASE Len(ps) = 2
  <2>1. DecodedAll(ps) = Decoded(Decoded(recpulse_buffer, ps[1]), ps[2])
    BY <1>5 DEF DecodedAll
  <2>2. ps[1] \in TracedPulse /\ ps[2] \in TracedPulse
    BY <1>1, <1>5
  <2>3. Decoded(recpulse_buffer, ps[1]) \in Seq(Received)
    BY <2>2, DecodedSeq
  <2> QED BY <2>1, <2>2, <2>3, DecodedSeq DEF ps
<1> QED BY <1>2, <1>3, <1>4, <1>5

\* An entry adds what is to come out of the pulses it holds.
LEMMA EntryKeeps ==
  ASSUME TypeOK, Pulses \in Seq(PulseAsked), NEW e \in Entries, NEW a \in Nat,
         a + Len(e.pulses) <= Len(Pulses),
         \A i \in 1 .. Len(e.pulses) : IsTraced(e.pulses[i], Pulses[a + i], trace_overflow_count),
         recpulse_buffer \in Seq(Received), recpulse_buffer = KeptOf(a)
  PROVE  DecodedAll(e.pulses) = KeptOf(a + Len(e.pulses))
<1> DEFINE ps == e.pulses
<1>1. Len(ps) \in Nat /\ Len(ps) <= 2 /\ \A i \in 1 .. Len(ps) : ps[i] \in TracedPulse
  BY EntryType
<1>1a. a + Len(ps) <= Len(Pulses) /\ Len(Pulses) \in Nat
       /\ \A i \in 1 .. Len(ps) : IsTraced(ps[i], Pulses[a + i], trace_overflow_count)
  BY ElementOf
<1> SUFFICES DecodedAll(ps) = KeptOf(a + Len(ps))
  OBVIOUS
<1> HIDE DEF ps
<1>2. Len(ps) = 0 \/ Len(ps) = 1 \/ Len(ps) = 2
  BY <1>1, UpToTwo
<1>3. CASE Len(ps) = 0
  <2>1. DecodedAll(ps) = recpulse_buffer
    BY <1>3 DEF DecodedAll
  <2>2. a + Len(ps) = a
    BY <1>3
  <2> QED BY <2>1, <2>2
<1>4. ASSUME Len(ps) >= 1
      PROVE  /\ Decoded(recpulse_buffer, ps[1]) \in Seq(Received)
             /\ Decoded(recpulse_buffer, ps[1]) = KeptOf(a + 1)
  <2>1. 1 \in 1 .. Len(ps)
    BY <1>1, <1>4
  <2>2. ps[1] \in TracedPulse /\ IsTraced(ps[1], Pulses[a + 1], trace_overflow_count)
    BY <1>1, <1>1a, <2>1
  <2>3. a + 1 \in 1 .. Len(Pulses) /\ (a + 1) - 1 = a
    BY <1>1, <1>1a, <1>4
  <2>4. recpulse_buffer = KeptOf((a + 1) - 1)
    BY <2>3
  <2> QED BY <2>2, <2>3, <2>4, DecodedNext, DecodedSeq
<1>5. CASE Len(ps) = 1
  <2>1. DecodedAll(ps) = Decoded(recpulse_buffer, ps[1])
    BY <1>5 DEF DecodedAll
  <2>2. a + Len(ps) = a + 1 /\ Len(ps) >= 1
    BY <1>5
  <2> QED BY <1>4, <2>1, <2>2
<1>6. CASE Len(ps) = 2
  <2> DEFINE rec == Decoded(recpulse_buffer, ps[1])
  <2>1. DecodedAll(ps) = Decoded(rec, ps[2])
    BY <1>6 DEF DecodedAll
  <2>2. rec \in Seq(Received) /\ rec = KeptOf(a + 1)
    BY <1>4, <1>6
  <2> HIDE DEF rec
  <2>3. 2 \in 1 .. Len(ps)
    BY <1>6
  <2>4. ps[2] \in TracedPulse /\ IsTraced(ps[2], Pulses[a + 2], trace_overflow_count)
    BY <1>1, <1>1a, <2>3
  <2>5. a + 2 \in 1 .. Len(Pulses) /\ (a + 2) - 1 = a + 1 /\ a + Len(ps) = a + 2
    BY <1>1a, <1>6
  <2>6. rec = KeptOf((a + 2) - 1)
    BY <2>2, <2>5
  <2>7. Decoded(rec, ps[2]) = KeptOf(a + 2)
    BY <2>2, <2>4, <2>5, <2>6, DecodedNext
  <2> QED BY <2>1, <2>5, <2>7
<1> QED BY <1>2, <1>3, <1>5, <1>6

\* All was released: what comes back are all pulses asked for.
LEMMA OutAll ==
  ASSUME PlanInv, phase = "read"
  PROVE  Out = Pulses
<1>1. Len(played) = Len(asked) /\ asked \in Seq(Request)
  BY DEF PlanInv, ReadInv, HostInv, HostTypes
<1> QED BY <1>1, PulsesOfFacts DEF Out

LEMMA OutKept ==
  ASSUME UNCHANGED <<asked, played>>
  PROVE  Out' = Out
BY DEF Out, PulsesOf

LEMMA ReadStep ==
  ASSUME PlanInv, TraceInv, fill_receive_buffer
  PROVE  TraceInv'
<1>1. /\ phase = "read" /\ trace # <<>> /\ phase' = phase
      /\ UNCHANGED <<asked, played, replacing, overflows, pending>>
      /\ recpulse_buffer' = DecodedAll(Head(trace).pulses)
      /\ trace_overflow_count' = trace_overflow_count + (IF Head(trace).ov THEN 1 ELSE 0)
      /\ trace' = Tail(trace)
  BY DEF fill_receive_buffer, hostVars, playVars
<1>2. TypeOK /\ TraceTypes
  BY DEF PlanInv, TraceInv
<1>3. Out' = Out /\ Out = Pulses
  BY <1>1, OutKept, OutAll
<1>4. Head(trace) \in Entries /\ Tail(trace) \in Seq(Entries) /\ Head(trace) = trace[1] /\ 1 \in 1 .. Len(trace)
  BY <1>1, <1>2, ElementOf DEF TraceTypes
<1>5. TraceTypes'
  <2>1. DecodedAll(Head(trace).pulses) \in Seq(Received)
    BY <1>2, <1>4, EntryDecoded DEF TraceTypes
  <2> QED BY <1>1, <1>2, <1>3, <1>4, <2>1 DEF TraceTypes
<1>6. PICK A, O : Told(A, O)
  BY <1>1 DEF TraceInv
<1>7. Out \in Seq(PulseAsked) /\ trace \in Seq(Entries)
  BY <1>2 DEF TraceTypes
<1>8. PICK B, V : /\ Traces(B, V, Tail(trace), Out)
                  /\ B[1] = A[1] + Len(Head(trace).pulses)
                  /\ V[1] = O[1] + (IF Head(trace).ov THEN 1 ELSE 0)
                  /\ B[Len(Tail(trace)) + 1] = A[Len(trace) + 1]
                  /\ V[Len(Tail(trace)) + 1] = O[Len(trace) + 1]
  BY <1>1, <1>6, <1>7, TracesTail DEF Told
<1>9. ASSUME NEW p, NEW x, NEW o, IsTraced(p, x, o) PROVE IsTraced(p, x, o)'
  BY <1>1, <1>9 DEF IsTraced, Stamped
<1>10. Traces(B, V, trace, Out)'
  BY <1>1, <1>3, <1>8, <1>9 DEF Traces
<1>11. O[1] = trace_overflow_count /\ O[Len(trace) + 1] = overflows /\ Waiting(A[Len(trace) + 1], Out)
       /\ pending = None /\ recpulse_buffer = KeptOf(A[1])
  BY <1>1, <1>6 DEF Told
<1>12. V[1] = trace_overflow_count' /\ V[Len(trace') + 1] = overflows'
  BY <1>1, <1>8, <1>11
<1>13. Waiting(B[Len(trace) + 1], Out)'
  <2>1. B[Len(trace') + 1] = A[Len(trace) + 1]
    BY <1>1, <1>8
  <2> QED BY <1>1, <1>3, <1>11, <2>1 DEF Waiting
<1>16. DecodedAll(Head(trace).pulses) = KeptOf(B[1])
  <2> DEFINE e == Head(trace)
  <2>1. e \in Entries
    BY <1>4
  <2>2. A \in [Nat -> Nat] /\ \A j \in 1 .. Len(trace) + 1 : A[j] <= Len(Pulses)
    BY <1>3, <1>6 DEF Told, Traces
  <2>3. A[1] \in Nat /\ A[1 + 1] <= Len(Pulses)
    <3>1. 1 \in Nat /\ 1 + 1 \in 1 .. Len(trace) + 1
      BY <1>4
    <3> QED BY <2>2, <3>1
  <2>4. /\ A[1 + 1] = A[1] + Len(e.pulses)
        /\ \A i \in 1 .. Len(e.pulses) : IsTraced(e.pulses[i], Pulses[A[1] + i], trace_overflow_count)
    BY <1>3, <1>4, <1>6, <1>11 DEF Told, Traces
  <2>5. Pulses \in Seq(PulseAsked) /\ recpulse_buffer \in Seq(Received) /\ recpulse_buffer = KeptOf(A[1])
    BY <1>2, <1>3, <1>11 DEF TraceTypes
  <2> HIDE DEF e
  <2>6. DecodedAll(e.pulses) = KeptOf(A[1] + Len(e.pulses))
    BY <1>2, <2>1, <2>3, <2>4, <2>5, EntryKeeps
  <2> QED BY <1>8, <2>6 DEF e
<1>17. recpulse_buffer' = KeptOf(B[1])'
  BY <1>1, <1>16, KeptKept
<1>18. Told(B, V)'
  BY <1>1, <1>10, <1>11, <1>12, <1>13, <1>17 DEF Told
<1> QED BY <1>1, <1>5, <1>18 DEF TraceInv

\* A pulse is released.
LEMMA OutMore ==
  ASSUME PlanInv, PlayPulse, Out \in Seq(PulseAsked)
  PROVE  LET x == asked[Len(played) + 1]
         IN  Out' = Append(Out, x) /\ x \in PulseAsked
<1> DEFINE n == Len(played)
           x == asked[n + 1]
<1>1. asked' = asked /\ played' = Append(played, [id |-> program[pos].id, time |-> ready])
      /\ pos <= Len(program) /\ program[pos].kind = "pulse"
  BY DEF PlayPulse, hostVars
<1>2. n + 1 <= Len(asked) /\ Carries(program[pos], x)
  BY PulsePlayed
<1>3. asked \in Seq(Request) /\ played \in Seq(Released) /\ program \in Seq(Words) /\ pos \in Nat \ {0}
  BY DEF PlanInv, HostInv, HostTypes, Matches, TypeOK
<1>4. n \in Nat /\ Len(asked) \in Nat /\ Len(program) \in Nat
  BY <1>3, ElementOf
<1>5. n + 1 \in 1 .. Len(asked) /\ pos \in 1 .. Len(program)
  BY <1>1, <1>2, <1>3, <1>4
<1>6. x \in Request /\ program[pos] \in Words
  BY <1>3, <1>5, ElementOf
<1>7. x.id \in Ids /\ x.id # Setting
  <2>1. program[pos].id \in Ids
    BY <1>1, <1>6 DEF Words
  <2> QED BY <1>2, <2>1, SpikeAssumption DEF Carries
<1>8. x \in PulseAsked
  BY <1>6, <1>7 DEF Request, PulseAsked
<1>9. Len(played') = n + 1
  <2>1. [id |-> program[pos].id, time |-> ready] \in Released
    <3>1. program[pos].id \in Ids /\ ready \in Nat
      BY <1>2, <1>7 DEF Carries, PlanInv, TypeOK
    <3> QED BY <3>1 DEF Released
  <2> QED BY <1>1, <1>3, <2>1
<1>10. PulsesOf(n + 1) = Append(PulsesOf((n + 1) - 1), x)
  BY <1>3, <1>5, <1>7, PulsesOfFacts
<1>11. (n + 1) - 1 = n
  BY <1>4
<1> HIDE DEF n, x
<1>12. \A m : PulsesOf(m)' = PulsesOf(m)
  BY <1>1 DEF PulsesOf
<1>13. Out' = PulsesOf(n + 1)
  BY <1>1, <1>9, <1>12 DEF Out, PulsesOf
<1> QED BY <1>8, <1>10, <1>11, <1>13 DEF Out, n, x

LEMMA PulseTraced ==
  ASSUME PlanInv, PlayPulse, overflows * Period <= ready
  PROVE  /\ Traced(program[pos]) \in TracedPulse
         /\ IsTraced(Traced(program[pos]), asked[Len(played) + 1], overflows)
<1> DEFINE x == asked[Len(played) + 1]
           w == program[pos]
           p == Traced(w)
<1>1. TypeOK /\ ready < (overflows + 1) * Period
  BY DEF PlayPulse, PlanInv
<1>2. Carries(w, x) /\ ready = x.release
  BY PulsePlayed
<1>3. ready \in Nat /\ overflows \in Nat /\ replacing \in BOOLEAN
  BY <1>1 DEF TypeOK
<1>4. x \in PulseAsked
  <2>1. asked \in Seq(Request) /\ Len(asked) \in Nat /\ program \in Seq(Words) /\ Len(program) \in Nat
        /\ Len(played) \in Nat /\ pos \in Nat \ {0}
    BY ElementOf DEF PlanInv, HostInv, HostTypes, TypeOK, Matches
  <2>2. Len(played) + 1 \in 1 .. Len(asked) /\ pos \in 1 .. Len(program) /\ w.kind = "pulse"
    BY <2>1, PulsePlayed DEF PlayPulse
  <2>3. x \in Request /\ w \in Words
    BY <2>1, <2>2, ElementOf
  <2>4. w.id \in Ids
    BY <2>2, <2>3 DEF Words
  <2> QED BY <1>2, <2>3, <2>4 DEF Carries, Request, PulseAsked
<1> HIDE DEF x, w
<1>5. p = [kind |-> "pulse", id |-> w.id, fpga_msb |-> ready % Period >= Period \div 2,
           stamp |-> IF replacing THEN (2 * ready) % (2 * Period) ELSE w.time]
  BY DEF Traced
<1>6. p.stamp = Stamped(x) % (2 * Period)
  BY <1>2, <1>5 DEF Stamped, Carries
<1>7. Epoch(ready) = overflows
  <2> DEFINE z == overflows * Period
             d == ready - z
  <2>1. (overflows + 1) * Period = z + Period /\ z \in Nat /\ Period \in Nat
    BY <1>3, PeriodFacts
  <2>2. z <= ready
    OBVIOUS
  <2> HIDE DEF z
  <2>3. d \in 0 .. Period - 1 /\ ready = z + d
    BY <1>1, <1>3, <2>1, <2>2
  <2> HIDE DEF d
  <2> QED BY <1>3, <2>3, EpochIs DEF z
<1>8. p.id = x.id /\ p.id \in Ids /\ p.kind = "pulse"
  BY <1>2, <1>4, <1>5 DEF Carries, PulseAsked
<1>9. p.fpga_msb \in BOOLEAN /\ (p.fpga_msb <=> ready % Period >= HalfPeriod)
  <2> DEFINE ms == ready % Period >= HalfPeriod
  <2>1. p.fpga_msb = ms
    BY <1>5 DEF HalfPeriod
  <2>2. ms \in BOOLEAN
    OBVIOUS
  <2> HIDE DEF ms, p
  <2>3. p.fpga_msb \in BOOLEAN /\ (p.fpga_msb <=> ms)
    BY <2>1, <2>2
  <2> QED BY <2>3 DEF ms
<1>10. p.stamp \in Nat
  <2> DEFINE u == Stamped(x)
             N == 2 * Period
  <2>1. u \in Nat /\ N \in Nat \ {0}
    BY <1>3, <1>4, StampedFacts, PeriodFacts
  <2>2. p.stamp = u % N
    BY <1>6
  <2> HIDE DEF u, N
  <2>3. u % N \in 0 .. N - 1
    BY <2>1, DivMod
  <2> QED BY <2>1, <2>2, <2>3
<1>11. p \in TracedPulse
  <2>1. p.stamp = IF replacing THEN (2 * ready) % (2 * Period) ELSE w.time
    BY <1>5
  <2> DEFINE st == IF replacing THEN (2 * ready) % (2 * Period) ELSE w.time
             ms == ready % Period >= Period \div 2
  <2>2. st \in Nat /\ ms \in BOOLEAN
    BY <1>10, <2>1
  <2>3. w.id \in Ids
    BY <1>5, <1>8
  <2>4. p = [kind |-> "pulse", id |-> w.id, fpga_msb |-> ms, stamp |-> st]
    BY <1>5
  <2> HIDE DEF st, ms, p
  <2> QED BY <2>2, <2>3, <2>4 DEF TracedPulse
<1>12. IsTraced(p, x, overflows)
  BY <1>2, <1>6, <1>7, <1>8, <1>9 DEF IsTraced
<1> QED BY <1>11, <1>12 DEF x, w

LEMMA LastAppended ==
  ASSUME NEW q \in Seq(PulseAsked), NEW x \in PulseAsked
  PROVE  /\ Append(q, x) \in Seq(PulseAsked) /\ Extends(Append(q, x), q)
         /\ Len(Append(q, x)) = Len(q) + 1 /\ Append(q, x)[Len(q) + 1] = x
         /\ Len(q) \in Nat
<1> DEFINE z == Append(q, x)
<1>1. z \in Seq(PulseAsked) /\ Len(z) = Len(q) + 1 /\ z[Len(q) + 1] = x /\ Len(q) \in Nat
      /\ \A i \in 1 .. Len(q) : z[i] = q[i]
  OBVIOUS
<1> HIDE DEF z
<1>2. Len(q) <= Len(z)
  BY <1>1
<1> QED BY <1>1, <1>2 DEF Extends, z

\* What is recorded so far, and what waits.
LEMMA ToldFacts ==
  ASSUME TypeOK, TraceTypes, NEW A, NEW O, Told(A, O)
  PROVE  LET a == A[Len(trace) + 1]
         IN  /\ a \in Nat /\ A[1] \in Nat /\ O[Len(trace) + 1] = overflows
             /\ Traces(A, O, trace, Out)
             /\ pending = None => Len(Out) = a
             /\ pending # None => Len(Out) = a + 1 /\ IsTraced(pending, Out[a + 1], overflows)
<1>1. /\ Traces(A, O, trace, Out) /\ O[Len(trace) + 1] = overflows
      /\ Waiting(A[Len(trace) + 1], Out)
  BY DEF Told
<1>2. A \in [Nat -> Nat] /\ Len(trace) + 1 \in Nat /\ 1 \in Nat
  <2>1. Len(trace) \in Nat
    BY ElementOf DEF TraceTypes
  <2>2. A \in [Nat -> Nat]
    BY <1>1 DEF Traces
  <2> QED BY <2>1, <2>2
<1>3. A[Len(trace) + 1] \in Nat /\ A[1] \in Nat
  BY <1>2
<1> QED BY <1>1, <1>3 DEF Waiting

LEMMA PulseRecorded ==
  ASSUME PlanInv, TraceInv, PlayPulse
  PROVE  TraceInv'
<1> DEFINE x == asked[Len(played) + 1]
           p == Traced(program[pos])
           q == Append(Out, x)
           n == Len(trace) + 1
<1>1. /\ phase = "play" /\ phase' = "play" /\ left > 0
      /\ UNCHANGED <<asked, replacing, overflows, trace_overflow_count, recpulse_buffer>>
      /\ Record(p)
      /\ ready' = ready + Latency \/ ready' = ready + 1
  BY DEF PlayPulse, hostVars, readVars
<1>2. TypeOK /\ TraceTypes /\ overflows \in Nat /\ ready \in Nat
  BY DEF PlanInv, TraceInv, TypeOK
<1>3. overflows * Period <= ready
  BY <1>1 DEF TraceInv, Finished
<1>4. overflows' * Period <= ready'
  <2>1. overflows * Period \in Nat
    BY <1>2, PeriodFacts
  <2> QED BY <1>1, <1>2, <1>3, <2>1, PeriodFacts
<1>5. p \in TracedPulse /\ IsTraced(p, x, overflows)
  BY <1>3, PulseTraced
<1>6. Out \in Seq(PulseAsked) /\ trace \in Seq(Entries) /\ pending \in TracedPulse \cup {None}
      /\ recpulse_buffer \in Seq(Received)
  BY <1>2 DEF TraceTypes
<1>7. Out' = q /\ x \in PulseAsked
  BY <1>6, OutMore
<1> HIDE DEF x, p
<1>8. /\ q \in Seq(PulseAsked) /\ Extends(q, Out) /\ Len(q) = Len(Out) + 1 /\ q[Len(Out) + 1] = x
      /\ Len(Out) \in Nat
  BY <1>6, <1>7, LastAppended
<1>9. PICK A, O : Told(A, O)
  BY <1>1 DEF TraceInv
<1> DEFINE a == A[n]
<1>10. /\ a \in Nat /\ A[1] \in Nat /\ O[n] = overflows
       /\ Traces(A, O, trace, Out)
       /\ pending = None => Len(Out) = a
       /\ pending # None => Len(Out) = a + 1 /\ IsTraced(pending, Out[a + 1], overflows)
  BY <1>2, <1>9, ToldFacts
<1>11. A[1] = 0 /\ O[1] = 0 /\ O[1] = trace_overflow_count
  BY <1>1, <1>9 DEF Told
<1>12. p # None /\ p.kind = "pulse"
  BY <1>5 DEF TracedPulse, None
<1> HIDE DEF q
<1>13. ASSUME NEW u, NEW v, NEW o, IsTraced(u, v, o) PROVE IsTraced(u, v, o)'
  BY <1>1, <1>13 DEF IsTraced, Stamped
<1>14. Traces(A, O, trace, q)
  BY <1>6, <1>8, <1>10, TracesKept
<1>15. CASE pending = None
  <2>1. pending' = p /\ trace' = trace
    BY <1>1, <1>15 DEF Record
  <2>2. TraceTypes'
    BY <1>1, <1>5, <1>6, <1>7, <1>8, <2>1 DEF TraceTypes
  <2>3. Traces(A, O, trace, Out)'
    BY <1>7, <1>13, <1>14, <2>1 DEF Traces
  <2>4. Len(q) = a + 1 /\ q[Len(q)] = x
    BY <1>8, <1>10, <1>15
  <2>5. Waiting(A[Len(trace) + 1], Out)'
    <3>1. pending' # None
      BY <1>12, <2>1
    <3>2. Len(Out') = A[Len(trace') + 1] + 1
      BY <1>7, <2>1, <2>4
    <3>3. IsTraced(pending, Out[Len(Out)], overflows)'
      <4>1. pending' = p /\ Out'[Len(Out')] = x /\ overflows' = overflows /\ replacing' = replacing
        BY <1>1, <1>7, <2>1, <2>4
      <4> QED BY <1>5, <4>1 DEF IsTraced, Stamped
    <3>4. Len(Out)' = A[Len(trace) + 1]' + 1
      BY <3>2
    <3> QED BY <3>1, <3>3, <3>4 DEF Waiting
  <2>6. Told(A, O)'
    <3>1. O[1] = trace_overflow_count' /\ O[Len(trace') + 1] = overflows'
      BY <1>1, <1>10, <1>11, <2>1
    <3> QED BY <1>1, <1>11, <2>3, <2>5, <3>1 DEF Told
  <2> QED BY <1>1, <1>4, <2>2, <2>6 DEF TraceInv
<1>16. CASE pending # None
  <2> DEFINE e == [ov |-> FALSE, pulses |-> <<pending, p>>]
             tr == Append(trace, e)
  <2>1. pending' = None /\ trace' = tr
    BY <1>1, <1>16 DEF Record
  <2>2. pending \in TracedPulse
    BY <1>6, <1>16
  <2>3. e \in Entries /\ e.ov = FALSE /\ Len(e.pulses) = 2 /\ e.pulses[1] = pending /\ e.pulses[2] = p
    BY <1>5, <2>2 DEF Entries
  <2> HIDE DEF e
  <2>4. tr \in Seq(Entries)
    BY <1>6, <2>3
  <2>5. Len(q) = a + 2 /\ q[a + 1] = Out[a + 1] /\ q[a + 2] = x
    <3>1. Len(Out) = a + 1 /\ a + 1 \in 1 .. Len(Out)
      BY <1>10, <1>16
    <3>2. q[a + 1] = Out[a + 1]
      BY <1>8, <3>1 DEF Extends
    <3>3. (a + 1) + 1 = a + 2
      BY <1>10
    <3> QED BY <1>8, <3>1, <3>2, <3>3
  <2>6. \A i \in 1 .. Len(e.pulses) : IsTraced(e.pulses[i], q[a + i], O[n])
    <3> SUFFICES ASSUME NEW i \in 1 .. Len(e.pulses) PROVE IsTraced(e.pulses[i], q[a + i], O[n])
      OBVIOUS
    <3>1. i = 1 \/ i = 2
      BY <2>3
    <3>2. CASE i = 1
      BY <1>10, <1>16, <2>3, <2>5, <3>2
    <3>3. CASE i = 2
      BY <1>5, <1>10, <2>3, <2>5, <3>3
    <3> QED BY <3>1, <3>2, <3>3
  <2>7. a + Len(e.pulses) <= Len(q)
    BY <1>10, <2>3, <2>5
  <2>8. PICK B, V : /\ Traces(B, V, tr, q) /\ B[1] = A[1] /\ V[1] = O[1]
                    /\ B[Len(tr) + 1] = a + Len(e.pulses)
                    /\ V[Len(tr) + 1] = O[n] + (IF e.ov THEN 1 ELSE 0)
    <3>1. e \in Entries /\ trace \in Seq(Entries) /\ q \in Seq(PulseAsked) /\ Traces(A, O, trace, q)
      BY <1>6, <1>8, <1>14, <2>3
    <3> HIDE DEF Traces
    <3> QED BY <2>6, <2>7, <3>1, TracesMore
  <2> HIDE DEF tr
  <2>9. B[Len(tr) + 1] = a + 2 /\ V[Len(tr) + 1] = overflows
    BY <1>2, <1>10, <2>3, <2>8
  <2>10. TraceTypes'
    BY <1>1, <1>6, <1>7, <1>8, <2>1, <2>4 DEF TraceTypes
  <2>11. Traces(B, V, trace, Out)'
    BY <1>7, <1>13, <2>1, <2>8 DEF Traces
  <2>12. Waiting(B[Len(trace) + 1], Out)'
    <3>1. B[Len(trace') + 1] = a + 2 /\ Len(Out') = a + 2
      BY <1>7, <2>1, <2>5, <2>9
    <3> QED BY <2>1, <3>1 DEF Waiting
  <2>13. Told(B, V)'
    <3>1. V[1] = trace_overflow_count' /\ V[Len(trace') + 1] = overflows'
      BY <1>1, <1>11, <2>1, <2>8, <2>9
    <3>2. B[1] = 0 /\ V[1] = 0
      BY <1>11, <2>8
    <3> QED BY <1>1, <2>11, <2>12, <3>1, <3>2 DEF Told
  <2> QED BY <1>1, <1>4, <2>10, <2>13 DEF TraceInv
<1> QED BY <1>15, <1>16

\* An overflow is recorded.
LEMMA OverflowRecorded ==
  ASSUME PlanInv, TraceInv, RecordOverflow
  PROVE  TraceInv'
<1> DEFINE e == [ov |-> TRUE, pulses |-> IF pending = None THEN <<>> ELSE <<pending>>]
           tr == Append(trace, e)
           n == Len(trace) + 1
<1>1. /\ phase = "play" /\ phase' = "play"
      /\ UNCHANGED <<asked, played, program, pos, left, replacing, ready, trace_overflow_count, recpulse_buffer>>
      /\ (left > 0 /\ ready >= (overflows + 1) * Period) \/ Finished
      /\ overflows' = overflows + 1 /\ trace' = tr /\ pending' = None
  BY DEF RecordOverflow, hostVars, playVars, readVars
<1>2. TypeOK /\ TraceTypes /\ overflows \in Nat /\ ready \in Nat
  BY DEF PlanInv, TraceInv, TypeOK
<1>3. Finished' \/ overflows' * Period <= ready'
  <2>1. CASE Finished
    BY <1>1, <2>1 DEF Finished
  <2>2. CASE ready >= (overflows + 1) * Period
    <3>1. (overflows + 1) * Period \in Nat
      BY <1>2, PeriodFacts
    <3> QED BY <1>1, <1>2, <2>2, <3>1
  <2> QED BY <1>1, <2>1, <2>2
<1>4. Out \in Seq(PulseAsked) /\ trace \in Seq(Entries) /\ pending \in TracedPulse \cup {None}
      /\ recpulse_buffer \in Seq(Received)
  BY <1>2 DEF TraceTypes
<1>5. Out' = Out
  BY <1>1, OutKept
<1>6. PICK A, O : Told(A, O)
  BY <1>1 DEF TraceInv
<1> DEFINE a == A[n]
<1>7. /\ a \in Nat /\ A[1] \in Nat /\ O[n] = overflows
      /\ Traces(A, O, trace, Out)
      /\ pending = None => Len(Out) = a
      /\ pending # None => Len(Out) = a + 1 /\ IsTraced(pending, Out[a + 1], overflows)
  BY <1>2, <1>6, ToldFacts
<1>8. A[1] = 0 /\ O[1] = 0 /\ O[1] = trace_overflow_count
  BY <1>1, <1>6 DEF Told
<1>9. /\ e.ov = TRUE
      /\ pending = None => Len(e.pulses) = 0
      /\ pending # None => Len(e.pulses) = 1 /\ e.pulses[1] = pending
  <2>1. CASE pending = None
    <3>1. e.pulses = <<>>
      BY <2>1
    <3>2. Len(e.pulses) = 0
      <4>1. Len(<<>>) = 0
        OBVIOUS
      <4> HIDE DEF e
      <4> QED BY <3>1, <4>1, Zenon
    <3> QED BY <2>1, <3>2
  <2>2. CASE pending # None
    <3>1. e.pulses = <<pending>>
      BY <2>2
    <3>2. Len(<<pending>>) = 1 /\ <<pending>>[1] = pending
      OBVIOUS
    <3> HIDE DEF e
    <3>3. Len(e.pulses) = 1 /\ e.pulses[1] = pending
      BY <3>1, <3>2, Zenon
    <3>4. e.ov = TRUE
      BY DEF e
    <3> QED BY <2>2, <3>3, <3>4
  <2> QED BY <2>1, <2>2
<1>10. e \in Entries
  <2>1. CASE pending = None
    BY <2>1 DEF Entries
  <2>2. CASE pending # None
    <3>1. pending \in TracedPulse
      BY <1>4, <2>2
    <3>2. <<pending>> \in Seq(TracedPulse) /\ Len(<<pending>>) <= 2
      BY <3>1
    <3>3. e = [ov |-> TRUE, pulses |-> <<pending>>]
      BY <2>2
    <3> QED BY <3>2, <3>3 DEF Entries
  <2> QED BY <2>1, <2>2
<1> HIDE DEF e
<1>11. a + Len(e.pulses) = Len(Out)
  <2> HIDE DEF a
  <2>1. CASE pending = None
    <3>1. Len(e.pulses) = 0
      BY <1>9, <2>1
    <3> QED BY <1>7, <2>1, <3>1
  <2>2. CASE pending # None
    <3>1. Len(e.pulses) = 1
      BY <1>9, <2>2
    <3> QED BY <1>7, <2>2, <3>1
  <2> QED BY <2>1, <2>2
<1>12. \A i \in 1 .. Len(e.pulses) : IsTraced(e.pulses[i], Out[a + i], O[n])
  <2>1. CASE pending = None
    <3>1. Len(e.pulses) = 0
      BY <1>9, <2>1
    <3> QED BY <3>1
  <2>2. CASE pending # None
    <3>1. Len(e.pulses) = 1 /\ e.pulses[1] = pending
      BY <1>9, <2>2
    <3>2. \A i \in 1 .. Len(e.pulses) : i = 1
      BY <3>1
    <3> QED BY <1>7, <2>2, <3>1, <3>2
  <2> QED BY <2>1, <2>2
<1>13. tr \in Seq(Entries)
  BY <1>4, <1>10
<1>14. a + Len(e.pulses) <= Len(Out)
  <2>1. Len(Out) \in Nat
    BY <1>4, ElementOf
  <2> QED BY <1>11, <2>1
<1>15. PICK B, V : /\ Traces(B, V, tr, Out) /\ B[1] = A[1] /\ V[1] = O[1]
                   /\ B[Len(tr) + 1] = a + Len(e.pulses)
                   /\ V[Len(tr) + 1] = O[n] + (IF e.ov THEN 1 ELSE 0)
  BY <1>4, <1>7, <1>10, <1>12, <1>14, TracesMore
<1> HIDE DEF tr
<1>16. TraceTypes'
  BY <1>1, <1>4, <1>5, <1>13 DEF TraceTypes
<1>17. ASSUME NEW u, NEW v, NEW o, IsTraced(u, v, o) PROVE IsTraced(u, v, o)'
  BY <1>1, <1>17 DEF IsTraced, Stamped
<1>18. Traces(B, V, trace, Out)'
  BY <1>1, <1>5, <1>15, <1>17 DEF Traces
<1>19. Waiting(B[Len(trace) + 1], Out)'
  <2>1. B[Len(trace') + 1] = Len(Out')
    BY <1>1, <1>5, <1>11, <1>15
  <2> QED BY <1>1, <2>1 DEF Waiting
<1>20. Told(B, V)'
  <2>1. V[1] = trace_overflow_count' /\ V[Len(trace') + 1] = overflows'
    BY <1>1, <1>7, <1>8, <1>9, <1>15
  <2>2. B[1] = 0 /\ V[1] = 0
    BY <1>8, <1>15
  <2> QED BY <1>1, <1>18, <1>19, <2>1, <2>2 DEF Told
<1> QED BY <1>1, <1>3, <1>16, <1>20 DEF TraceInv

\* Nothing of the trace changes, nor of what was released to be traced.
LEMMA TraceKept ==
  ASSUME TraceTypes, Out' = Out,
         UNCHANGED <<asked, phase, replacing, overflows, pending, trace, trace_overflow_count, recpulse_buffer>>
  PROVE  /\ TraceTypes'
         /\ \A A, O : Told(A, O) => Told(A, O)'
<1>1. TraceTypes'
  BY DEF TraceTypes
<1>2. ASSUME NEW A, NEW O, Told(A, O) PROVE Told(A, O)'
  <2>1. ASSUME NEW u, NEW v, NEW o, IsTraced(u, v, o) PROVE IsTraced(u, v, o)'
    BY <2>1 DEF IsTraced, Stamped
  <2>2. /\ Traces(A, O, trace, Out) /\ O[1] = trace_overflow_count /\ O[Len(trace) + 1] = overflows
        /\ Waiting(A[Len(trace) + 1], Out)
        /\ phase = "play" => A[1] = 0 /\ O[1] = 0
        /\ phase = "read" => pending = None /\ recpulse_buffer = KeptOf(A[1])
    BY <1>2 DEF Told
  <2>3. Traces(A, O, trace, Out)'
    BY <2>1, <2>2 DEF Traces
  <2>4. Waiting(A[Len(trace) + 1], Out)'
    BY <2>2 DEF Waiting, IsTraced, Stamped
  <2>6. KeptOf(A[1])' = KeptOf(A[1])
    BY KeptKept
  <2> QED BY <2>2, <2>3, <2>4, <2>6 DEF Told
<1> QED BY <1>1, <1>2

\* The playing unit goes on without a pulse.
LEMMA NothingRecorded ==
  ASSUME PlanInv, PlanInv', TraceInv, PlayWait \/ PlayConfig \/ PlayGroup
  PROVE  TraceInv'
<1>1. /\ phase = "play" /\ left = 0 /\ pos <= Len(program) /\ program[pos].kind \in {"wait", "config", "group"}
      /\ UNCHANGED <<asked, program, phase, replacing, overflows, pending, trace, trace_overflow_count,
                     recpulse_buffer>>
  BY DEF PlayWait, PlayConfig, PlayGroup, Playing, hostVars, traceVars, readVars
<1>2. /\ TypeOK /\ TraceTypes /\ overflows \in Nat /\ ready \in Nat /\ program \in Seq(Words)
      /\ pos \in Nat \ {0} /\ Len(program) \in Nat
  BY ElementOf DEF PlanInv, TraceInv, TypeOK
<1>3. pos \in 1 .. Len(program)
  BY <1>1, <1>2
<1>4. program[pos] \in Words
  BY <1>2, <1>3
<1>5. ready' \in Nat /\ ready' >= ready
  <2>1. CASE PlayWait
    <3>1. program[pos].count \in Nat /\ ready' = IF program[pos].count = 0 THEN ready
                                                 ELSE (Epoch(ready) + program[pos].count) * Period
      BY <1>4, <2>1, KindFacts DEF PlayWait, Playing
    <3> DEFINE k == program[pos].count
               z == Epoch(ready) * Period
    <3>2. z \in Nat /\ ready < z + Period /\ Epoch(ready) \in Nat
      BY <1>2, EpochRange
    <3>3. k # 0 => (Epoch(ready) + k) * Period = z + Period + (k - 1) * Period /\ (k - 1) * Period \in Nat
      <4> DEFINE e == Epoch(ready)
                 P == Period
      <4>1. e \in Nat /\ k \in Nat /\ P \in Nat /\ z = e * P
        BY <3>1, <3>2, PeriodFacts
      <4> HIDE DEF e, k, z, P
      <4>2. (e + k) * P = e * P + P + (k - 1) * P
        BY <4>1
      <4>3. k # 0 => k - 1 \in Nat
        BY <4>1
      <4>4. k # 0 => (k - 1) * P \in Nat
        BY <4>1, <4>3
      <4> QED BY <4>1, <4>2, <4>4 DEF e, P
    <3> HIDE DEF k, z
    <3>4. CASE k = 0
      BY <1>2, <3>1, <3>4 DEF k
    <3>5. CASE k # 0
      <4>1. ready' = z + Period + (k - 1) * Period
        BY <3>1, <3>3, <3>5 DEF k
      <4> QED BY <1>2, <3>2, <3>3, <3>5, <4>1, PeriodFacts
    <3> QED BY <3>4, <3>5
  <2>2. CASE PlayConfig \/ PlayGroup
    <3>1. program[pos].kind = "config" \/ program[pos].kind = "group"
      BY <2>2 DEF PlayConfig, PlayGroup, Playing
    <3>2. program[pos].time \in Nat
      BY <1>4, <3>1, KindFacts
    <3>3. From(ready, program[pos].time) \in Nat /\ From(ready, program[pos].time) >= ready
      <4> DEFINE c == program[pos].time
      <4>1. c \in Int
        BY <3>2
      <4> HIDE DEF c
      <4>2. From(ready, c) \in Nat /\ From(ready, c) >= ready
        BY <1>2, <4>1, FromType
      <4> QED BY <4>2 DEF c
    <3>4. ready' = From(ready, program[pos].time) + Latency \/ ready' = From(ready, program[pos].time)
      BY <2>2 DEF PlayConfig, PlayGroup, Release, From
    <3> QED BY <1>2, <3>3, <3>4, PeriodFacts
  <2> QED BY <2>1, <2>2
<1>6. overflows' * Period <= ready'
  <2>1. overflows * Period <= ready
    BY <1>1, <1>2 DEF TraceInv, Finished
  <2>2. overflows * Period \in Nat
    BY <1>2, PeriodFacts
  <2> QED BY <1>1, <1>2, <1>5, <2>1, <2>2
<1>7. Out' = Out
  <2>1. CASE PlayWait \/ PlayGroup
    <3>1. played' = played
      BY <2>1 DEF PlayWait, PlayGroup
    <3> QED BY <1>1, <3>1, OutKept
  <2>2. CASE PlayConfig
    <3> DEFINE n == Len(played)
               s == [id |-> Setting, time |-> Release(program[pos].time)]
    <3>1. played' = Append(played, s)
      BY <2>2 DEF PlayConfig
    <3>2. Len(played) \in Nat /\ Len(played') = n + 1 /\ played'[n + 1].id = Setting
      <4>1. played \in Seq(Released) /\ played' \in Seq(Released)
        BY DEF PlanInv, Matches
      <4>2. s.id = Setting
        OBVIOUS
      <4> HIDE DEF s
      <4>3. Len(played) \in Nat /\ Len(played') = Len(played) + 1 /\ played'[Len(played) + 1] = s
        BY <3>1, <4>1
      <4> QED BY <4>2, <4>3
    <3>3. asked \in Seq(Request) /\ Len(asked) \in Nat
      BY ElementOf DEF PlanInv, HostInv, HostTypes
    <3>4. Matches'
      BY DEF PlanInv
    <3>5. n + 1 <= Len(asked) /\ asked[n + 1].id = Setting
      <4>1. Len(played') <= Len(asked') /\ \A i \in DOMAIN played' : played'[i].id = asked'[i].id
        BY <3>4 DEF Matches
      <4>2. n + 1 \in DOMAIN played'
        <5>1. played' \in Seq(Released)
          BY <3>4 DEF Matches
        <5>2. DOMAIN played' = 1 .. Len(played')
          BY <5>1
        <5> QED BY <3>2, <5>2
      <4> QED BY <1>1, <3>2, <4>1, <4>2
    <3> HIDE DEF n
    <3>6. n + 1 \in 1 .. Len(asked) /\ (n + 1) - 1 = n
      <4>1. n \in Nat
        BY <3>2 DEF n
      <4> QED BY <3>3, <3>5, <4>1
    <3>7. PulsesOf(n + 1) = PulsesOf((n + 1) - 1)
      BY <3>3, <3>5, <3>6, PulsesOfFacts
    <3>8. Out' = PulsesOf(n + 1)
      BY <1>1, <3>2 DEF Out, PulsesOf
    <3>9. Out = PulsesOf(n)
      BY DEF Out, n
    <3> QED BY <3>6, <3>7, <3>8, <3>9
  <2> QED BY <2>1, <2>2
<1>8. TraceTypes' /\ \A A, O : Told(A, O) => Told(A, O)'
  BY <1>1, <1>2, <1>7, TraceKept
<1>9. PICK A, O : Told(A, O)
  BY <1>1 DEF TraceInv
<1>10. Told(A, O)'
  BY <1>8, <1>9
<1> QED BY <1>1, <1>6, <1>8, <1>10 DEF TraceInv

LEMMA FirstOf ==
  ASSUME NEW q \in Seq(Request)
  PROVE  (CHOOSE f : Among(q, f))[0] = <<>>
<1>1. Len(q) \in Nat
  BY ElementOf
<1> DEFINE f == CHOOSE f : Among(q, f)
<1>2. Among(q, f)
  BY <1>1, AmongExists
<1> HIDE DEF f
<1>3. \A n \in 0 .. Len(q) :
        f[n] = IF n = 0 THEN <<>>
               ELSE IF q[n].id = Setting THEN f[n - 1] ELSE Append(f[n - 1], q[n])
  BY <1>2 DEF Among
<1>4. 0 \in 0 .. Len(q)
  BY <1>1
<1> QED BY <1>3, <1>4 DEF f

\* Nothing was released yet.
LEMMA NothingOut ==
  ASSUME asked \in Seq(Request), played = <<>>
  PROVE  Out = <<>>
<1>1. Len(played) = 0
  OBVIOUS
<1> QED BY <1>1, FirstOf DEF Out, PulsesOf

LEMMA TraceFilled ==
  ASSUME PlanInv, PlanInv', TraceInv, phase = "fill", phase' = "fill", UNCHANGED <<played, traceVars, readVars>>
  PROVE  TraceInv'
<1>1. Blank /\ TraceTypes
  BY DEF TraceInv
<1>2. UNCHANGED <<overflows, pending, trace, trace_overflow_count, recpulse_buffer>>
  BY DEF traceVars, readVars
<1>3. played' = <<>> /\ asked' \in Seq(Request)
  BY DEF PlanInv, FillInv, HostInv, HostTypes
<1>4. Out' = <<>>
  <2>1. Len(played') = 0
    BY <1>3
  <2> QED BY <1>3, <2>1, FirstOf DEF Out, PulsesOf
<1>5. <<>> \in Seq(PulseAsked)
  OBVIOUS
<1>6. TraceTypes'
  BY <1>1, <1>2, <1>4, <1>5 DEF TraceTypes
<1>7. Blank'
  BY <1>1, <1>2 DEF Blank
<1> QED BY <1>6, <1>7 DEF TraceInv

LEMMA TraceStarted ==
  ASSUME PlanInv, TraceInv, startPlaybackTrace
  PROVE  TraceInv'
<1>1. /\ phase = "fill" /\ phase' = "play"
      /\ UNCHANGED <<asked, played, replacing, ready, overflows, pending, trace, trace_overflow_count, recpulse_buffer>>
  BY DEF startPlaybackTrace, playVars, traceVars, readVars
<1>2. Blank /\ TraceTypes
  BY <1>1 DEF TraceInv
<1>3. Out = <<>> /\ Out' = <<>>
  <2>1. played = <<>> /\ asked \in Seq(Request)
    BY <1>1 DEF PlanInv, FillInv, HostInv, HostTypes
  <2> QED BY <1>1, <2>1, NothingOut, OutKept
<1>4. TraceTypes'
  BY <1>1, <1>2, <1>3 DEF TraceTypes
<1> DEFINE Z == [j \in Nat |-> 0]
<1>5. Z \in [Nat -> Nat] /\ Z[1] = 0
  OBVIOUS
<1> HIDE DEF Z
<1>6. trace' = <<>> /\ pending' = None /\ overflows' = 0 /\ trace_overflow_count' = 0
  BY <1>1, <1>2 DEF Blank
<1>7. Len(<<>>) = 0 /\ 0 + 1 = 1 /\ (1 .. 0) = {} /\ (1 .. 1) = {1}
  OBVIOUS
<1>8. Traces(Z, Z, trace, Out)'
  <2>1. Len(trace') = 0 /\ Len(Out') = 0
    BY <1>3, <1>6, <1>7
  <2>2. \A j \in 1 .. 0 + 1 : Z[j] <= 0
    BY <1>5
  <2>3. \A j \in 1 .. 0 : FALSE
    OBVIOUS
  <2> QED BY <1>5, <2>1, <2>2, <2>3 DEF Traces
<1>9. Waiting(Z[Len(trace) + 1], Out)'
  <2>1. Z[Len(trace') + 1] = 0 /\ Len(Out') = 0
    BY <1>3, <1>5, <1>6, <1>7
  <2> QED BY <1>6, <2>1 DEF Waiting
<1>10. Told(Z, Z)'
  <2>1. Z[Len(trace') + 1] = 0
    BY <1>5, <1>6, <1>7
  <2> QED BY <1>1, <1>5, <1>6, <1>8, <1>9, <2>1 DEF Told
<1>11. overflows' * Period <= ready'
  <2>1. ready \in Nat
    BY DEF PlanInv, TypeOK
  <2>2. 0 * Period = 0
    BY PeriodFacts
  <2> QED BY <1>1, <1>6, <2>1, <2>2
<1> QED BY <1>1, <1>4, <1>10, <1>11 DEF TraceInv

LEMMA ReadStarted ==
  ASSUME PlanInv, PlanInv', TraceInv, startTraceRead
  PROVE  TraceInv'
<1>1. /\ phase = "play" /\ phase' = "read" /\ pending = None
      /\ UNCHANGED <<asked, played, replacing, overflows, pending, trace>>
      /\ trace_overflow_count' = 0 /\ recpulse_buffer' = <<>>
  BY DEF startTraceRead, hostVars, playVars, traceVars
<1>2. TraceTypes
  BY DEF TraceInv
<1>3. Out' = Out
  BY <1>1, OutKept
<1>4. TraceTypes'
  <2>1. <<>> \in Seq(Received)
    OBVIOUS
  <2> QED BY <1>1, <1>2, <1>3, <2>1 DEF TraceTypes
<1>5. PICK A, O : Told(A, O)
  BY <1>1 DEF TraceInv
<1>6. /\ Traces(A, O, trace, Out) /\ O[1] = 0 /\ O[Len(trace) + 1] = overflows /\ A[1] = 0
      /\ Waiting(A[Len(trace) + 1], Out)
  BY <1>1, <1>5 DEF Told
<1>7. ASSUME NEW u, NEW v, NEW o, IsTraced(u, v, o) PROVE IsTraced(u, v, o)'
  BY <1>1, <1>7 DEF IsTraced, Stamped
<1>8. Traces(A, O, trace, Out)'
  BY <1>1, <1>3, <1>6, <1>7 DEF Traces
<1>9. Waiting(A[Len(trace) + 1], Out)'
  BY <1>1, <1>3, <1>6 DEF Waiting
<1>10. recpulse_buffer' = KeptOf(A[1])'
  <2>1. Len(played) = Len(asked) /\ asked \in Seq(Request)
    BY <1>1 DEF PlanInv, ReadInv, HostInv, HostTypes
  <2>2. Pulses = Out
    BY <2>1, PulsesOfFacts DEF Out
  <2>3. Len(Pulses) \in Nat
    BY <1>2, <2>2, ElementOf DEF TraceTypes
  <2>4. KeptOf(0) = <<>>
    BY <2>3, KeptOfFacts
  <2> QED BY <1>1, <1>6, <2>4, KeptKept
<1>11. Told(A, O)'
  BY <1>1, <1>6, <1>8, <1>9, <1>10 DEF Told
<1> QED BY <1>1, <1>4, <1>11 DEF TraceInv

LEMMA TraceInit == ASSUME Init PROVE TraceInv
<1>1. Blank /\ phase = "fill"
  BY DEF Init, Blank
<1>2. Out = <<>>
  <2>1. asked = <<>> /\ played = <<>> /\ <<>> \in Seq(Request)
    BY DEF Init
  <2> QED BY <2>1, NothingOut
<1>3. TraceTypes
  <2>1. <<>> \in Seq(Entries) /\ <<>> \in Seq(Received) /\ <<>> \in Seq(PulseAsked)
    OBVIOUS
  <2> QED BY <1>1, <1>2, <2>1 DEF TraceTypes, Blank
<1> QED BY <1>1, <1>3 DEF TraceInv

LEMMA TraceStep ==
  ASSUME PlanInv, PlanInv', TraceInv, [Next]_vars
  PROVE  TraceInv'
<1>1. CASE \E g \in Gaps :
             \/ \E a \in Ids, st \in Nat : addPlaybackPulse(time + g, st, a)
             \/ addPlaybackConfig(time + g) \/ sendPlaybackConfig(time + g)
             \/ addPlaybackFPGAConfig(time + g)
  <2>1. phase = "fill" /\ phase' = "fill" /\ UNCHANGED <<played, traceVars, readVars>>
    BY <1>1 DEF addPlaybackPulse, addPlaybackConfig, sendPlaybackConfig, addPlaybackFPGAConfig, AddSetting,
                Call, playVars
  <2> QED BY <2>1, TraceFilled
<1>2. CASE flushPlaybackPulses
  <2>1. phase = "fill" /\ phase' = "fill" /\ UNCHANGED <<played, traceVars, readVars>>
    BY <1>2 DEF flushPlaybackPulses, playVars
  <2> QED BY <2>1, TraceFilled
<1>3. CASE UNCHANGED vars
  <2>1. UNCHANGED <<asked, phase, replacing, overflows, pending, trace, trace_overflow_count, recpulse_buffer,
                    played, program, pos, left, ready>>
    BY <1>3 DEF vars, hostVars, playVars, traceVars, readVars
  <2>2. TraceTypes' /\ \A A, O : Told(A, O) => Told(A, O)'
    BY <2>1, OutKept, TraceKept DEF TraceInv
  <2>3. Blank => Blank'
    BY <2>1 DEF Blank
  <2>4. phase' # "fill" => \E A, O : Told(A, O)'
    BY <2>1, <2>2 DEF TraceInv
  <2>5. phase' = "play" => Finished' \/ overflows' * Period <= ready'
    BY <2>1 DEF TraceInv, Finished
  <2> QED BY <2>1, <2>2, <2>3, <2>4, <2>5 DEF TraceInv
<1>4. CASE Host
  <2>1. time \in Nat
    BY DEF PlanInv, TypeOK
  <2> QED BY <1>1, <1>2, <1>4, <2>1, HostCalls, TraceStarted, ReadStarted, ReadStep
<1> QED BY <1>3, <1>4, NothingRecorded, PulseRecorded, OverflowRecorded DEF Next, FPGA

LEMMA AllRead == ASSUME PlanInv, TraceInv PROVE TraceExact
<1> SUFFICES ASSUME phase = "read", trace = <<>>
             PROVE  recpulse_buffer = Expected
  BY DEF TraceExact
<1>1. TypeOK /\ TraceTypes
  BY DEF PlanInv, TraceInv
<1>2. PICK A, O : Told(A, O)
  BY DEF TraceInv
<1>3. pending = None /\ recpulse_buffer = KeptOf(A[1])
  BY <1>2 DEF Told
<1>4. Len(trace) + 1 = 1
  OBVIOUS
<1>5. Len(Out) = A[1]
  BY <1>1, <1>2, <1>3, <1>4, ToldFacts
<1>6. Out = Pulses /\ Len(Pulses) \in Nat
  BY <1>1, OutAll, ElementOf DEF TraceTypes
<1> QED BY <1>3, <1>5, <1>6, KeptOfFacts

\* Whatever timestamps the pulses are given and whatever else is played, the host
\* decodes from the trace, which holds timestamps modulo two periods, a bit of the
\* counter and marks of overflows, the pulses asked for, in their order: one that
\* is stamped in the half of a period of its release, or in the half before, at
\* its full time, any other at the one time in these halves that has its
\* timestamp. Left out are only those read as a time before the start, and those
\* that have the address and timestamp of the last that came out
\* (host_al_controller.cpp:1039-1187).
THEOREM TraceExactHolds ==
  ASSUME Orderly, WaitsSuffice
  PROVE  Spec => []TraceExact
<1>1. Init => PlanInv /\ TraceInv
  BY PlanInit, TraceInit
<1>2. PlanInv /\ TraceInv /\ [Next]_vars /\ TypeOK' => PlanInv' /\ TraceInv'
  <2> SUFFICES ASSUME PlanInv, TraceInv, [Next]_vars, TypeOK' PROVE PlanInv' /\ TraceInv'
    OBVIOUS
  <2>1. HostInv'
    BY HostStep DEF PlanInv
  <2>2. PlanInv'
    BY <2>1, PlanStep
  <2> QED BY <2>2, TraceStep
<1>3. PlanInv /\ TraceInv => TraceExact
  BY AllRead
<1> QED BY <1>1, <1>2, <1>3, TypeCorrect, PTL DEF Spec
===============================================================================
