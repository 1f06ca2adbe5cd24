--------------------------- MODULE HostAL_proofs ---------------------------
(***************************************************************************)
(* The Ethernet path to a HICANN, for any number of chips, frame size and  *)
(* number of commands and calls: if configuration waits until the FPGA     *)
(* owes the host nothing, a confirmed packet is in force, the cached flags *)
(* are the FPGA's, an end address belongs to the playback that was started *)
(* last, the pulses of a trace read stay together, commands reach the FPGA *)
(* in the order of their issue, and every destination gets its answers in  *)
(* that order.                                                             *)
(***************************************************************************)
EXTENDS HostAL, Integers, SequenceTheorems, FiniteSetTheorems, FunctionTheorems,
        WellFoundedInduction, TLAPS

(* Streams.  Only their frames of configuration matter here, so the sets   *)
(* frames and commands are members of are left open.                       *)

Listed(s) == s \in Seq({s[i] : i \in DOMAIN s})

LEMMA ListedIs ==
  ASSUME NEW S, NEW s \in Seq(S)
  PROVE  /\ Listed(s) /\ Len(s) \in Nat /\ DOMAIN s = 1 .. Len(s)
<1>1. Len(s) \in Nat /\ DOMAIN s = 1 .. Len(s) /\ s = [i \in 1 .. Len(s) |-> s[i]]
  BY LenProperties
<1> DEFINE R == {s[i] : i \in DOMAIN s}
<1>2. \A i \in 1 .. Len(s) : s[i] \in R
  BY <1>1
<1> HIDE DEF R
<1>3. s \in [1 .. Len(s) -> R]
  BY <1>1, <1>2
<1>4. s \in Seq(R)
  BY <1>1, <1>3
<1> QED BY <1>1, <1>4 DEF Listed, R

LEMMA ListedEmpty == Listed(<<>>)
<1>1. <<>> \in Seq({})
  OBVIOUS
<1> QED BY <1>1, ListedIs

LEMMA ListedAppend ==
  ASSUME NEW s, Listed(s), NEW x
  PROVE  /\ Listed(Append(s, x)) /\ Len(s) \in Nat
         /\ DOMAIN s = 1 .. Len(s) /\ DOMAIN Append(s, x) = 1 .. Len(s) + 1
         /\ \A i \in 1 .. Len(s) : Append(s, x)[i] = s[i]
         /\ Append(s, x)[Len(s) + 1] = x
<1> DEFINE S == {s[i] : i \in DOMAIN s} \cup {x}
<1>1. s \in Seq({s[i] : i \in DOMAIN s}) /\ {s[i] : i \in DOMAIN s} \subseteq S
  BY DEF Listed
<1>2. s \in Seq(S)
  BY <1>1, SeqMonotonic
<1>3. x \in S
  OBVIOUS
<1> HIDE DEF S
<1>4. Append(s, x) \in Seq(S) /\ Len(Append(s, x)) = Len(s) + 1
  BY <1>2, <1>3
<1>5. /\ \A i \in 1 .. Len(s) : Append(s, x)[i] = s[i]
      /\ Append(s, x)[Len(s) + 1] = x
  BY <1>2, <1>3, AppendProperties
<1> QED BY <1>2, <1>4, <1>5, ListedIs

LEMMA ListedTail ==
  ASSUME NEW s, Listed(s), s # <<>>
  PROVE  /\ Listed(Tail(s)) /\ Len(s) \in Nat \ {0}
         /\ DOMAIN s = 1 .. Len(s) /\ DOMAIN Tail(s) = 1 .. Len(s) - 1
         /\ \A i \in 1 .. Len(s) - 1 : Tail(s)[i] = s[i + 1]
         /\ Head(s) = s[1]
<1> DEFINE S == {s[i] : i \in DOMAIN s}
<1>1. s \in Seq(S)
  BY DEF Listed
<1> HIDE DEF S
<1>2. Tail(s) \in Seq(S) /\ Len(Tail(s)) = Len(s) - 1 /\ Len(s) \in Nat \ {0}
  BY <1>1
<1>3. \A i \in 1 .. Len(s) - 1 : Tail(s)[i] = s[i + 1]
  BY <1>1
<1>4. Head(s) = s[1]
  BY <1>1
<1>5. Listed(Tail(s)) /\ DOMAIN Tail(s) = 1 .. Len(s) - 1
  BY <1>2, ListedIs
<1>6. DOMAIN s = 1 .. Len(s)
  BY <1>1, ListedIs
<1> QED BY <1>2, <1>3, <1>4, <1>5, <1>6

LEMMA ListedConcat ==
  ASSUME NEW s, Listed(s), NEW t, Listed(t)
  PROVE  /\ Listed(s \o t) /\ Len(s) \in Nat /\ Len(t) \in Nat
         /\ DOMAIN s = 1 .. Len(s) /\ DOMAIN t = 1 .. Len(t)
         /\ DOMAIN (s \o t) = 1 .. Len(s) + Len(t)
         /\ \A i \in 1 .. Len(s) : (s \o t)[i] = s[i]
         /\ \A i \in 1 .. Len(t) : (s \o t)[Len(s) + i] = t[i]
<1> DEFINE S == {s[i] : i \in DOMAIN s} \cup {t[i] : i \in DOMAIN t}
<1>1. /\ s \in Seq({s[i] : i \in DOMAIN s}) /\ {s[i] : i \in DOMAIN s} \subseteq S
      /\ t \in Seq({t[i] : i \in DOMAIN t}) /\ {t[i] : i \in DOMAIN t} \subseteq S
  BY DEF Listed
<1>2. s \in Seq(S)
  BY <1>1, SeqMonotonic
<1>3. t \in Seq(S)
  BY <1>1, SeqMonotonic
<1> HIDE DEF S
<1>4. s \o t \in Seq(S) /\ Len(s \o t) = Len(s) + Len(t)
  BY <1>2, <1>3
<1>5. Len(s) \in Nat /\ Len(t) \in Nat /\ DOMAIN s = 1 .. Len(s) /\ DOMAIN t = 1 .. Len(t)
  BY <1>2, <1>3, ListedIs
<1>6. \A i \in 1 .. Len(s) + Len(t) : (s \o t)[i] = IF i <= Len(s) THEN s[i] ELSE t[i - Len(s)]
  BY <1>2, <1>3, ConcatProperties
<1>7. \A i \in 1 .. Len(s) : (s \o t)[i] = s[i]
  BY <1>5, <1>6
<1>8. ASSUME NEW i \in 1 .. Len(t) PROVE (s \o t)[Len(s) + i] = t[i]
  <2>1. Len(s) + i \in 1 .. Len(s) + Len(t) /\ ~(Len(s) + i <= Len(s))
    BY <1>5
  <2>2. (Len(s) + i) - Len(s) = i
    BY <1>5
  <2> QED BY <1>6, <2>1, <2>2
<1> QED BY <1>4, <1>5, <1>7, <1>8, ListedIs

\* What a flush sends are frames of commands.
LEMMA FramesFacts ==
  ASSUME NEW buf, Listed(buf)
  PROVE  /\ Listed(Frames(buf))
         /\ \A i \in DOMAIN Frames(buf) : Frames(buf)[i].pid = "HICANNCONFIG"
<1> DEFINE n == (Len(buf) + max_bulk - 1) \div max_bulk
           end(i) == IF i * max_bulk < Len(buf) THEN i * max_bulk ELSE Len(buf)
           piece(i) == Frame("HICANNCONFIG", SubSeq(buf, (i - 1) * max_bulk + 1, end(i)))
           S == {piece(i) : i \in 1 .. n}
<1>1. n \in Nat
  <2>1. Len(buf) \in Nat /\ max_bulk \in Nat \ {0}
    BY HostALAssumption, ListedIs DEF Listed
  <2>2. Len(buf) + max_bulk - 1 \in Nat
    BY <2>1
  <2> QED BY <2>1, <2>2
<1>2. Frames(buf) = [i \in 1 .. n |-> piece(i)]
  BY DEF Frames
<1>3. \A i \in 1 .. n : piece(i).pid = "HICANNCONFIG"
  BY DEF Frame
<1>4. \A i \in 1 .. n : piece(i) \in S
  OBVIOUS
<1> HIDE DEF n, piece, S
<1>5. Frames(buf) \in Seq(S) /\ DOMAIN Frames(buf) = 1 .. n
  BY <1>1, <1>2, <1>4
<1> QED BY <1>2, <1>3, <1>5, ListedIs
-----------------------------------------------------------------------------
(* At most one packet of configuration is under way in either direction;   *)
(* it carries the flags the host has cached, and once it is taken so has   *)
(* the FPGA.  What it starts has not ended yet.                            *)

IsConfig(f) == f.pid = "FPGACONFIG"

Streams ==
  /\ Listed(toFPGA) /\ Listed(toHost) /\ Listed(hiconf_bulk_buffer)
  /\ \A i \in DOMAIN toFPGA : toFPGA[i].pid \in {"HICANNCONFIG", "FPGACONFIG"}
  /\ playing \in {0, 1}

OnePacket ==
  /\ \A i, j \in DOMAIN toFPGA : IsConfig(toFPGA[i]) /\ IsConfig(toFPGA[j]) => i = j
  /\ Carries(toHost, "FPGACONFIG") \/ playing = 1 => ~Carries(toFPGA, "FPGACONFIG")

Settled(out) == out \in {"ok", "cached"}

FlagsOnTheirWay ==
  /\ \A i \in DOMAIN toFPGA : IsConfig(toFPGA[i]) => toFPGA[i].pdu.flags = HostFlags
  /\ ~Carries(toFPGA, "FPGACONFIG") => flags = HostFlags
  /\ pc # "config" /\ Settled(outcome) => ~Carries(toFPGA, "FPGACONFIG")

NothingStarts ==
  pb_end_address_received # 0 \/ Carries(toHost, "FPGAPLAYBACK") =>
    /\ playing = 0
    /\ \A i \in DOMAIN toFPGA :
         IsConfig(toFPGA[i]) => toFPGA[i].pdu.op # "startPlaybackTrace"

ConfigInv == Streams /\ OnePacket /\ FlagsOnTheirWay /\ NothingStarts

LEMMA ConfigInit == ASSUME Init PROVE ConfigInv
<1>1. DOMAIN <<>> = {}
  OBVIOUS
<1> QED BY <1>1, ListedEmpty
     DEF Init, ConfigInv, Streams, OnePacket, FlagsOnTheirWay, NothingStarts, Carries, Settled, HostFlags

\* A step that sends nothing but commands to the FPGA.
ConfigsKept ==
  /\ Listed(toFPGA')
  /\ \A i \in DOMAIN toFPGA' :
       toFPGA'[i].pid = "HICANNCONFIG" \/ (i \in DOMAIN toFPGA /\ toFPGA'[i] = toFPGA[i])
  /\ \A i \in DOMAIN toFPGA : i \in DOMAIN toFPGA' /\ toFPGA'[i] = toFPGA[i]

LEMMA UnchangedKept == ASSUME ConfigInv, UNCHANGED toFPGA PROVE ConfigsKept
BY DEF ConfigInv, Streams, ConfigsKept

LEMMA FlushKept ==
  ASSUME ConfigInv, NEW buf, Listed(buf), FlushBulk(buf)
  PROVE  ConfigsKept /\ Listed(hiconf_bulk_buffer')
<1> DEFINE s == toFPGA
           t == Frames(buf)
<1>1. Listed(s) /\ Listed(t) /\ \A i \in DOMAIN t : t[i].pid = "HICANNCONFIG"
  BY FramesFacts DEF ConfigInv, Streams
<1>2. toFPGA' = s \o t
  BY DEF FlushBulk
<1> HIDE DEF t
<1>3. /\ Listed(s \o t) /\ Len(s) \in Nat /\ Len(t) \in Nat
      /\ DOMAIN s = 1 .. Len(s) /\ DOMAIN t = 1 .. Len(t)
      /\ DOMAIN (s \o t) = 1 .. Len(s) + Len(t)
      /\ \A i \in 1 .. Len(s) : (s \o t)[i] = s[i]
      /\ \A i \in 1 .. Len(t) : (s \o t)[Len(s) + i] = t[i]
  BY <1>1, ListedConcat
<1>4. ASSUME NEW i \in DOMAIN (s \o t), i \notin DOMAIN s PROVE (s \o t)[i].pid = "HICANNCONFIG"
  <2>1. i - Len(s) \in 1 .. Len(t) /\ i = Len(s) + (i - Len(s))
    BY <1>3, <1>4
  <2>2. (s \o t)[i] = t[i - Len(s)]
    BY <1>3, <2>1
  <2> QED BY <1>1, <1>3, <2>1, <2>2
<1>5. \A i \in DOMAIN s : i \in DOMAIN (s \o t) /\ (s \o t)[i] = s[i]
  BY <1>3
<1>6. ConfigsKept
  BY <1>2, <1>3, <1>4, <1>5 DEF ConfigsKept
<1>7. Listed(hiconf_bulk_buffer')
  BY ListedEmpty DEF FlushBulk
<1> QED BY <1>6, <1>7

LEMMA KeptStep ==
  ASSUME ConfigInv, ConfigsKept, Listed(toHost'), Listed(hiconf_bulk_buffer'),
         UNCHANGED <<flags, flagVars, playing>>,
         Carries(toHost', "FPGACONFIG") => Carries(toHost, "FPGACONFIG"),
         pc' # "config" /\ Settled(outcome') => ~Carries(toFPGA, "FPGACONFIG"),
         pb_end_address_received' # 0 \/ Carries(toHost', "FPGAPLAYBACK") =>
           pb_end_address_received # 0 \/ Carries(toHost, "FPGAPLAYBACK")
  PROVE  ConfigInv'
<1>1. HostFlags' = HostFlags
  BY DEF HostFlags, flagVars
<1>2. Carries(toFPGA', "FPGACONFIG") <=> Carries(toFPGA, "FPGACONFIG")
  BY DEF Carries, ConfigsKept
<1>3. \A i \in DOMAIN toFPGA' : IsConfig(toFPGA'[i]) => i \in DOMAIN toFPGA /\ toFPGA'[i] = toFPGA[i]
  BY DEF ConfigsKept, IsConfig
<1>4. Streams'
  BY DEF ConfigInv, ConfigsKept, Streams
<1>5. OnePacket'
  BY <1>2, <1>3 DEF ConfigInv, OnePacket
<1>6. FlagsOnTheirWay'
  BY <1>1, <1>2, <1>3 DEF ConfigInv, FlagsOnTheirWay
<1>7. NothingStarts'
  BY <1>3 DEF ConfigInv, NothingStarts
<1> QED BY <1>4, <1>5, <1>6, <1>7 DEF ConfigInv

\* A packet of configuration is sent to an FPGA that owes nothing.
LEMMA SendStep ==
  ASSUME ConfigInv, ~Expected, NEW o,
         toFPGA' = Append(toFPGA, Frame("FPGACONFIG", [op |-> o, flags |-> HostFlags'])),
         pc' = "config", UNCHANGED <<toHost, hiconf_bulk_buffer, flags, playing>>,
         pb_end_address_received' # 0 =>
           pb_end_address_received # 0 /\ o # "startPlaybackTrace"
  PROVE  ConfigInv'
<1> DEFINE s == toFPGA
           x == Frame("FPGACONFIG", [op |-> o, flags |-> HostFlags'])
<1>1. Listed(s)
  BY DEF ConfigInv, Streams
<1>2. /\ Listed(Append(s, x)) /\ Len(s) \in Nat
      /\ DOMAIN s = 1 .. Len(s) /\ DOMAIN Append(s, x) = 1 .. Len(s) + 1
      /\ \A i \in 1 .. Len(s) : Append(s, x)[i] = s[i]
      /\ Append(s, x)[Len(s) + 1] = x
  BY <1>1, ListedAppend
<1>3. x.pid = "FPGACONFIG" /\ x.pdu.op = o /\ x.pdu.flags = HostFlags'
  BY DEF Frame
<1> HIDE DEF x
<1>4. toHost = <<>> /\ playing = 0 /\ ~Carries(s, "FPGACONFIG")
  BY DEF Expected, ConfigInv, Streams
<1>5. ~Carries(toHost', "FPGACONFIG") /\ ~Carries(toHost', "FPGAPLAYBACK")
  BY <1>4 DEF Carries
<1>6. \A i \in DOMAIN toFPGA' : (IsConfig(toFPGA'[i]) => i = Len(s) + 1 /\ toFPGA'[i] = x)
                              /\ toFPGA'[i].pid \in {"HICANNCONFIG", "FPGACONFIG"}
  <2>1. SUFFICES ASSUME NEW i \in 1 .. Len(s) + 1
        PROVE  /\ IsConfig(Append(s, x)[i]) => i = Len(s) + 1 /\ Append(s, x)[i] = x
               /\ Append(s, x)[i].pid \in {"HICANNCONFIG", "FPGACONFIG"}
    BY <1>2 DEF x
  <2>2. CASE i = Len(s) + 1
    BY <1>2, <1>3, <2>2
  <2>3. CASE i # Len(s) + 1
    <3>1. i \in DOMAIN s /\ Append(s, x)[i] = s[i]
      BY <1>2, <2>3
    <3> QED BY <1>4, <3>1 DEF IsConfig, Carries, ConfigInv, Streams
  <2> QED BY <2>2, <2>3
<1>7. Carries(toFPGA', "FPGACONFIG")
  <2>1. Len(s) + 1 \in DOMAIN Append(s, x) /\ Append(s, x)[Len(s) + 1].pid = "FPGACONFIG"
    BY <1>2, <1>3
  <2> QED BY <2>1 DEF Carries, x
<1>8. Streams'
  BY <1>2, <1>6 DEF ConfigInv, Streams, x
<1>9. OnePacket'
  BY <1>4, <1>5, <1>6 DEF OnePacket
<1>10. FlagsOnTheirWay'
  BY <1>3, <1>6, <1>7 DEF FlagsOnTheirWay
<1>11. NothingStarts'
  BY <1>3, <1>4, <1>5, <1>6 DEF NothingStarts
<1> QED BY <1>8, <1>9, <1>10, <1>11 DEF ConfigInv

\* The FPGA takes the first frame; configuration comes back to the host.
LEMMA TakesStep == ASSUME ConfigInv, FPGATakes PROVE ConfigInv'
<1> DEFINE s == toFPGA
           f == Head(s)
<1>1. /\ Listed(Tail(s)) /\ Len(s) \in Nat \ {0}
      /\ DOMAIN s = 1 .. Len(s) /\ DOMAIN Tail(s) = 1 .. Len(s) - 1
      /\ \A i \in 1 .. Len(s) - 1 : Tail(s)[i] = s[i + 1]
      /\ f = s[1]
  BY ListedTail DEF FPGATakes, ConfigInv, Streams
<1>2. toFPGA' = Tail(s)
  BY DEF FPGATakes
<1>3. \A i \in DOMAIN toFPGA' : i + 1 \in DOMAIN s /\ toFPGA'[i] = s[i + 1] /\ i + 1 # 1
  BY <1>1, <1>2
<1>4. \A i \in DOMAIN s : i = 1 \/ (i - 1 \in DOMAIN toFPGA' /\ toFPGA'[i - 1] = s[i])
  <2> SUFFICES ASSUME NEW i \in 1 .. Len(s), i # 1
               PROVE  i - 1 \in 1 .. Len(s) - 1 /\ Tail(s)[i - 1] = s[i]
    BY <1>1, <1>2
  <2>1. i - 1 \in 1 .. Len(s) - 1 /\ (i - 1) + 1 = i
    BY <1>1
  <2> QED BY <1>1, <2>1
<1>5. 1 \in DOMAIN s /\ s[1].pid \in {"HICANNCONFIG", "FPGACONFIG"}
  BY <1>1 DEF ConfigInv, Streams
<1>6. HostFlags' = HostFlags /\ pc' = pc /\ outcome' = outcome
      /\ pb_end_address_received' = pb_end_address_received
      /\ hiconf_bulk_buffer' = hiconf_bulk_buffer
  BY DEF FPGATakes, hostVars, flagVars, callVars, bulkVars, recVars, HostFlags
<1>7. CASE f.pid = "HICANNCONFIG"
  <2>1. toHost' = toHost /\ flags' = flags /\ playing' = playing
    BY <1>7 DEF FPGATakes
  <2>2. Carries(toFPGA', "FPGACONFIG") <=> Carries(s, "FPGACONFIG")
    <3>1. s[1].pid # "FPGACONFIG"
      BY <1>1, <1>7
    <3> QED BY <1>3, <1>4, <3>1 DEF Carries
  <2>3. Streams'
    BY <1>1, <1>2, <1>3, <1>6, <2>1 DEF ConfigInv, Streams
  <2>4. OnePacket'
    <3>1. ASSUME NEW i \in DOMAIN toFPGA', NEW j \in DOMAIN toFPGA',
                 IsConfig(toFPGA'[i]), IsConfig(toFPGA'[j])
          PROVE  i = j
      <4>1. i + 1 = j + 1
        BY <1>3, <3>1 DEF ConfigInv, OnePacket
      <4> QED BY <1>1, <1>2, <4>1
    <3> QED BY <2>1, <2>2, <3>1 DEF ConfigInv, OnePacket
  <2>5. FlagsOnTheirWay'
    BY <1>3, <1>6, <2>1, <2>2 DEF ConfigInv, FlagsOnTheirWay
  <2>6. NothingStarts'
    BY <1>3, <1>6, <2>1 DEF ConfigInv, NothingStarts
  <2> QED BY <2>3, <2>4, <2>5, <2>6 DEF ConfigInv
<1>8. CASE f.pid # "HICANNCONFIG"
  <2>1. s[1].pid = "FPGACONFIG" /\ IsConfig(s[1]) /\ s[1].pdu.flags = HostFlags
    BY <1>1, <1>5, <1>8 DEF IsConfig, ConfigInv, FlagsOnTheirWay
  <2>2. /\ flags' = HostFlags /\ toHost' = Append(toHost, s[1])
        /\ playing' = IF s[1].pdu.op = "startPlaybackTrace" THEN 1 ELSE playing
    BY <1>1, <1>8, <2>1 DEF FPGATakes
  <2>3. ~Carries(toFPGA', "FPGACONFIG") /\ \A i \in DOMAIN toFPGA' : ~IsConfig(toFPGA'[i])
    BY <1>3, <1>5, <2>1 DEF ConfigInv, OnePacket, Carries, IsConfig
  <2>4. Carries(s, "FPGACONFIG")
    BY <1>5, <2>1 DEF Carries
  <2>5. playing = 0
    BY <2>4 DEF ConfigInv, OnePacket, Streams
  <2>6. /\ Listed(toHost')
        /\ Carries(toHost', "FPGAPLAYBACK") => Carries(toHost, "FPGAPLAYBACK")
    <3>1. /\ Listed(Append(toHost, s[1])) /\ Len(toHost) \in Nat
          /\ DOMAIN toHost = 1 .. Len(toHost)
          /\ DOMAIN Append(toHost, s[1]) = 1 .. Len(toHost) + 1
          /\ \A i \in 1 .. Len(toHost) : Append(toHost, s[1])[i] = toHost[i]
          /\ Append(toHost, s[1])[Len(toHost) + 1] = s[1]
      BY ListedAppend DEF ConfigInv, Streams
    <3>2. ASSUME NEW i \in DOMAIN Append(toHost, s[1]),
                 Append(toHost, s[1])[i].pid = "FPGAPLAYBACK"
          PROVE  i \in DOMAIN toHost /\ toHost[i].pid = "FPGAPLAYBACK"
      <4>1. i # Len(toHost) + 1
        BY <2>1, <3>1, <3>2
      <4> QED BY <3>1, <3>2, <4>1
    <3> QED BY <2>2, <3>1, <3>2 DEF Carries
  <2>7. Streams'
    BY <1>1, <1>2, <1>3, <1>6, <2>2, <2>5, <2>6 DEF ConfigInv, Streams
  <2>8. OnePacket'
    BY <2>3 DEF OnePacket
  <2>9. FlagsOnTheirWay'
    BY <1>6, <2>2, <2>3 DEF FlagsOnTheirWay
  <2>10. NothingStarts'
    <3>1. ASSUME (pb_end_address_received # 0 \/ Carries(toHost, "FPGAPLAYBACK"))
          PROVE  playing' = 0
      BY <1>5, <2>1, <2>2, <3>1 DEF ConfigInv, NothingStarts
    <3> QED BY <1>6, <2>3, <2>6, <3>1 DEF NothingStarts
  <2> QED BY <2>7, <2>8, <2>9, <2>10 DEF ConfigInv
<1> QED BY <1>7, <1>8

\* A frame that is added to what is on its way to the host.
LEMMA ToHostAppend ==
  ASSUME ConfigInv, NEW x, toHost' = Append(toHost, x)
  PROVE  /\ Listed(toHost')
         /\ \A pid : Carries(toHost', pid) => Carries(toHost, pid) \/ x.pid = pid
<1>1. /\ Listed(Append(toHost, x)) /\ Len(toHost) \in Nat
      /\ DOMAIN toHost = 1 .. Len(toHost)
      /\ DOMAIN Append(toHost, x) = 1 .. Len(toHost) + 1
      /\ \A i \in 1 .. Len(toHost) : Append(toHost, x)[i] = toHost[i]
      /\ Append(toHost, x)[Len(toHost) + 1] = x
  BY ListedAppend DEF ConfigInv, Streams
<1>2. ASSUME NEW pid, NEW i \in DOMAIN Append(toHost, x), Append(toHost, x)[i].pid = pid
      PROVE  (\E j \in DOMAIN toHost : toHost[j].pid = pid) \/ x.pid = pid
  <2>1. CASE i = Len(toHost) + 1
    BY <1>1, <1>2, <2>1
  <2>2. CASE i # Len(toHost) + 1
    <3>1. i \in DOMAIN toHost /\ toHost[i].pid = pid
      BY <1>1, <1>2, <2>2
    <3> QED BY <3>1
  <2> QED BY <2>1, <2>2
<1> QED BY <1>1, <1>2 DEF Carries

\* All, or the first, of what has come is taken.
LEMMA ToHostTaken ==
  ASSUME ConfigInv, toHost' = <<>> \/ (toHost # <<>> /\ toHost' = Tail(toHost))
  PROVE  Listed(toHost') /\ \A pid : Carries(toHost', pid) => Carries(toHost, pid)
<1>1. CASE toHost' = <<>>
  BY <1>1, ListedEmpty DEF Carries
<1>2. CASE toHost # <<>> /\ toHost' = Tail(toHost)
  <2>1. /\ Listed(Tail(toHost)) /\ Len(toHost) \in Nat \ {0}
        /\ DOMAIN toHost = 1 .. Len(toHost) /\ DOMAIN Tail(toHost) = 1 .. Len(toHost) - 1
        /\ \A i \in 1 .. Len(toHost) - 1 : Tail(toHost)[i] = toHost[i + 1]
    BY <1>2, ListedTail DEF ConfigInv, Streams
  <2>2. \A i \in DOMAIN Tail(toHost) : i + 1 \in DOMAIN toHost /\ Tail(toHost)[i] = toHost[i + 1]
    BY <2>1
  <2> QED BY <1>2, <2>1, <2>2 DEF Carries
<1> QED BY <1>1, <1>2

\* A step that leaves configuration alone.
LEMMA QuietStep ==
  ASSUME ConfigInv, ConfigsKept, Listed(toHost'), Listed(hiconf_bulk_buffer'),
         UNCHANGED <<flags, flagVars, playing, outcome>>, pc # "config", pc' # "config",
         \A pid : Carries(toHost', pid) => Carries(toHost, pid),
         \/ pb_end_address_received' = pb_end_address_received
         \/ Carries(toHost, "FPGAPLAYBACK")
  PROVE  ConfigInv'
<1>1. pc' # "config" /\ Settled(outcome') => ~Carries(toFPGA, "FPGACONFIG")
  BY DEF ConfigInv, FlagsOnTheirWay
<1> QED BY <1>1, KeptStep

LEMMA HardwareStep == ASSUME ConfigInv, Hardware PROVE ConfigInv'
<1>1. CASE FPGATakes
  BY <1>1, TakesStep
<1>2. ASSUME UNCHANGED <<hostVars, toFPGA, flags, playing>>, Listed(toHost'),
             \A pid : Carries(toHost', pid) =>
               Carries(toHost, pid) \/ pid \in {"HICANNCONFIG", "FPGATRACE"}
      PROVE  ConfigInv'
  <2>1. UNCHANGED <<flagVars, pc, outcome, pb_end_address_received, hiconf_bulk_buffer>>
    BY <1>2 DEF hostVars, flagVars, callVars, recVars, bulkVars
  <2>2. pc' # "config" /\ Settled(outcome') => ~Carries(toFPGA, "FPGACONFIG")
    BY <2>1 DEF ConfigInv, FlagsOnTheirWay
  <2>3. ConfigsKept
    BY <1>2, UnchangedKept
  <2>4. Listed(hiconf_bulk_buffer')
    BY <2>1 DEF ConfigInv, Streams
  <2>5. /\ Carries(toHost', "FPGACONFIG") => Carries(toHost, "FPGACONFIG")
        /\ Carries(toHost', "FPGAPLAYBACK") => Carries(toHost, "FPGAPLAYBACK")
    BY <1>2
  <2> QED BY <1>2, <2>1, <2>2, <2>3, <2>4, <2>5, KeptStep
<1>3. ASSUME NEW d \in Dest, HICANNExecutes(d) PROVE ConfigInv'
  <2>1. UNCHANGED <<hostVars, toFPGA, flags, playing>>
    BY <1>3 DEF HICANNExecutes
  <2>2. \/ toHost' = toHost
        \/ toHost' = Append(toHost, Frame("HICANNCONFIG", <<Head(work[d])>>))
    BY <1>3 DEF HICANNExecutes
  <2>3. Frame("HICANNCONFIG", <<Head(work[d])>>).pid = "HICANNCONFIG"
    BY DEF Frame
  <2>4. CASE toHost' = toHost
    BY <1>2, <2>1, <2>4 DEF ConfigInv, Streams
  <2>5. CASE toHost' = Append(toHost, Frame("HICANNCONFIG", <<Head(work[d])>>))
    <3>1. Listed(toHost') /\ \A pid : Carries(toHost', pid) =>
            Carries(toHost, pid) \/ Frame("HICANNCONFIG", <<Head(work[d])>>).pid = pid
      BY <2>5, ToHostAppend
    <3> QED BY <1>2, <2>1, <2>3, <3>1
  <2> QED BY <2>2, <2>4, <2>5
<1>4. CASE FPGATraces
  <2>1. /\ UNCHANGED <<hostVars, toFPGA, flags, playing>>
        /\ toHost' = Append(toHost, Frame("FPGATRACE", "pulses"))
    BY <1>4 DEF FPGATraces
  <2>2. Listed(toHost') /\ \A pid : Carries(toHost', pid) =>
          Carries(toHost, pid) \/ Frame("FPGATRACE", "pulses").pid = pid
    BY <2>1, ToHostAppend
  <2>3. Frame("FPGATRACE", "pulses").pid = "FPGATRACE"
    BY DEF Frame
  <2> QED BY <1>2, <2>1, <2>2, <2>3
<1>5. CASE FPGAEndsPlayback
  <2>1. /\ UNCHANGED <<hostVars, toFPGA, flags>> /\ playing = 1 /\ playing' = 0
        /\ toHost' = Append(toHost, Frame("FPGAPLAYBACK", "address"))
    BY <1>5 DEF FPGAEndsPlayback, ConfigInv, Streams
  <2>2. Listed(toHost') /\ \A pid : Carries(toHost', pid) =>
          Carries(toHost, pid) \/ Frame("FPGAPLAYBACK", "address").pid = pid
    BY <2>1, ToHostAppend
  <2>3. Frame("FPGAPLAYBACK", "address").pid = "FPGAPLAYBACK"
    BY DEF Frame
  <2>4. ~Carries(toFPGA, "FPGACONFIG") /\ \A i \in DOMAIN toFPGA : ~IsConfig(toFPGA[i])
    BY <2>1 DEF ConfigInv, OnePacket, Carries, IsConfig
  <2>5. UNCHANGED <<flagVars, pc, outcome, pb_end_address_received, hiconf_bulk_buffer>>
    BY <2>1 DEF hostVars, flagVars, callVars, recVars, bulkVars
  <2>6. HostFlags' = HostFlags
    BY <2>5 DEF flagVars, HostFlags
  <2>7. Streams'
    BY <2>1, <2>2, <2>5 DEF ConfigInv, Streams
  <2>8. OnePacket' /\ NothingStarts'
    BY <2>1, <2>4 DEF OnePacket, NothingStarts
  <2>9. FlagsOnTheirWay'
    BY <2>1, <2>4, <2>5, <2>6 DEF ConfigInv, FlagsOnTheirWay
  <2> QED BY <2>7, <2>8, <2>9 DEF ConfigInv
<1> QED BY <1>1, <1>3, <1>4, <1>5 DEF Hardware

\* Reading and writing, with or without a look at what has come.
LEMMA CommandStep ==
  ASSUME ConfigInv, NEW d, NEW b \in BOOLEAN,
         \/ issueCommand(d, b) \/ recvData(d) \/ Flush \/ Poll(b)
         \/ getReceivedHICANNConfig \/ getReceivedHICANNConfigTimeout
  PROVE  ConfigInv'
<1>0. Listed(toHost) /\ Listed(hiconf_bulk_buffer)
  BY DEF ConfigInv, Streams
<1>1. CASE issueCommand(d, b)
  <2> DEFINE command == [dest |-> d, write |-> b, no |-> Len(issued) + 1]
             buf == Append(hiconf_bulk_buffer, command)
  <2>1. Listed(buf)
    BY <1>0, ListedAppend
  <2>2. /\ UNCHANGED <<flags, flagVars, playing, outcome, toHost, pb_end_address_received>>
        /\ pc = "idle" /\ pc' = "idle"
    BY <1>1 DEF issueCommand, callVars, recVars, fpgaVars
  <2>3. FlushBulk(buf) \/ (hiconf_bulk_buffer' = buf /\ UNCHANGED toFPGA)
    BY <1>1 DEF issueCommand
  <2>4. ConfigsKept /\ Listed(hiconf_bulk_buffer')
    BY <2>1, <2>3, FlushKept, UnchangedKept
  <2>5. Listed(toHost') /\ \A pid : Carries(toHost', pid) => Carries(toHost, pid)
    BY <1>0, <2>2
  <2> QED BY <2>2, <2>4, <2>5, QuietStep
<1>2. CASE recvData(d) \/ Flush
  <2>1. /\ UNCHANGED <<flags, flagVars, playing, outcome, toHost, pb_end_address_received>>
        /\ pc = "idle" /\ pc' # "config" /\ FlushBulk(hiconf_bulk_buffer)
    BY <1>2 DEF recvData, Flush, FlushFirst, callVars, recVars, fpgaVars
  <2>2. ConfigsKept /\ Listed(hiconf_bulk_buffer')
    BY <1>0, <2>1, FlushKept
  <2>3. Listed(toHost') /\ \A pid : Carries(toHost', pid) => Carries(toHost, pid)
    BY <1>0, <2>1
  <2> QED BY <2>1, <2>2, <2>3, QuietStep
<1>3. CASE Poll(b) \/ getReceivedHICANNConfig \/ getReceivedHICANNConfigTimeout
  <2>1. /\ UNCHANGED <<flags, flagVars, playing, outcome, toFPGA, hiconf_bulk_buffer>>
        /\ pc # "config" /\ pc' # "config"
    <3>1. CASE Poll(b)
      BY <3>1 DEF Poll, callVars, bulkVars, fpgaVars
    <3>2. CASE getReceivedHICANNConfig
      BY <3>2 DEF getReceivedHICANNConfig, Returns, bulkVars, fpgaVars
    <3>3. CASE getReceivedHICANNConfigTimeout
      BY <3>3 DEF getReceivedHICANNConfigTimeout, Returns, bulkVars, fpgaVars
    <3> QED BY <1>3, <3>1, <3>2, <3>3
  <2>2. /\ toHost' = <<>> \/ toHost' = toHost
        /\ \/ pb_end_address_received' = pb_end_address_received
           \/ Carries(toHost, "FPGAPLAYBACK")
    <3>1. CASE Poll(b)
      BY <3>1 DEF Poll
    <3>2. CASE getReceivedHICANNConfig
      BY <3>2 DEF getReceivedHICANNConfig, fill_receive_buffer
    <3>3. CASE getReceivedHICANNConfigTimeout
      BY <3>3 DEF getReceivedHICANNConfigTimeout, recVars
    <3> QED BY <1>3, <3>1, <3>2, <3>3
  <2>3. Listed(toHost') /\ \A pid : Carries(toHost', pid) => Carries(toHost, pid)
    BY <1>0, <2>2, ToHostTaken
  <2>4. ConfigsKept /\ Listed(hiconf_bulk_buffer')
    BY <1>0, <2>1, UnchangedKept
  <2> QED BY <2>1, <2>2, <2>3, <2>4, QuietStep
<1> QED BY <1>1, <1>2, <1>3

\* Configuration: sent, cached, confirmed, or given up.
LEMMA ConfigurationStep ==
  ASSUME Orderly, ConfigInv,
         NEW b \in BOOLEAN, NEW o,
         \/ setFPGAPulseLoopback(b) \/ setPlaybackSystimeReplacing(b) \/ Control(o)
         \/ ConfigAnswer \/ ConfigTimeout \/ reset
  PROVE  ConfigInv'
<1>0. Listed(toHost) /\ Listed(hiconf_bulk_buffer)
  BY DEF ConfigInv, Streams
<1>1. ~Expected => ~Carries(toFPGA, "FPGACONFIG")
  BY DEF Expected
<1>2. ASSUME ~Expected, UNCHANGED <<toFPGA, toHost, hiconf_bulk_buffer, flags, flagVars, playing,
                                    pb_end_address_received>>
      PROVE  ConfigInv'
  BY <1>0, <1>1, <1>2, UnchangedKept, KeptStep
<1>3. CASE setFPGAPulseLoopback(b)
  <2>1. /\ ~Expected /\ pulse_loopback_enable' = b
        /\ UNCHANGED <<hiconf_bulk_buffer, pb_end_address_received, pb_systime_replace_enable,
                       toHost, flags, playing>>
    BY <1>3 DEF setFPGAPulseLoopback, MayConfigure, bulkVars, recVars, fpgaVars
  <2>2. CASE pulse_loopback_enable # b
    <3>1. sendFPGAConfigPacket("flags", b, pb_systime_replace_enable)
      BY <1>3, <2>2 DEF setFPGAPulseLoopback
    <3>2. HostFlags' = [loopback |-> b, replace |-> pb_systime_replace_enable]
      BY <2>1 DEF HostFlags
    <3>3. toFPGA' = Append(toFPGA, Frame("FPGACONFIG", [op |-> "flags", flags |-> HostFlags']))
          /\ pc' = "config"
      BY <3>1, <3>2 DEF sendFPGAConfigPacket, Waits
    <3> QED BY <2>1, <3>3, SendStep
  <2>3. CASE pulse_loopback_enable = b
    <3>1. UNCHANGED toFPGA /\ UNCHANGED flagVars
      BY <1>3, <2>1, <2>3 DEF setFPGAPulseLoopback, Already, flagVars
    <3> QED BY <1>2, <2>1, <3>1
  <2> QED BY <2>2, <2>3
<1>4. CASE setPlaybackSystimeReplacing(b)
  <2>1. /\ ~Expected /\ pb_systime_replace_enable' = b
        /\ UNCHANGED <<hiconf_bulk_buffer, pb_end_address_received, pulse_loopback_enable,
                       toHost, flags, playing>>
    BY <1>4 DEF setPlaybackSystimeReplacing, MayConfigure, bulkVars, recVars, fpgaVars
  <2>2. CASE pb_systime_replace_enable # b
    <3>1. sendFPGAConfigPacket("flags", pulse_loopback_enable, b)
      BY <1>4, <2>2 DEF setPlaybackSystimeReplacing
    <3>2. HostFlags' = [loopback |-> pulse_loopback_enable, replace |-> b]
      BY <2>1 DEF HostFlags
    <3>3. toFPGA' = Append(toFPGA, Frame("FPGACONFIG", [op |-> "flags", flags |-> HostFlags']))
          /\ pc' = "config"
      BY <3>1, <3>2 DEF sendFPGAConfigPacket, Waits
    <3> QED BY <2>1, <3>3, SendStep
  <2>3. CASE pb_systime_replace_enable = b
    <3>1. UNCHANGED toFPGA /\ UNCHANGED flagVars
      BY <1>4, <2>1, <2>3 DEF setPlaybackSystimeReplacing, Already, flagVars
    <3> QED BY <1>2, <2>1, <3>1
  <2> QED BY <2>2, <2>3
<1>5. CASE Control(o)
  <2>1. /\ ~Expected /\ HostFlags' = HostFlags
        /\ UNCHANGED <<hiconf_bulk_buffer, toHost, flags, playing>>
        /\ pb_end_address_received' = EndAfter(o)
    BY <1>5 DEF Control, MayConfigure, bulkVars, flagVars, fpgaVars, HostFlags
  <2>2. HostFlags = [loopback |-> KeptFlags.loopback, replace |-> KeptFlags.replace]
    BY DEF HostFlags, KeptFlags
  <2>3. toFPGA' = Append(toFPGA, Frame("FPGACONFIG", [op |-> o, flags |-> HostFlags']))
        /\ pc' = "config"
    BY <1>5, <2>1, <2>2 DEF Control, sendFPGAConfigPacket, Waits
  <2>4. pb_end_address_received' # 0 => pb_end_address_received # 0 /\ o # "startPlaybackTrace"
    BY <2>1 DEF EndAfter
  <2> QED BY <2>1, <2>3, <2>4, SendStep
<1>6. CASE ConfigAnswer
  <2>1. /\ toHost # <<>> /\ toHost' = Tail(toHost) /\ pc' = "idle"
        /\ outcome' = IF Confirms(Head(toHost)) THEN "ok" ELSE "thrown"
        /\ UNCHANGED <<toFPGA, hiconf_bulk_buffer, flags, flagVars, playing, pb_end_address_received>>
    BY <1>6 DEF ConfigAnswer, bulkVars, recVars, fpgaVars
  <2>2. Listed(toHost') /\ \A pid : Carries(toHost', pid) => Carries(toHost, pid)
    BY <2>1, ToHostTaken
  <2>3. pc' # "config" /\ Settled(outcome') => ~Carries(toFPGA, "FPGACONFIG")
    <3>1. SUFFICES ASSUME Confirms(Head(toHost)) PROVE ~Carries(toFPGA, "FPGACONFIG")
      BY <2>1 DEF Settled
    <3>2. Head(toHost) = toHost[1] /\ 1 \in DOMAIN toHost
      BY <1>0, <2>1, ListedTail
    <3>3. Carries(toHost, "FPGACONFIG")
      BY <3>1, <3>2 DEF Confirms, Carries
    <3> QED BY <3>3 DEF ConfigInv, OnePacket
  <2> QED BY <1>0, <2>1, <2>2, <2>3, UnchangedKept, KeptStep
<1>7. CASE ConfigTimeout
  <2>1. /\ outcome' = "thrown"
        /\ UNCHANGED <<toHost, toFPGA, hiconf_bulk_buffer, flags, flagVars, playing,
                       pb_end_address_received>>
    BY <1>7 DEF ConfigTimeout, bulkVars, recVars, fpgaVars
  <2>2. ~Settled(outcome')
    BY <2>1 DEF Settled
  <2> QED BY <1>0, <2>1, <2>2, UnchangedKept, KeptStep
<1>8. CASE reset
  <2>1. /\ ~Expected /\ HostFlags = [loopback |-> FALSE, replace |-> FALSE]
        /\ pulse_loopback_enable' = FALSE /\ pb_systime_replace_enable' = FALSE
        /\ pb_end_address_received' = 0 /\ hiconf_bulk_buffer' = <<>>
        /\ UNCHANGED <<toFPGA, toHost, flags, playing>>
    BY <1>8 DEF reset, fpgaVars
  <2>2. UNCHANGED flagVars
    <3>1. HostFlags.loopback = FALSE /\ HostFlags.replace = FALSE
      BY <2>1
    <3> QED BY <2>1, <3>1 DEF HostFlags, flagVars
  <2>3. Listed(hiconf_bulk_buffer')
    BY <2>1, ListedEmpty
  <2> QED BY <1>0, <1>1, <2>1, <2>2, <2>3, UnchangedKept, KeptStep
<1> QED BY <1>3, <1>4, <1>5, <1>6, <1>7, <1>8

LEMMA ConfigStep == ASSUME Orderly, ConfigInv, [Next]_vars PROVE ConfigInv'
<1>1. CASE Hardware
  BY <1>1, HardwareStep
<1>2. ASSUME NEW d \in Dest, NEW b \in BOOLEAN, issueCommand(d, b) PROVE ConfigInv'
  BY <1>2, CommandStep
<1>3. ASSUME NEW d \in Dest, recvData(d) PROVE ConfigInv'
  BY <1>3, CommandStep
<1>4. CASE Flush \/ getReceivedHICANNConfig \/ getReceivedHICANNConfigTimeout
  BY <1>4, CommandStep
<1>5. ASSUME NEW b \in BOOLEAN, Poll(b) PROVE ConfigInv'
  BY <1>5, CommandStep
<1>6. ASSUME NEW b \in BOOLEAN, setFPGAPulseLoopback(b) \/ setPlaybackSystimeReplacing(b)
      PROVE  ConfigInv'
  BY <1>6, ConfigurationStep
<1>7. ASSUME NEW o \in Controls, Control(o) PROVE ConfigInv'
  BY <1>7, ConfigurationStep
<1>8. CASE ConfigAnswer \/ ConfigTimeout \/ reset
  BY <1>8, ConfigurationStep
<1>9. CASE UNCHANGED vars
  <2>1. /\ UNCHANGED <<flags, flagVars, playing, toHost, toFPGA, hiconf_bulk_buffer>>
        /\ UNCHANGED <<pc, outcome, pb_end_address_received>>
    BY <1>9 DEF vars, hostVars, fpgaVars, flagVars, callVars, recVars, bulkVars
  <2>2. pc' # "config" /\ Settled(outcome') => ~Carries(toFPGA, "FPGACONFIG")
    BY <2>1 DEF ConfigInv, FlagsOnTheirWay
  <2>3. Listed(toHost') /\ Listed(hiconf_bulk_buffer')
    BY <2>1 DEF ConfigInv, Streams
  <2> QED BY <2>1, <2>2, <2>3, UnchangedKept, KeptStep
<1>10. CASE Call
  BY <1>10, <1>2, <1>3, <1>4, <1>5, <1>6, <1>7, <1>8 DEF Call
<1>11. CASE Next
  BY <1>11, <1>1, <1>4, <1>8, <1>10 DEF Next, Answer
<1> QED BY <1>9, <1>11

\* Packets of configuration go one at a time and carry what the host has cached
\* (sendFPGAConfigPacket, host_al_controller.cpp:224-293).
THEOREM ConfigInvariant == ASSUME Orderly PROVE Spec => []ConfigInv
<1>1. Init => ConfigInv
  BY ConfigInit
<1>2. ConfigInv /\ [Next]_vars => ConfigInv'
  BY ConfigStep
<1> QED BY <1>1, <1>2, PTL DEF Spec

\* A configuration call that returns true leaves no packet of configuration
\* untaken, whatever commands, trace data and playback messages share the
\* streams, and though calls may time out (sendFPGAConfigPacket).
THEOREM ConfigConfirmedHolds == ASSUME Orderly PROVE Spec => []ConfigConfirmed
<1>1. ConfigInv => ConfigConfirmed
  BY DEF ConfigInv, FlagsOnTheirWay, Settled, ConfigConfirmed
<1> QED BY <1>1, ConfigInvariant, PTL

\* The flags the host has cached are those of the FPGA whenever a call has
\* returned true, sent or not (setFPGAPulseLoopback, setPlaybackSystimeReplacing).
THEOREM FlagsAgreeHolds == ASSUME Orderly PROVE Spec => []FlagsAgree
<1>1. ConfigInv => FlagsAgree
  BY DEF ConfigInv, FlagsOnTheirWay, Settled, FlagsAgree
<1> QED BY <1>1, ConfigInvariant, PTL

\* While a playback runs no end address of an earlier one can be read
\* (startPlaybackTrace, reset_fpga_times).
THEOREM EndIsCurrentHolds == ASSUME Orderly PROVE Spec => []EndIsCurrent
<1>1. ConfigInv => EndIsCurrent
  BY DEF ConfigInv, NothingStarts, EndIsCurrent
<1> QED BY <1>1, ConfigInvariant, PTL
-----------------------------------------------------------------------------
(* Commands and answers.  Wherever commands are kept they are in the order *)
(* in which they were issued.                                              *)

Command == [dest : Dest, write : BOOLEAN, no : Nat]

\* The commands of frames, one frame after the other.
Contents(f) == IF f.pid = "HICANNCONFIG" THEN f.pdu ELSE <<>>
Within(frames) == UNION {ToSet(Contents(frames[i])) : i \in DOMAIN frames}

For(S, d) == {c \in S : c.dest = d}

\* Commands for the destinations in D are in order.
Earlier(S, T, D) == \A a \in S, b \in T : a.dest \in D /\ b.dest \in D => a.no < b.no
Ordered(s, D) ==
  \A i, j \in DOMAIN s : i < j /\ s[i].dest \in D /\ s[j].dest \in D => s[i].no < s[j].no
Ascending(frames, D) ==
  /\ Listed(frames)
  /\ \A i \in DOMAIN frames : Contents(frames[i]) \in Seq(Command) /\ Ordered(Contents(frames[i]), D)
  /\ \A i, j \in DOMAIN frames :
       i < j => Earlier(ToSet(Contents(frames[i])), ToSet(Contents(frames[j])), D)

LEMMA OrderedNone == ASSUME NEW D PROVE <<>> \in Seq(Command) /\ Ordered(<<>>, D) /\ ToSet(<<>>) = {}
BY DEF Ordered, ToSet

LEMMA OrderedOne ==
  ASSUME NEW D, NEW c \in Command
  PROVE  <<c>> \in Seq(Command) /\ Ordered(<<c>>, D) /\ ToSet(<<c>>) = {c}
BY DEF Ordered, ToSet

LEMMA OrderedConcat ==
  ASSUME NEW D, NEW s \in Seq(Command), NEW t \in Seq(Command), Ordered(s, D), Ordered(t, D),
         Earlier(ToSet(s), ToSet(t), D)
  PROVE  /\ s \o t \in Seq(Command) /\ Ordered(s \o t, D)
         /\ ToSet(s \o t) = ToSet(s) \cup ToSet(t)
<1> DEFINE m == Len(s)
           n == Len(t)
           u == s \o t
<1>1. /\ u \in Seq(Command) /\ m \in Nat /\ n \in Nat
      /\ DOMAIN s = 1 .. m /\ DOMAIN t = 1 .. n /\ DOMAIN u = 1 .. m + n
      /\ \A k \in 1 .. m + n : u[k] = IF k <= m THEN s[k] ELSE t[k - m]
  BY ConcatProperties
<1> HIDE DEF m, n, u
<1>2. \A k \in 1 .. m : k \in DOMAIN u /\ u[k] = s[k]
  BY <1>1
<1>3. \A k \in 1 .. n : m + k \in DOMAIN u /\ u[m + k] = t[k]
  <2> SUFFICES ASSUME NEW k \in 1 .. n PROVE m + k \in 1 .. m + n /\ u[m + k] = t[k]
    BY <1>1
  <2>1. m + k \in 1 .. m + n /\ ~(m + k <= m) /\ (m + k) - m = k
    BY <1>1
  <2> QED BY <1>1, <2>1
<1>4. \A k \in DOMAIN u : \/ k \in 1 .. m /\ u[k] = s[k]
                          \/ k - m \in 1 .. n /\ k > m /\ u[k] = t[k - m]
  BY <1>1
<1>5. ToSet(u) = ToSet(s) \cup ToSet(t)
  <2>1. ASSUME NEW k \in DOMAIN u PROVE u[k] \in ToSet(s) \cup ToSet(t)
    BY <1>1, <1>4 DEF ToSet
  <2>2. ASSUME NEW k \in 1 .. m PROVE s[k] \in ToSet(u)
    BY <1>2 DEF ToSet
  <2>3. ASSUME NEW k \in 1 .. n PROVE t[k] \in ToSet(u)
    BY <1>3 DEF ToSet
  <2> QED BY <1>1, <2>1, <2>2, <2>3 DEF ToSet
<1>6. ASSUME NEW i \in DOMAIN u, NEW j \in DOMAIN u, i < j, u[i].dest \in D, u[j].dest \in D
      PROVE  u[i].no < u[j].no
  <2>1. CASE j \in 1 .. m /\ u[j] = s[j]
    <3>1. i \in 1 .. m /\ u[i] = s[i]
      BY <1>1, <1>2, <1>6, <2>1
    <3> QED BY <1>1, <1>6, <2>1, <3>1 DEF Ordered
  <2>2. CASE j - m \in 1 .. n /\ j > m /\ u[j] = t[j - m]
    <3>1. CASE i \in 1 .. m /\ u[i] = s[i]
      <4>1. s[i] \in ToSet(s) /\ t[j - m] \in ToSet(t)
        BY <1>1, <2>2, <3>1 DEF ToSet
      <4> QED BY <1>6, <2>2, <3>1, <4>1 DEF Earlier
    <3>2. CASE i - m \in 1 .. n /\ i > m /\ u[i] = t[i - m]
      <4>1. i - m < j - m
        BY <1>1, <1>6
      <4> QED BY <1>1, <1>6, <2>2, <3>2, <4>1 DEF Ordered
    <3> QED BY <1>4, <3>1, <3>2
  <2> QED BY <1>4, <2>1, <2>2
<1> QED BY <1>1, <1>5, <1>6 DEF Ordered, u

LEMMA OrderedAppend ==
  ASSUME NEW D, NEW s \in Seq(Command), NEW c \in Command, Ordered(s, D),
         Earlier(ToSet(s), {c}, D)
  PROVE  /\ Append(s, c) \in Seq(Command) /\ Ordered(Append(s, c), D)
         /\ ToSet(Append(s, c)) = ToSet(s) \cup {c}
<1>1. <<c>> \in Seq(Command) /\ Ordered(<<c>>, D) /\ ToSet(<<c>>) = {c}
  BY OrderedOne
<1>2. Append(s, c) = s \o <<c>>
  OBVIOUS
<1>3. Earlier(ToSet(s), ToSet(<<c>>), D)
  BY <1>1
<1> DEFINE t == <<c>>
<1>4. t \in Seq(Command) /\ Ordered(t, D) /\ Earlier(ToSet(s), ToSet(t), D) /\ ToSet(t) = {c}
  BY <1>1, <1>3
<1> HIDE DEF t
<1>5. s \o t \in Seq(Command) /\ Ordered(s \o t, D) /\ ToSet(s \o t) = ToSet(s) \cup ToSet(t)
  BY <1>4, OrderedConcat
<1> QED BY <1>2, <1>4, <1>5 DEF t

LEMMA OrderedTail ==
  ASSUME NEW D, NEW s \in Seq(Command), s # <<>>, Ordered(s, D)
  PROVE  /\ Tail(s) \in Seq(Command) /\ Ordered(Tail(s), D)
         /\ Head(s) \in Command /\ ToSet(s) = {Head(s)} \cup ToSet(Tail(s))
         /\ Earlier({Head(s)}, ToSet(Tail(s)), D)
<1> DEFINE n == Len(s)
           t == Tail(s)
<1>1. /\ t \in Seq(Command) /\ n \in Nat \ {0} /\ DOMAIN s = 1 .. n /\ DOMAIN t = 1 .. n - 1
      /\ \A k \in 1 .. n - 1 : t[k] = s[k + 1]
      /\ Head(s) = s[1] /\ s[1] \in Command
  OBVIOUS
<1> HIDE DEF n, t
<1>2. Ordered(t, D)
  <2> SUFFICES ASSUME NEW i \in 1 .. n - 1, NEW j \in 1 .. n - 1, i < j,
                      t[i].dest \in D, t[j].dest \in D
               PROVE  t[i].no < t[j].no
    BY <1>1 DEF Ordered
  <2>1. i + 1 \in DOMAIN s /\ j + 1 \in DOMAIN s /\ i + 1 < j + 1
    BY <1>1
  <2> QED BY <1>1, <2>1 DEF Ordered
<1>3. ToSet(s) = {s[1]} \cup ToSet(t)
  <2>1. ASSUME NEW k \in 1 .. n PROVE s[k] \in {s[1]} \cup ToSet(t)
    <3>1. CASE k = 1
      BY <3>1
    <3>2. CASE k # 1
      <4>1. k - 1 \in 1 .. n - 1 /\ (k - 1) + 1 = k
        BY <1>1, <3>2
      <4>2. t[k - 1] = s[k]
        BY <1>1, <4>1
      <4> QED BY <1>1, <4>1, <4>2 DEF ToSet
    <3> QED BY <3>1, <3>2
  <2>2. ASSUME NEW k \in 1 .. n - 1 PROVE t[k] \in ToSet(s)
    <3>1. k + 1 \in DOMAIN s
      BY <1>1
    <3> QED BY <1>1, <3>1 DEF ToSet
  <2>3. s[1] \in ToSet(s)
    BY <1>1 DEF ToSet
  <2> QED BY <1>1, <2>1, <2>2, <2>3 DEF ToSet
<1>4. Earlier({s[1]}, ToSet(t), D)
  <2> SUFFICES ASSUME NEW k \in 1 .. n - 1, s[1].dest \in D, t[k].dest \in D
               PROVE  s[1].no < t[k].no
    BY <1>1 DEF Earlier, ToSet
  <2>1. k + 1 \in DOMAIN s /\ 1 \in DOMAIN s /\ 1 < k + 1
    BY <1>1
  <2> QED BY <1>1, <2>1 DEF Ordered
<1> QED BY <1>1, <1>2, <1>3, <1>4 DEF t

\* A set of numbers has a first one.
LEMMA Least ==
  ASSUME NEW S \in SUBSET Nat, S # {}
  PROVE  \E c \in S : \A d \in S : c <= d
<1>1. PICK c \in S : \A d \in S : ~(<<d, c>> \in OpToRel(<, Nat))
  BY WFMin, NatLessThanWellFounded, Zenon
<1>2. ASSUME NEW d \in S PROVE c <= d
  <2>1. <<d, c>> \in Nat \X Nat
    BY SMT
  <2>2. <<d, c>> \notin {p \in Nat \X Nat : p[1] < p[2]}
    BY <1>1, Zenon DEF OpToRel
  <2>3. ~(<<d, c>>[1] < <<d, c>>[2])
    BY <2>1, <2>2
  <2> QED BY <2>3
<1> QED BY <1>2

\* What FlattenSeq is computed with, and that it is there.
Flattens(q, f) ==
  f = [i \in 1 .. Len(q) |-> IF i = 1 THEN q[i] ELSE f[i - 1] \o q[i]]

LEMMA Flattened ==
  ASSUME NEW q, Len(q) \in Nat \ {0}
  PROVE  \E f : Flattens(q, f) /\ FlattenSeq(q) = f[Len(q)]
<1> DEFINE P(f, n) == f = [i \in 1 .. n |-> IF i = 1 THEN q[i] ELSE f[i - 1] \o q[i]]
           S == {n \in Nat : ~\E f : P(f, n)}
<1>1. S = {}
  <2> SUFFICES ASSUME S # {} PROVE FALSE
    OBVIOUS
  <2>1. S \in SUBSET Nat
    OBVIOUS
  <2>2. PICK c \in S : \A d \in S : c <= d
    <3> HIDE DEF S
    <3> QED BY <2>1, Least
  <2>3. CASE c = 0
    <3>1. P([i \in 1 .. 0 |-> 0], 0)
      OBVIOUS
    <3> QED BY <2>2, <2>3, <3>1
  <2>4. CASE c # 0
    <3>1. c \in Nat /\ c - 1 \in Nat /\ ~(c <= c - 1)
      BY <2>4
    <3>2. PICK f : P(f, c - 1)
      BY <2>2, <3>1
    <3> DEFINE g == [i \in 1 .. c |-> IF i = c THEN IF c = 1 THEN q[c] ELSE f[c - 1] \o q[c] ELSE f[i]]
    <3>3. ASSUME NEW i \in 1 .. c
          PROVE  g[i] = IF i = 1 THEN q[i] ELSE g[i - 1] \o q[i]
      <4>1. CASE i = c
        <5>1. i # 1 => i - 1 \in 1 .. c /\ i - 1 # c
          BY <3>1, <4>1
        <5> QED BY <4>1, <5>1
      <4>2. CASE i # c
        <5>1. i \in 1 .. c - 1
          BY <3>1, <4>2
        <5>2. f[i] = IF i = 1 THEN q[i] ELSE f[i - 1] \o q[i]
          BY <3>2, <5>1
        <5>3. i # 1 => i - 1 \in 1 .. c /\ i - 1 # c
          BY <3>1, <5>1
        <5> QED BY <4>2, <5>2, <5>3
      <4> QED BY <4>1, <4>2
    <3>4. P(g, c)
      <4> DEFINE h == [i \in 1 .. c |-> IF i = 1 THEN q[i] ELSE g[i - 1] \o q[i]]
      <4>1. g = [i \in 1 .. c |-> g[i]]
        OBVIOUS
      <4>2. \A i \in 1 .. c : g[i] = h[i]
        BY <3>3
      <4> HIDE DEF g
      <4> QED BY <4>1, <4>2
    <3> QED BY <3>4
  <2> QED BY <2>3, <2>4
<1>2. \E f : Flattens(q, f)
  <2> HIDE DEF P
  <2>1. PICK f : P(f, Len(q))
    BY <1>1
  <2>2. Flattens(q, f)
    BY <2>1 DEF P, Flattens
  <2> QED BY <2>2
<1>3. FlattenSeq(q) = (CHOOSE f : Flattens(q, f))[Len(q)]
  BY DEF FlattenSeq, Flattens
<1> DEFINE e == CHOOSE f : Flattens(q, f)
<1>4. Flattens(q, e)
  BY <1>2
<1> QED BY <1>3, <1>4

\* Sequences in order, each after the one before it, make one in order.
LEMMA FlatOrdered ==
  ASSUME NEW D, NEW q, Listed(q),
         \A i \in DOMAIN q : q[i] \in Seq(Command) /\ Ordered(q[i], D),
         \A i, j \in DOMAIN q : i < j => Earlier(ToSet(q[i]), ToSet(q[j]), D)
  PROVE  /\ FlattenSeq(q) \in Seq(Command) /\ Ordered(FlattenSeq(q), D)
         /\ ToSet(FlattenSeq(q)) = UNION {ToSet(q[i]) : i \in DOMAIN q}
<1>1. Len(q) \in Nat /\ DOMAIN q = 1 .. Len(q)
  BY ListedIs DEF Listed
<1>2. CASE Len(q) = 0
  <2>1. q = <<>> /\ FlattenSeq(q) = q /\ DOMAIN q = {}
    BY <1>1, <1>2 DEF Listed, FlattenSeq
  <2> QED BY <2>1, OrderedNone
<1>3. CASE Len(q) # 0
  <2> DEFINE n == Len(q)
             U(k) == UNION {ToSet(q[i]) : i \in 1 .. k}
  <2>1. PICK f : Flattens(q, f) /\ FlattenSeq(q) = f[n]
    BY <1>1, <1>3, Flattened
  <2>2. n \in Nat /\ n # 0 /\ DOMAIN q = 1 .. n
    BY <1>1, <1>3
  <2>3. \A k \in 1 .. n : f[k] = IF k = 1 THEN q[k] ELSE f[k - 1] \o q[k]
    BY <2>1 DEF Flattens
  <2> HIDE DEF n
  <2> DEFINE Good(k) == f[k] \in Seq(Command) /\ Ordered(f[k], D) /\ ToSet(f[k]) = U(k)
             S == {k \in 1 .. n : ~Good(k)}
  <2> HIDE DEF Good
  <2>4. S = {}
    <3> SUFFICES ASSUME S # {} PROVE FALSE
      OBVIOUS
    <3>1. S \in SUBSET Nat
      BY <2>2
    <3>2. PICK c \in S : \A d \in S : c <= d
      <4> HIDE DEF S
      <4> QED BY <3>1, Least
    <3>3. CASE c = 1
      <4>1. f[c] = q[c] /\ c \in DOMAIN q /\ U(c) = ToSet(q[c])
        BY <2>2, <2>3, <3>3
      <4>2. Good(c)
        BY <4>1 DEF Good
      <4> QED BY <4>2
    <3>4. CASE c # 1
      <4>1. c \in 1 .. n /\ c - 1 \in 1 .. n /\ ~(c <= c - 1) /\ f[c] = f[c - 1] \o q[c]
        <5>1. c \in 1 .. n
          OBVIOUS
        <5>2. c - 1 \in 1 .. n /\ ~(c <= c - 1)
          BY <2>2, <3>4, <5>1
        <5> QED BY <2>3, <3>4, <5>1, <5>2
      <4>2. Good(c - 1)
        BY <3>2, <4>1
      <4>3. U(c) = U(c - 1) \cup ToSet(q[c])
        <5>1. 1 .. c = (1 .. c - 1) \cup {c}
          BY <2>2, <4>1
        <5> QED BY <5>1
      <4>4. Earlier(U(c - 1), ToSet(q[c]), D)
        <5> SUFFICES ASSUME NEW i \in 1 .. c - 1 PROVE Earlier(ToSet(q[i]), ToSet(q[c]), D)
          BY DEF Earlier
        <5>1. i \in DOMAIN q /\ c \in DOMAIN q /\ i < c
          BY <2>2, <4>1
        <5> QED BY <5>1
      <4>5. q[c] \in Seq(Command) /\ Ordered(q[c], D)
        BY <2>2, <4>1
      <4> DEFINE s == f[c - 1]
                 t == q[c]
      <4>6. s \in Seq(Command) /\ Ordered(s, D) /\ ToSet(s) = U(c - 1)
        BY <4>2 DEF Good
      <4>7. t \in Seq(Command) /\ Ordered(t, D) /\ Earlier(ToSet(s), ToSet(t), D)
        BY <4>4, <4>5, <4>6
      <4>8. f[c] = s \o t
        BY <4>1
      <4> HIDE DEF s, t, U
      <4>9. s \o t \in Seq(Command) /\ Ordered(s \o t, D) /\ ToSet(s \o t) = ToSet(s) \cup ToSet(t)
        BY <4>6, <4>7, OrderedConcat
      <4>10. Good(c)
        BY <4>3, <4>6, <4>8, <4>9 DEF t, Good
      <4> QED BY <4>10
    <3> QED BY <3>3, <3>4
  <2>5. n \in 1 .. n
    BY <2>2
  <2>6. Good(n)
    BY <2>4, <2>5
  <2> QED BY <2>1, <2>2, <2>6 DEF Good
<1> QED BY <1>2, <1>3

LEMMA ToOrdered ==
  ASSUME NEW d, NEW D, d \in D, NEW s \in Seq(Command), Ordered(s, {d})
  PROVE  /\ To(d, s) \in Seq(Command) /\ Ordered(To(d, s), D)
         /\ ToSet(To(d, s)) = For(ToSet(s), d)
<1> DEFINE q == [i \in DOMAIN s |-> IF s[i].dest = d THEN <<s[i]>> ELSE <<>>]
<1>1. Len(s) \in Nat /\ DOMAIN s = 1 .. Len(s) /\ \A i \in DOMAIN s : s[i] \in Command
  OBVIOUS
<1>2. Listed(q) /\ DOMAIN q = DOMAIN s
  <2> DEFINE R == {q[i] : i \in DOMAIN s}
  <2>1. q \in [1 .. Len(s) -> R]
    BY <1>1
  <2> HIDE DEF R, q
  <2>2. q \in Seq(R) /\ DOMAIN q = DOMAIN s
    BY <1>1, <2>1
  <2> QED BY <2>2, ListedIs
<1>3. \A i \in DOMAIN s : /\ q[i] \in Seq(Command) /\ Ordered(q[i], D)
                          /\ ToSet(q[i]) = {c \in {s[i]} : c.dest = d}
  BY <1>1, OrderedOne, OrderedNone
<1>4. ASSUME NEW i \in DOMAIN q, NEW j \in DOMAIN q, i < j
      PROVE  Earlier(ToSet(q[i]), ToSet(q[j]), D)
  BY <1>2, <1>3, <1>4 DEF Ordered, Earlier
<1>5. To(d, s) = FlattenSeq(q)
  BY DEF To
<1> HIDE DEF q
<1>6. /\ FlattenSeq(q) \in Seq(Command) /\ Ordered(FlattenSeq(q), D)
      /\ ToSet(FlattenSeq(q)) = UNION {ToSet(q[i]) : i \in DOMAIN q}
  BY <1>2, <1>3, <1>4, FlatOrdered
<1>7. UNION {ToSet(q[i]) : i \in DOMAIN q} = For(ToSet(s), d)
  BY <1>2, <1>3 DEF For, ToSet
<1> QED BY <1>5, <1>6, <1>7

LEMMA CommandsOrdered ==
  ASSUME NEW D, NEW frames, Ascending(frames, D)
  PROVE  /\ Commands(frames) \in Seq(Command) /\ Ordered(Commands(frames), D)
         /\ ToSet(Commands(frames)) = Within(frames)
<1> DEFINE q == [i \in DOMAIN frames |-> Contents(frames[i])]
<1>1. Len(frames) \in Nat /\ DOMAIN frames = 1 .. Len(frames)
  BY ListedIs DEF Ascending, Listed
<1>2. Listed(q) /\ DOMAIN q = DOMAIN frames
  <2> DEFINE R == {q[i] : i \in DOMAIN frames}
  <2>1. q \in [1 .. Len(frames) -> R]
    BY <1>1
  <2> HIDE DEF R, q
  <2>2. q \in Seq(R) /\ DOMAIN q = DOMAIN frames
    BY <1>1, <2>1
  <2> QED BY <2>2, ListedIs
<1>3. \A i \in DOMAIN frames : q[i] = Contents(frames[i])
  OBVIOUS
<1>4. Commands(frames) = FlattenSeq(q)
  BY DEF Commands, Contents
<1> HIDE DEF q
<1>5. \A i \in DOMAIN q : q[i] \in Seq(Command) /\ Ordered(q[i], D)
  BY <1>2, <1>3 DEF Ascending
<1>6. \A i, j \in DOMAIN q : i < j => Earlier(ToSet(q[i]), ToSet(q[j]), D)
  BY <1>2, <1>3 DEF Ascending
<1>7. /\ FlattenSeq(q) \in Seq(Command) /\ Ordered(FlattenSeq(q), D)
      /\ ToSet(FlattenSeq(q)) = UNION {ToSet(q[i]) : i \in DOMAIN q}
  BY <1>2, <1>5, <1>6, FlatOrdered
<1>8. UNION {ToSet(q[i]) : i \in DOMAIN q} = Within(frames)
  BY <1>2, <1>3 DEF Within
<1> QED BY <1>4, <1>7, <1>8

LEMMA AscendingNone == ASSUME NEW D PROVE Ascending(<<>>, D) /\ Within(<<>>) = {}
BY ListedEmpty DEF Ascending, Within

LEMMA AscendingConcat ==
  ASSUME NEW D, NEW s, NEW t, Ascending(s, D), Ascending(t, D), Earlier(Within(s), Within(t), D)
  PROVE  Ascending(s \o t, D) /\ Within(s \o t) = Within(s) \cup Within(t)
<1> DEFINE m == Len(s)
           n == Len(t)
           u == s \o t
<1>1. /\ Listed(u) /\ m \in Nat /\ n \in Nat
      /\ DOMAIN s = 1 .. m /\ DOMAIN t = 1 .. n /\ DOMAIN u = 1 .. m + n
      /\ \A k \in 1 .. m : u[k] = s[k]
      /\ \A k \in 1 .. n : u[m + k] = t[k]
  BY ListedConcat DEF Ascending
<1> HIDE DEF m, n, u
<1>2. \A k \in DOMAIN u : \/ k \in 1 .. m /\ u[k] = s[k]
                          \/ k - m \in 1 .. n /\ k > m /\ u[k] = t[k - m]
  <2> SUFFICES ASSUME NEW k \in 1 .. m + n, ~(k \in 1 .. m)
               PROVE  k - m \in 1 .. n /\ k > m /\ u[k] = t[k - m]
    BY <1>1
  <2>1. k - m \in 1 .. n /\ m + (k - m) = k /\ k > m
    BY <1>1
  <2>2. u[m + (k - m)] = t[k - m]
    BY <1>1, <2>1
  <2> QED BY <2>1, <2>2
<1>3. \A k \in 1 .. n : m + k \in DOMAIN u
  BY <1>1
<1>4. \A i \in DOMAIN u : Contents(u[i]) \in Seq(Command) /\ Ordered(Contents(u[i]), D)
  BY <1>1, <1>2 DEF Ascending
<1>5. ASSUME NEW i \in DOMAIN u, NEW j \in DOMAIN u, i < j
      PROVE  Earlier(ToSet(Contents(u[i])), ToSet(Contents(u[j])), D)
  <2>1. CASE j \in 1 .. m /\ u[j] = s[j]
    <3>1. i \in 1 .. m /\ u[i] = s[i]
      BY <1>1, <1>5, <2>1
    <3> QED BY <1>1, <1>5, <2>1, <3>1 DEF Ascending
  <2>2. CASE j - m \in 1 .. n /\ j > m /\ u[j] = t[j - m]
    <3>1. CASE i \in 1 .. m /\ u[i] = s[i]
      <4>1. /\ ToSet(Contents(s[i])) \subseteq Within(s)
            /\ ToSet(Contents(t[j - m])) \subseteq Within(t)
        BY <1>1, <2>2, <3>1 DEF Within
      <4> QED BY <2>2, <3>1, <4>1 DEF Earlier
    <3>2. CASE i - m \in 1 .. n /\ i > m /\ u[i] = t[i - m]
      <4>1. i - m < j - m
        BY <1>1, <1>5
      <4> QED BY <1>1, <2>2, <3>2, <4>1 DEF Ascending
    <3> QED BY <1>2, <3>1, <3>2
  <2> QED BY <1>2, <2>1, <2>2
<1>6. Within(u) = Within(s) \cup Within(t)
  <2>1. ASSUME NEW k \in DOMAIN u PROVE ToSet(Contents(u[k])) \subseteq Within(s) \cup Within(t)
    BY <1>1, <1>2 DEF Within
  <2>2. ASSUME NEW k \in 1 .. m PROVE ToSet(Contents(s[k])) \subseteq Within(u)
    <3>1. k \in DOMAIN u /\ u[k] = s[k]
      BY <1>1
    <3> QED BY <3>1 DEF Within
  <2>3. ASSUME NEW k \in 1 .. n PROVE ToSet(Contents(t[k])) \subseteq Within(u)
    <3>1. m + k \in DOMAIN u /\ u[m + k] = t[k]
      BY <1>1, <1>3
    <3> QED BY <3>1 DEF Within
  <2> QED BY <1>1, <2>1, <2>2, <2>3 DEF Within
<1> QED BY <1>1, <1>4, <1>5, <1>6 DEF Ascending, u

LEMMA AscendingOne ==
  ASSUME NEW D, NEW x, Contents(x) \in Seq(Command), Ordered(Contents(x), D)
  PROVE  Ascending(<<x>>, D) /\ Within(<<x>>) = ToSet(Contents(x))
<1>1. <<x>> \in Seq({x}) /\ DOMAIN <<x>> = {1} /\ <<x>>[1] = x
  OBVIOUS
<1>2. Listed(<<x>>)
  BY <1>1, ListedIs
<1> QED BY <1>1, <1>2 DEF Ascending, Within

LEMMA AscendingAppend ==
  ASSUME NEW D, NEW s, NEW x, Ascending(s, D), Contents(x) \in Seq(Command),
         Ordered(Contents(x), D), Earlier(Within(s), ToSet(Contents(x)), D)
  PROVE  Ascending(Append(s, x), D) /\ Within(Append(s, x)) = Within(s) \cup ToSet(Contents(x))
<1> DEFINE t == <<x>>
<1>1. Ascending(t, D) /\ Within(t) = ToSet(Contents(x))
  BY AscendingOne
<1>2. Append(s, x) = s \o t
  <2> DEFINE S == {s[i] : i \in DOMAIN s} \cup {x}
  <2>1. s \in Seq({s[i] : i \in DOMAIN s}) /\ {s[i] : i \in DOMAIN s} \subseteq S
    BY DEF Ascending, Listed
  <2>2. s \in Seq(S)
    BY <2>1, SeqMonotonic
  <2>3. x \in S
    OBVIOUS
  <2> HIDE DEF S
  <2> QED BY <2>2, <2>3
<1> HIDE DEF t
<1>3. Earlier(Within(s), Within(t), D)
  BY <1>1
<1>4. Ascending(s \o t, D) /\ Within(s \o t) = Within(s) \cup Within(t)
  BY <1>1, <1>3, AscendingConcat
<1> QED BY <1>1, <1>2, <1>4

LEMMA AscendingTail ==
  ASSUME NEW D, NEW s, Ascending(s, D), s # <<>>
  PROVE  /\ Ascending(Tail(s), D) /\ Within(s) = ToSet(Contents(Head(s))) \cup Within(Tail(s))
         /\ Contents(Head(s)) \in Seq(Command) /\ Ordered(Contents(Head(s)), D)
         /\ Earlier(ToSet(Contents(Head(s))), Within(Tail(s)), D)
<1> DEFINE n == Len(s)
           t == Tail(s)
<1>1. /\ Listed(t) /\ n \in Nat \ {0} /\ DOMAIN s = 1 .. n /\ DOMAIN t = 1 .. n - 1
      /\ \A i \in 1 .. n - 1 : t[i] = s[i + 1]
      /\ Head(s) = s[1]
  BY ListedTail DEF Ascending
<1> HIDE DEF n, t
<1>2. \A i \in DOMAIN t : i + 1 \in DOMAIN s /\ t[i] = s[i + 1] /\ 1 < i + 1
  BY <1>1
<1>3. 1 \in DOMAIN s
  BY <1>1
<1>4. ASSUME NEW i \in DOMAIN t, NEW j \in DOMAIN t, i < j
      PROVE  Earlier(ToSet(Contents(t[i])), ToSet(Contents(t[j])), D)
  <2>1. i + 1 < j + 1
    BY <1>1, <1>4
  <2> QED BY <1>2, <2>1 DEF Ascending
<1>5. Ascending(t, D)
  BY <1>1, <1>2, <1>4 DEF Ascending
<1>6. Within(s) = ToSet(Contents(s[1])) \cup Within(t)
  <2>1. ASSUME NEW k \in DOMAIN s PROVE ToSet(Contents(s[k])) \subseteq ToSet(Contents(s[1])) \cup Within(t)
    <3>1. CASE k = 1
      BY <3>1
    <3>2. CASE k # 1
      <4>1. k - 1 \in DOMAIN t /\ (k - 1) + 1 = k
        BY <1>1, <3>2
      <4>2. t[k - 1] = s[k]
        BY <1>2, <4>1
      <4> QED BY <4>1, <4>2 DEF Within
    <3> QED BY <3>1, <3>2
  <2>2. ASSUME NEW k \in DOMAIN t PROVE ToSet(Contents(t[k])) \subseteq Within(s)
    BY <1>2 DEF Within
  <2>3. ToSet(Contents(s[1])) \subseteq Within(s)
    BY <1>3 DEF Within
  <2> QED BY <2>1, <2>2, <2>3 DEF Within
<1>7. Earlier(ToSet(Contents(s[1])), Within(t), D)
  <2> SUFFICES ASSUME NEW k \in DOMAIN t PROVE Earlier(ToSet(Contents(s[1])), ToSet(Contents(t[k])), D)
    BY DEF Earlier, Within
  <2> QED BY <1>2, <1>3 DEF Ascending
<1>8. Contents(s[1]) \in Seq(Command) /\ Ordered(Contents(s[1]), D)
  BY <1>3 DEF Ascending
<1> QED BY <1>1, <1>5, <1>6, <1>7, <1>8 DEF t

LEMMA SubOrdered ==
  ASSUME NEW D, NEW s \in Seq(Command), Ordered(s, D), NEW a \in 1 .. Len(s), NEW b \in 1 .. Len(s)
  PROVE  /\ SubSeq(s, a, b) \in Seq(Command) /\ Ordered(SubSeq(s, a, b), D)
         /\ ToSet(SubSeq(s, a, b)) = {s[k] : k \in a .. b}
<1> DEFINE n == Len(s)
           l == IF a <= b THEN b - a + 1 ELSE 0
           u == SubSeq(s, a, b)
<1>1. n \in Nat /\ a \in 1 .. n /\ b \in 1 .. n /\ DOMAIN s = 1 .. n /\ l \in Nat
  OBVIOUS
<1>2. u = [i \in 1 .. l |-> s[a + i - 1]]
  BY <1>1
<1>3. \A i \in 1 .. l : a + i - 1 \in a .. b
  BY <1>1
<1>4. \A i \in 1 .. l : a + i - 1 \in DOMAIN s
  BY <1>1, <1>3
<1>5. u \in Seq(Command) /\ DOMAIN u = 1 .. l
  <2>1. \A i \in 1 .. l : s[a + i - 1] \in Command
    BY <1>4
  <2> HIDE DEF u, l
  <2> QED BY <1>1, <1>2, <2>1
<1>6. Ordered(u, D)
  <2> SUFFICES ASSUME NEW i \in 1 .. l, NEW j \in 1 .. l, i < j, u[i].dest \in D, u[j].dest \in D
               PROVE  u[i].no < u[j].no
    BY <1>5 DEF Ordered
  <2>1. a + i - 1 < a + j - 1
    BY <1>1
  <2>2. u[i] = s[a + i - 1] /\ u[j] = s[a + j - 1]
    BY <1>2
  <2> QED BY <1>4, <2>1, <2>2 DEF Ordered
<1>7. ToSet(u) = {s[k] : k \in a .. b}
  <2>1. ASSUME NEW k \in a .. b PROVE s[k] \in ToSet(u)
    <3>1. k - a + 1 \in 1 .. l /\ a + (k - a + 1) - 1 = k
      BY <1>1
    <3>2. u[k - a + 1] = s[k]
      BY <1>2, <3>1
    <3> QED BY <1>5, <3>1, <3>2 DEF ToSet
  <2>2. ASSUME NEW i \in 1 .. l PROVE u[i] \in {s[k] : k \in a .. b}
    BY <1>2, <1>3
  <2> QED BY <1>5, <2>1, <2>2 DEF ToSet
<1> QED BY <1>5, <1>6, <1>7

LEMMA Division ==
  ASSUME NEW x \in Nat, NEW m \in Nat \ {0}
  PROVE  x \div m \in Nat /\ (x \div m) * m <= x /\ x < (x \div m) * m + m
<1>1. x \div m \in Nat
  OBVIOUS
<1>2. (x \div m) * m <= x /\ x < (x \div m) * m + m
  OBVIOUS
<1> QED BY <1>1, <1>2

\* How many frames it takes, and which one an entry goes into.
LEMMA Pieces ==
  ASSUME NEW m \in Nat \ {0}, NEW l \in Nat
  PROVE  LET n == (l + m - 1) \div m
         IN  /\ n \in Nat
             /\ \A i \in 1 .. n : (i - 1) * m + 1 \in 1 .. l
             /\ \A k \in 1 .. l : \E i \in 1 .. n : (i - 1) * m < k /\ k <= i * m
<1> DEFINE x == l + m - 1
           n == x \div m
<1>1. n \in Nat /\ n * m <= l + m - 1 /\ l + m - 1 < n * m + m
  <2>1. x \in Nat
    OBVIOUS
  <2> HIDE DEF x
  <2>2. x \div m \in Nat /\ (x \div m) * m <= x /\ x < (x \div m) * m + m
    BY <2>1, Division
  <2> QED BY <2>2 DEF x
<1> HIDE DEF n
<1>2. \A i \in Nat, j \in Nat : i <= j => i * m <= j * m
  OBVIOUS
<1>3. n * m \in Nat /\ l <= n * m
  BY <1>1
<1>4. ASSUME NEW i \in 1 .. n PROVE (i - 1) * m + 1 \in 1 .. l
  <2>1. i \in Nat /\ i * m <= n * m /\ (i - 1) * m = i * m - m /\ (i - 1) * m \in Nat
    BY <1>1, <1>2
  <2> QED BY <1>1, <2>1
<1>5. ASSUME NEW k \in 1 .. l PROVE \E i \in 1 .. n : (i - 1) * m < k /\ k <= i * m
  <2> DEFINE S == {i \in Nat : k <= i * m}
  <2>1. n \in S
    BY <1>1, <1>3
  <2>2. PICK i \in S : \A j \in S : i <= j
    <3>1. S \in SUBSET Nat /\ S # {}
      BY <2>1
    <3> HIDE DEF S
    <3> QED BY <3>1, Least
  <2>3. i \in Nat /\ k <= i * m /\ i <= n /\ 0 * m = 0
    BY <2>1, <2>2
  <2>4. i # 0
    BY <2>3
  <2>5. i - 1 \in Nat /\ ~(i <= i - 1)
    BY <2>3, <2>4
  <2>6. ~(k <= (i - 1) * m)
    BY <2>2, <2>5
  <2>7. (i - 1) * m \in Nat
    BY <2>5
  <2> QED BY <1>1, <2>3, <2>4, <2>6, <2>7
<1> QED BY <1>1, <1>4, <1>5 DEF n, x

\* Frames hold what was buffered, in its order.
LEMMA FramesAscending ==
  ASSUME NEW D, NEW buf \in Seq(Command), Ordered(buf, D)
  PROVE  Ascending(Frames(buf), D) /\ Within(Frames(buf)) = ToSet(buf)
<1> DEFINE l == Len(buf)
           m == max_bulk
           n == (l + m - 1) \div m
           end(i) == IF i * m < l THEN i * m ELSE l
           piece(i) == SubSeq(buf, (i - 1) * m + 1, end(i))
<1>1. m \in Nat \ {0} /\ l \in Nat /\ DOMAIN buf = 1 .. l
  BY HostALAssumption
<1>2. /\ n \in Nat
      /\ \A i \in 1 .. n : (i - 1) * m + 1 \in 1 .. l
      /\ \A k \in 1 .. l : \E i \in 1 .. n : (i - 1) * m < k /\ k <= i * m
  BY <1>1, Pieces
<1>3. /\ Listed(Frames(buf)) /\ DOMAIN Frames(buf) = 1 .. n
      /\ \A i \in 1 .. n : Contents(Frames(buf)[i]) = piece(i)
  <2>1. Listed(buf)
    BY ListedIs
  <2>2. Listed(Frames(buf))
    BY <2>1, FramesFacts
  <2>3. Frames(buf) = [i \in 1 .. n |-> Frame("HICANNCONFIG", piece(i))]
    BY DEF Frames
  <2> HIDE DEF n, piece
  <2>4. \A i : Contents(Frame("HICANNCONFIG", piece(i))) = piece(i)
    BY DEF Contents, Frame
  <2> QED BY <2>2, <2>3, <2>4
<1>4. ASSUME NEW i \in 1 .. n
      PROVE  /\ piece(i) \in Seq(Command) /\ Ordered(piece(i), D)
             /\ ToSet(piece(i)) = {buf[k] : k \in (i - 1) * m + 1 .. end(i)}
  <2> DEFINE a == (i - 1) * m + 1
             b == end(i)
  <2>1. a \in 1 .. l
    BY <1>2
  <2>2. b \in 1 .. l
    <3>1. i \in Nat \ {0} /\ i * m \in Nat \ {0}
      BY <1>1, <1>2
    <3> QED BY <1>1, <2>1, <3>1
  <2> HIDE DEF a, b
  <2>3. /\ SubSeq(buf, a, b) \in Seq(Command) /\ Ordered(SubSeq(buf, a, b), D)
        /\ ToSet(SubSeq(buf, a, b)) = {buf[k] : k \in a .. b}
    BY <2>1, <2>2, SubOrdered
  <2> QED BY <2>3 DEF a, b
<1>5. \A i \in 1 .. n : \A k \in (i - 1) * m + 1 .. end(i) : k \in 1 .. l /\ k <= i * m /\ (i - 1) * m < k
  <2> SUFFICES ASSUME NEW i \in 1 .. n, NEW k \in (i - 1) * m + 1 .. end(i)
               PROVE  k \in 1 .. l /\ k <= i * m /\ (i - 1) * m < k
    OBVIOUS
  <2>1. (i - 1) * m + 1 \in 1 .. l /\ i * m \in Int /\ (i - 1) * m \in Int
    BY <1>1, <1>2
  <2> QED BY <1>1, <2>1
<1> HIDE DEF n, piece
<1>6. ASSUME NEW i \in 1 .. n, NEW j \in 1 .. n, i < j
      PROVE  Earlier(ToSet(piece(i)), ToSet(piece(j)), D)
  <2> SUFFICES ASSUME NEW k \in (i - 1) * m + 1 .. end(i), NEW h \in (j - 1) * m + 1 .. end(j),
                      buf[k].dest \in D, buf[h].dest \in D
               PROVE  buf[k].no < buf[h].no
    BY <1>4 DEF Earlier
  <2>1. i * m <= (j - 1) * m /\ i * m \in Int /\ (j - 1) * m \in Int
    <3>1. i \in Nat /\ j - 1 \in Nat /\ i <= j - 1
      BY <1>2, <1>6
    <3> QED BY <1>1, <3>1
  <2>2. k \in 1 .. l /\ h \in 1 .. l /\ k <= i * m /\ (j - 1) * m < h
    BY <1>5
  <2>3. k < h
    BY <1>1, <2>1, <2>2
  <2> QED BY <1>1, <2>2, <2>3 DEF Ordered
<1>7. Within(Frames(buf)) = ToSet(buf)
  <2>0. ToSet(buf) = {buf[k] : k \in 1 .. l}
    BY <1>1 DEF ToSet
  <2>1. ASSUME NEW i \in 1 .. n PROVE ToSet(piece(i)) \subseteq ToSet(buf)
    <3> SUFFICES ASSUME NEW k \in (i - 1) * m + 1 .. end(i) PROVE buf[k] \in ToSet(buf)
      BY <1>4
    <3> QED BY <1>5, <2>0
  <2>2. ASSUME NEW k \in 1 .. l PROVE \E i \in 1 .. n : buf[k] \in ToSet(piece(i))
    <3>1. PICK i \in 1 .. n : (i - 1) * m < k /\ k <= i * m
      BY <1>2
    <3>2. k \in (i - 1) * m + 1 .. end(i)
      <4>1. i * m \in Int /\ (i - 1) * m \in Int
        BY <1>1, <1>2
      <4> QED BY <1>1, <3>1, <4>1
    <3>3. buf[k] \in ToSet(piece(i))
      BY <1>4, <3>2
    <3> QED BY <3>3
  <2> DEFINE P == UNION {ToSet(piece(i)) : i \in 1 .. n}
  <2>3. Within(Frames(buf)) = P
    BY <1>3 DEF Within
  <2>4. P \subseteq ToSet(buf)
    BY <2>1
  <2>5. ToSet(buf) \subseteq P
    BY <2>0, <2>2
  <2> QED BY <2>3, <2>4, <2>5
<1> QED BY <1>3, <1>4, <1>6, <1>7 DEF Ascending
-----------------------------------------------------------------------------
(* Commands on their way to the FPGA.                                      *)
\* Between issue and the hands of the FPGA: the last commands issued, all of them.
Way == Within(toFPGA) \cup ToSet(hiconf_bulk_buffer)

WayInv ==
  /\ issued \in Seq(Command) /\ \A n \in DOMAIN issued : issued[n].no = n
  /\ hiconf_bulk_buffer \in Seq(Command) /\ Ordered(hiconf_bulk_buffer, Dest)
  /\ Ascending(toFPGA, Dest)
  /\ Earlier(Within(toFPGA), ToSet(hiconf_bulk_buffer), Dest)
  /\ Way \subseteq ToSet(issued)
  /\ \A c \in Way : \A e \in ToSet(issued) : c.no <= e.no => e \in Way

\* What is issued is numbered, in order and once.
LEMMA IssuedNumbers ==
  ASSUME WayInv
  PROVE  /\ Len(issued) \in Nat /\ DOMAIN issued = 1 .. Len(issued)
         /\ \A c \in ToSet(issued) : c \in Command /\ c.no \in 1 .. Len(issued) /\ c = issued[c.no]
<1>1. Len(issued) \in Nat /\ DOMAIN issued = 1 .. Len(issued)
  BY DEF WayInv
<1>2. ASSUME NEW c \in ToSet(issued)
      PROVE  c \in Command /\ c.no \in 1 .. Len(issued) /\ c = issued[c.no]
  <2>1. PICK n \in DOMAIN issued : c = issued[n]
    BY DEF ToSet
  <2> QED BY <1>1, <2>1 DEF WayInv
<1> QED BY <1>1, <1>2

LEMMA WayInit == ASSUME Init PROVE WayInv /\ Way = {}
<1>1. /\ <<>> \in Seq(Command) /\ Ordered(<<>>, Dest) /\ ToSet(<<>>) = {}
      /\ Ascending(<<>>, Dest) /\ Within(<<>>) = {} /\ DOMAIN <<>> = {}
  BY OrderedNone, AscendingNone
<1>2. issued = <<>> /\ hiconf_bulk_buffer = <<>> /\ toFPGA = <<>>
  BY DEF Init
<1> QED BY <1>1, <1>2 DEF WayInv, Way, Earlier

\* A flush sends what is buffered behind what was sent before.
LEMMA FlushWay ==
  ASSUME WayInv, NEW buf \in Seq(Command), Ordered(buf, Dest),
         Earlier(Within(toFPGA), ToSet(buf), Dest), FlushBulk(buf)
  PROVE  /\ Ascending(toFPGA', Dest) /\ Within(toFPGA') = Within(toFPGA) \cup ToSet(buf)
         /\ hiconf_bulk_buffer' \in Seq(Command) /\ Ordered(hiconf_bulk_buffer', Dest)
         /\ Earlier(Within(toFPGA'), ToSet(hiconf_bulk_buffer'), Dest)
         /\ Way' = Within(toFPGA) \cup ToSet(buf)
<1> DEFINE t == Frames(buf)
<1>1. Ascending(t, Dest) /\ Within(t) = ToSet(buf)
  BY FramesAscending
<1>2. toFPGA' = toFPGA \o t /\ hiconf_bulk_buffer' = <<>>
  BY DEF FlushBulk
<1> HIDE DEF t
<1>3. Ascending(toFPGA, Dest) /\ Earlier(Within(toFPGA), Within(t), Dest)
  BY <1>1 DEF WayInv
<1>4. Ascending(toFPGA \o t, Dest) /\ Within(toFPGA \o t) = Within(toFPGA) \cup Within(t)
  BY <1>1, <1>3, AscendingConcat
<1>5. <<>> \in Seq(Command) /\ Ordered(<<>>, Dest) /\ ToSet(<<>>) = {}
  BY OrderedNone
<1> QED BY <1>1, <1>2, <1>4, <1>5 DEF Way, Earlier

\* Steps that neither issue nor take a command.
LEMMA WayKept ==
  ASSUME WayInv, issued' = issued, Way' = Way, Ascending(toFPGA', Dest),
         hiconf_bulk_buffer' \in Seq(Command), Ordered(hiconf_bulk_buffer', Dest),
         Earlier(Within(toFPGA'), ToSet(hiconf_bulk_buffer'), Dest)
  PROVE  WayInv'
BY DEF WayInv

LEMMA WayFlush ==
  ASSUME WayInv, FlushBulk(hiconf_bulk_buffer), issued' = issued
  PROVE  WayInv' /\ Way' = Way
<1>1. /\ hiconf_bulk_buffer \in Seq(Command) /\ Ordered(hiconf_bulk_buffer, Dest)
      /\ Earlier(Within(toFPGA), ToSet(hiconf_bulk_buffer), Dest)
  BY DEF WayInv
<1>2. /\ Ascending(toFPGA', Dest)
      /\ hiconf_bulk_buffer' \in Seq(Command) /\ Ordered(hiconf_bulk_buffer', Dest)
      /\ Earlier(Within(toFPGA'), ToSet(hiconf_bulk_buffer'), Dest)
      /\ Way' = Within(toFPGA) \cup ToSet(hiconf_bulk_buffer)
  BY <1>1, FlushWay
<1>3. Way' = Way
  BY <1>2 DEF Way
<1> QED BY <1>2, <1>3, WayKept

LEMMA WayConfig ==
  ASSUME WayInv, NEW content, toFPGA' = Append(toFPGA, Frame("FPGACONFIG", content)),
         UNCHANGED <<issued, hiconf_bulk_buffer>>
  PROVE  WayInv' /\ Way' = Way /\ Within(toFPGA') = Within(toFPGA)
<1> DEFINE x == Frame("FPGACONFIG", content)
<1>1. Contents(x) = <<>>
  BY DEF Contents, Frame
<1>2. toFPGA' = Append(toFPGA, x) /\ Ascending(toFPGA, Dest)
  BY DEF WayInv
<1> HIDE DEF x
<1>3. Contents(x) \in Seq(Command) /\ Ordered(Contents(x), Dest) /\ ToSet(Contents(x)) = {}
  BY <1>1, OrderedNone
<1>4. Earlier(Within(toFPGA), ToSet(Contents(x)), Dest)
  BY <1>3 DEF Earlier
<1>5. Ascending(toFPGA', Dest) /\ Within(toFPGA') = Within(toFPGA) \cup ToSet(Contents(x))
  <2>1. /\ Ascending(Append(toFPGA, x), Dest)
        /\ Within(Append(toFPGA, x)) = Within(toFPGA) \cup ToSet(Contents(x))
    BY <1>2, <1>3, <1>4, AscendingAppend
  <2> QED BY <1>2, <2>1
<1>6. Way' = Way /\ Within(toFPGA') = Within(toFPGA)
  BY <1>3, <1>5 DEF Way
<1> QED BY <1>5, <1>6, WayKept DEF WayInv

\* The command that is issued comes last.
LEMMA WayIssue ==
  ASSUME WayInv, NEW d \in Dest, NEW b \in BOOLEAN, issueCommand(d, b)
  PROVE  LET c == [dest |-> d, write |-> b, no |-> Len(issued) + 1]
         IN  /\ WayInv' /\ Way' = Way \cup {c} /\ ToSet(issued') = ToSet(issued) \cup {c}
             /\ \A e \in ToSet(issued) : e.no < c.no
<1> DEFINE c == [dest |-> d, write |-> b, no |-> Len(issued) + 1]
           buf == Append(hiconf_bulk_buffer, c)
           N == Len(issued)
<1>1. /\ N \in Nat /\ DOMAIN issued = 1 .. N
      /\ \A e \in ToSet(issued) : e \in Command /\ e.no \in 1 .. N
  BY IssuedNumbers
<1>2. c \in Command /\ c.no = N + 1
  BY <1>1 DEF Command
<1>3. issued' = Append(issued, c) /\ (FlushBulk(buf) \/ (hiconf_bulk_buffer' = buf /\ toFPGA' = toFPGA))
  BY DEF issueCommand
<1>4. \A e \in ToSet(issued) : e.no < c.no
  BY <1>1, <1>2
<1>5. Earlier(ToSet(issued), {c}, Dest)
  BY <1>4 DEF Earlier
<1>6. /\ hiconf_bulk_buffer \in Seq(Command) /\ Ordered(hiconf_bulk_buffer, Dest)
      /\ Earlier(ToSet(hiconf_bulk_buffer), {c}, Dest) /\ Earlier(Within(toFPGA), {c}, Dest)
      /\ Earlier(Within(toFPGA), ToSet(hiconf_bulk_buffer), Dest) /\ Way \subseteq ToSet(issued)
      /\ issued \in Seq(Command)
  BY <1>5 DEF WayInv, Way, Earlier
<1> HIDE DEF c
<1>7. buf \in Seq(Command) /\ Ordered(buf, Dest) /\ ToSet(buf) = ToSet(hiconf_bulk_buffer) \cup {c}
  BY <1>2, <1>6, OrderedAppend
<1>8. Earlier(Within(toFPGA), ToSet(buf), Dest)
  BY <1>6, <1>7 DEF Earlier
<1> HIDE DEF buf
<1>9. /\ Ascending(toFPGA', Dest)
      /\ hiconf_bulk_buffer' \in Seq(Command) /\ Ordered(hiconf_bulk_buffer', Dest)
      /\ Earlier(Within(toFPGA'), ToSet(hiconf_bulk_buffer'), Dest)
      /\ Way' = Within(toFPGA) \cup ToSet(buf)
  <2>1. CASE FlushBulk(buf)
    BY <1>7, <1>8, <2>1, FlushWay
  <2>2. CASE hiconf_bulk_buffer' = buf /\ toFPGA' = toFPGA
    BY <1>7, <1>8, <2>2 DEF Way, WayInv
  <2> QED BY <1>3, <2>1, <2>2
<1>10. Way' = Way \cup {c}
  BY <1>7, <1>9 DEF Way
<1>11. /\ issued' \in Seq(Command) /\ DOMAIN issued' = 1 .. N + 1
       /\ \A n \in 1 .. N : issued'[n] = issued[n]
       /\ issued'[N + 1] = c
  BY <1>1, <1>2, <1>3, <1>6
<1> HIDE DEF N
<1>12. ToSet(issued') = ToSet(issued) \cup {c}
  <2>1. 1 .. N + 1 = (1 .. N) \cup {N + 1}
    BY <1>1
  <2> QED BY <1>1, <1>11, <2>1 DEF ToSet
<1>13. \A n \in DOMAIN issued' : issued'[n].no = n
  <2> SUFFICES ASSUME NEW n \in 1 .. N + 1 PROVE issued'[n].no = n
    BY <1>11
  <2>1. n \in 1 .. N \/ n = N + 1
    BY <1>1
  <2> QED BY <1>1, <1>2, <1>11, <2>1 DEF WayInv
<1>14. WayInv'
  <2>1. Way' \subseteq ToSet(issued')
    BY <1>6, <1>10, <1>12
  <2>2. ASSUME NEW a \in Way', NEW e \in ToSet(issued'), a.no <= e.no PROVE e \in Way'
    <3>1. CASE e = c
      BY <1>10, <3>1
    <3>2. CASE e # c
      <4>1. e \in ToSet(issued) /\ e.no < c.no /\ e.no \in Nat
        BY <1>1, <1>4, <1>12, <3>2
      <4>2. a # c
        BY <1>1, <1>2, <2>2, <4>1
      <4>3. a \in Way
        BY <1>10, <4>2
      <4> QED BY <1>10, <2>2, <4>1, <4>3 DEF WayInv
    <3> QED BY <3>1, <3>2
  <2> QED BY <1>9, <1>11, <1>13, <2>1, <2>2 DEF WayInv
<1> QED BY <1>4, <1>10, <1>12, <1>14 DEF c

\* The FPGA takes the commands of the first frame.
LEMMA WayTakes ==
  ASSUME WayInv, FPGATakes
  PROVE  LET x == Contents(Head(toFPGA))
         IN  /\ WayInv' /\ x \in Seq(Command) /\ Ordered(x, Dest)
             /\ Way = ToSet(x) \cup Way' /\ Earlier(ToSet(x), Way', Dest)
             /\ Within(toFPGA') \subseteq Within(toFPGA) /\ ToSet(x) \subseteq Within(toFPGA)
             /\ ToSet(issued') = ToSet(issued)
<1> DEFINE x == Contents(Head(toFPGA))
<1>1. /\ Ascending(toFPGA, Dest) /\ toFPGA # <<>> /\ toFPGA' = Tail(toFPGA)
      /\ issued' = issued /\ hiconf_bulk_buffer' = hiconf_bulk_buffer
  BY DEF WayInv, FPGATakes, hostVars, bulkVars
<1>2. /\ Ascending(toFPGA', Dest) /\ Within(toFPGA) = ToSet(x) \cup Within(toFPGA')
      /\ x \in Seq(Command) /\ Ordered(x, Dest) /\ Earlier(ToSet(x), Within(toFPGA'), Dest)
  BY <1>1, AscendingTail
<1> HIDE DEF x
<1>3. Way = ToSet(x) \cup Way' /\ Earlier(ToSet(x), Way', Dest)
      /\ Earlier(Within(toFPGA'), ToSet(hiconf_bulk_buffer'), Dest)
  BY <1>1, <1>2 DEF Way, WayInv, Earlier
<1>4. Way \subseteq ToSet(issued) /\ Way' \subseteq ToSet(issued')
  BY <1>1, <1>3 DEF WayInv
<1>5. ASSUME NEW c \in Way', NEW e \in ToSet(issued'), c.no <= e.no PROVE e \in Way'
  <2>1. c \in Way /\ e \in ToSet(issued) /\ e \in Way
    BY <1>1, <1>3, <1>5 DEF WayInv
  <2>2. ASSUME e \in ToSet(x) PROVE FALSE
    <3>1. c \in ToSet(issued)
      BY <1>4, <2>1
    <3>2. c.dest \in Dest /\ e.dest \in Dest /\ c.no \in Nat /\ e.no \in Nat
      BY <2>1, <3>1, IssuedNumbers DEF Command
    <3>3. e.no < c.no
      BY <1>3, <2>2, <3>2 DEF Earlier
    <3> QED BY <1>5, <3>2, <3>3
  <2> QED BY <1>3, <2>1, <2>2
<1>6. WayInv'
  BY <1>1, <1>2, <1>3, <1>4, <1>5 DEF WayInv
<1> QED BY <1>1, <1>2, <1>3, <1>6 DEF x

\* What is on its way, in one sequence.
LEMMA QueuedOrdered ==
  ASSUME WayInv
  PROVE  LET queued == Commands(toFPGA) \o hiconf_bulk_buffer
         IN  queued \in Seq(Command) /\ Ordered(queued, Dest) /\ ToSet(queued) = Way
<1> DEFINE s == Commands(toFPGA)
           t == hiconf_bulk_buffer
<1>1. s \in Seq(Command) /\ Ordered(s, Dest) /\ ToSet(s) = Within(toFPGA)
  BY CommandsOrdered DEF WayInv
<1>2. t \in Seq(Command) /\ Ordered(t, Dest) /\ Earlier(ToSet(s), ToSet(t), Dest)
  BY <1>1 DEF WayInv
<1>3. ToSet(s) \cup ToSet(t) = Way
  BY <1>1 DEF Way
<1> HIDE DEF s, t
<1>4. s \o t \in Seq(Command) /\ Ordered(s \o t, Dest) /\ ToSet(s \o t) = ToSet(s) \cup ToSet(t)
  BY <1>1, <1>2, OrderedConcat
<1> QED BY <1>3, <1>4 DEF s, t

\* In order and up to the last one, the commands are the last ones: counted from
\* the end, the first that is not where it belongs would leave one out.
LEMMA WayIsLast == ASSUME WayInv PROVE CommandsInOrder
<1> DEFINE q == Commands(toFPGA) \o hiconf_bulk_buffer
           L == Len(q)
           N == Len(issued)
<1>1. q \in Seq(Command) /\ Ordered(q, Dest) /\ ToSet(q) = Way
  BY QueuedOrdered
<1>2. CommandsInOrder <=> L <= N /\ q = SubSeq(issued, N - L + 1, N)
  BY DEF CommandsInOrder
<1> HIDE DEF q
<1>3. L \in Nat /\ DOMAIN q = 1 .. L /\ N \in Nat /\ DOMAIN issued = 1 .. N
      /\ q = [i \in 1 .. L |-> q[i]] /\ issued \in Seq(Command)
  BY <1>1, IssuedNumbers DEF WayInv
<1>4. \A i \in 1 .. L : /\ q[i] \in Way /\ q[i] \in ToSet(issued) /\ q[i].no \in 1 .. N
                        /\ q[i] = issued[q[i].no] /\ q[i].dest \in Dest
  <2> SUFFICES ASSUME NEW i \in 1 .. L
               PROVE  /\ q[i] \in Way /\ q[i] \in ToSet(issued) /\ q[i].no \in 1 .. N
                      /\ q[i] = issued[q[i].no] /\ q[i].dest \in Dest
    OBVIOUS
  <2>1. q[i] \in Way
    BY <1>1, <1>3 DEF ToSet
  <2>2. q[i] \in ToSet(issued)
    BY <2>1 DEF WayInv
  <2> QED BY <2>1, <2>2, IssuedNumbers DEF Command
<1>5. \A i, j \in 1 .. L : i < j => q[i].no < q[j].no
  BY <1>1, <1>3, <1>4 DEF Ordered
<1>6. \A n \in 1 .. N : \A i \in 1 .. L : q[i].no <= n => \E j \in 1 .. L : q[j].no = n
  <2> SUFFICES ASSUME NEW n \in 1 .. N, NEW i \in 1 .. L, q[i].no <= n
               PROVE  \E j \in 1 .. L : q[j].no = n
    OBVIOUS
  <2>1. issued[n] \in ToSet(issued) /\ issued[n].no = n
    BY <1>3 DEF WayInv, ToSet
  <2>2. issued[n] \in Way
    BY <1>4, <2>1 DEF WayInv
  <2>3. PICK j \in DOMAIN q : q[j] = issued[n]
    BY <1>1, <2>2 DEF ToSet
  <2> QED BY <1>3, <2>1, <2>3
<1> HIDE DEF L, N
<1> DEFINE S == {k \in 0 .. L - 1 : q[L - k].no # N - k}
<1>7. S = {}
  <2> SUFFICES ASSUME S # {} PROVE FALSE
    OBVIOUS
  <2>1. S \in SUBSET Nat
    BY <1>3
  <2>2. PICK k \in S : \A m \in S : k <= m
    <3> HIDE DEF S
    <3> QED BY <2>1, Least
  <2>3. k \in 0 .. L - 1 /\ k \in Nat /\ q[L - k].no # N - k
    BY <1>3
  <2>4. L - k \in 1 .. L
    BY <1>3, <2>3
  <2>5. \A j \in 1 .. L : j > L - k => q[j].no > N - k
    <3> SUFFICES ASSUME NEW j \in 1 .. L, j > L - k PROVE q[j].no > N - k
      OBVIOUS
    <3>1. L - j \in 0 .. L - 1 /\ ~(k <= L - j) /\ L - (L - j) = j
      <4>1. L \in Nat /\ k \in Nat
        BY <1>3, <2>3
      <4>2. L - j \in 0 .. L - 1 /\ L - (L - j) = j
        BY <4>1
      <4>3. L - j < k
        BY <4>1
      <4> QED BY <4>1, <4>2, <4>3
    <3>2. L - j \notin S
      BY <2>2, <3>1
    <3>3. q[j].no = N - (L - j)
      BY <3>1, <3>2
    <3> QED BY <1>3, <2>3, <3>1, <3>3
  <2>6. q[L - k].no <= N - k
    <3>1. CASE k = 0
      BY <1>3, <1>4, <2>4, <3>1
    <3>2. CASE k # 0
      <4>1. k - 1 \in 0 .. L - 1 /\ ~(k <= k - 1) /\ L - (k - 1) \in 1 .. L /\ L - k < L - (k - 1)
        BY <1>3, <2>3, <3>2
      <4>2. k - 1 \notin S
        BY <2>2, <4>1
      <4>3. q[L - (k - 1)].no = N - (k - 1)
        BY <4>1, <4>2
      <4>4. q[L - k].no < N - (k - 1)
        BY <1>5, <2>4, <4>1, <4>3
      <4>5. q[L - k].no \in Nat
        BY <1>4, <2>4, <1>3
      <4> QED BY <1>3, <2>3, <4>4, <4>5
    <3> QED BY <3>1, <3>2
  <2>7. q[L - k].no \in 1 .. N /\ N - k \in 1 .. N
    BY <1>3, <1>4, <2>3, <2>4, <2>6
  <2>8. PICK j \in 1 .. L : q[j].no = N - k
    BY <1>6, <2>4, <2>6, <2>7
  <2>9. ~(j > L - k)
    BY <1>3, <2>3, <2>5, <2>8
  <2>10. j < L - k
    BY <1>3, <2>3, <2>8, <2>9
  <2>11. N - k < q[L - k].no
    BY <1>5, <2>4, <2>8, <2>10
  <2> QED BY <1>3, <2>3, <2>6, <2>7, <2>11
<1>8. \A i \in 1 .. L : q[i].no = N - (L - i)
  <2> SUFFICES ASSUME NEW i \in 1 .. L PROVE q[i].no = N - (L - i)
    OBVIOUS
  <2>1. L - i \in 0 .. L - 1 /\ L - (L - i) = i
    BY <1>3
  <2>2. L - i \notin S
    BY <1>7
  <2> QED BY <2>1, <2>2
<1> HIDE DEF S
<1>9. L <= N
  <2>1. CASE L = 0
    BY <1>3, <2>1
  <2>2. CASE L # 0
    <3>1. 1 \in 1 .. L
      BY <1>3, <2>2
    <3>2. q[1].no = N - (L - 1) /\ q[1].no \in 1 .. N
      BY <1>4, <1>8, <3>1
    <3> QED BY <1>3, <3>2
  <2> QED BY <2>1, <2>2
<1>10. q = SubSeq(issued, N - L + 1, N)
  <2>1. SubSeq(issued, N - L + 1, N) = [i \in 1 .. L |-> issued[N - L + i]]
    <3>1. SubSeq(issued, N - L + 1, N) = [i \in 1 .. L |-> issued[(N - L + 1) + i - 1]]
      <4>1. N - L + 1 <= N => N - (N - L + 1) + 1 = L
        BY <1>3
      <4>2. ~(N - L + 1 <= N) => L = 0
        BY <1>3
      <4> QED BY <1>3, <4>1, <4>2
    <3>2. \A i \in 1 .. L : (N - L + 1) + i - 1 = N - L + i
      BY <1>3
    <3> QED BY <3>1, <3>2
  <2>2. \A i \in 1 .. L : q[i] = issued[N - L + i]
    <3> SUFFICES ASSUME NEW i \in 1 .. L PROVE q[i] = issued[N - L + i]
      OBVIOUS
    <3>1. N - (L - i) = N - L + i
      BY <1>3
    <3> QED BY <1>4, <1>8, <3>1
  <2> QED BY <1>3, <2>1, <2>2
<1> QED BY <1>2, <1>9, <1>10 DEF L, N

\* The three calls that send a configuration packet.
Sends(b, o) == setFPGAPulseLoopback(b) \/ setPlaybackSystimeReplacing(b) \/ Control(o)

LEMMA SendsIs ==
  ASSUME Orderly, NEW b, NEW o, Sends(b, o)
  PROVE  /\ ~Expected /\ pc = "idle"
         /\ UNCHANGED <<issued, hiconf_bulk_buffer, hiconf_receive_buffer, answers, work, toHost,
                        tracing, playing, dest>>
         /\ \/ UNCHANGED <<toFPGA, pc, recpulse_buffer, fetched>>
            \/ \E content : toFPGA' = Append(toFPGA, Frame("FPGACONFIG", content))
                  /\ IF content.op = "startTraceRead"
                     THEN recpulse_buffer' = 0 /\ fetched' = 0
                     ELSE UNCHANGED <<recpulse_buffer, fetched>>
<1>1. CASE setFPGAPulseLoopback(b)
  <2> DEFINE content == [op |-> "flags", flags |-> [loopback |-> b, replace |-> pb_systime_replace_enable]]
  <2>1. content.op = "flags"
    OBVIOUS
  <2>2. /\ ~Expected /\ pc = "idle"
        /\ UNCHANGED <<issued, hiconf_bulk_buffer, hiconf_receive_buffer, answers, work, toHost,
                       tracing, playing, dest, recpulse_buffer, fetched>>
        /\ toFPGA' = Append(toFPGA, Frame("FPGACONFIG", content)) \/ UNCHANGED <<toFPGA, pc>>
    BY <1>1 DEF setFPGAPulseLoopback, sendFPGAConfigPacket, Already, MayConfigure,
                bulkVars, recVars, fpgaVars
  <2> HIDE DEF content
  <2> QED BY <2>1, <2>2
<1>2. CASE setPlaybackSystimeReplacing(b)
  <2> DEFINE content == [op |-> "flags", flags |-> [loopback |-> pulse_loopback_enable, replace |-> b]]
  <2>1. content.op = "flags"
    OBVIOUS
  <2>2. /\ ~Expected /\ pc = "idle"
        /\ UNCHANGED <<issued, hiconf_bulk_buffer, hiconf_receive_buffer, answers, work, toHost,
                       tracing, playing, dest, recpulse_buffer, fetched>>
        /\ toFPGA' = Append(toFPGA, Frame("FPGACONFIG", content)) \/ UNCHANGED <<toFPGA, pc>>
    BY <1>2 DEF setPlaybackSystimeReplacing, sendFPGAConfigPacket, Already, MayConfigure,
                bulkVars, recVars, fpgaVars
  <2> HIDE DEF content
  <2> QED BY <2>1, <2>2
<1>3. CASE Control(o)
  <2> DEFINE content == [op |-> o, flags |-> [loopback |-> KeptFlags.loopback, replace |-> KeptFlags.replace]]
  <2>1. content.op = o
    OBVIOUS
  <2>2. /\ ~Expected /\ pc = "idle"
        /\ UNCHANGED <<issued, hiconf_bulk_buffer, hiconf_receive_buffer, answers, work, toHost,
                       tracing, playing, dest>>
        /\ toFPGA' = Append(toFPGA, Frame("FPGACONFIG", content))
        /\ IF o # "startTraceRead" THEN UNCHANGED <<recpulse_buffer, fetched>>
           ELSE recpulse_buffer' = 0 /\ fetched' = 0
    BY <1>3 DEF Control, KeptPulses, sendFPGAConfigPacket, MayConfigure, bulkVars, fpgaVars
  <2> HIDE DEF content
  <2> QED BY <2>1, <2>2
<1> QED BY <1>1, <1>2, <1>3 DEF Sends

\* Nothing expected: nothing comes, and no read is on its way.
LEMMA NothingExpected ==
  ASSUME ~Expected, ConfigInv
  PROVE  toHost = <<>> /\ ~(tracing > 0) /\ playing = 0 /\ ~Carries(toFPGA, "FPGACONFIG")
BY DEF Expected, ConfigInv, Streams

LEMMA ResetIs ==
  ASSUME Orderly, reset
  PROVE  /\ ~Expected /\ pc = "idle" /\ recpulse_buffer' = 0 /\ fetched' = 0
         /\ hiconf_bulk_buffer = <<>> /\ \A d \in Dest : hiconf_receive_buffer[d] = <<>>
         /\ hiconf_bulk_buffer' = <<>> /\ hiconf_receive_buffer' = [d \in Dest |-> <<>>]
         /\ UNCHANGED <<toFPGA, toHost, issued, answers, work, tracing, playing, pc, dest>>
BY DEF reset, fpgaVars

\* Steps that look at what has come.
Looks(b) == Poll(b) \/ getReceivedHICANNConfig \/ getReceivedHICANNConfigTimeout

LEMMA LooksIs ==
  ASSUME NEW b, Looks(b)
  PROVE  /\ pc # "config" /\ pc' # "config"
         /\ UNCHANGED <<toFPGA, hiconf_bulk_buffer, issued, work, tracing, playing>>
         /\ \/ UNCHANGED <<toHost, recpulse_buffer, fetched>>
            \/ /\ toHost' = <<>>
               /\ \/ recpulse_buffer' = 0
                     /\ fetched' = fetched + (recpulse_buffer + Count(toHost, "FPGATRACE"))
                  \/ recpulse_buffer' = recpulse_buffer + Count(toHost, "FPGATRACE")
                     /\ fetched' = fetched
<1>1. CASE Poll(b)
  BY <1>1 DEF Poll, bulkVars, callVars, fpgaVars
<1>2. CASE getReceivedHICANNConfig
  BY <1>2 DEF getReceivedHICANNConfig, fill_receive_buffer, Returns, bulkVars, fpgaVars
<1>3. CASE getReceivedHICANNConfigTimeout
  BY <1>3 DEF getReceivedHICANNConfigTimeout, Returns, recVars, bulkVars, fpgaVars
<1> QED BY <1>1, <1>2, <1>3 DEF Looks

\* Every other step leaves the commands on their way, or sends what is buffered.
LEMMA WayStill ==
  ASSUME Orderly, WayInv, NEW d, NEW b, NEW o,
         \/ FPGATraces \/ FPGAEndsPlayback \/ HICANNExecutes(d)
         \/ recvData(d) \/ Flush \/ reset \/ Sends(b, o) \/ Looks(b)
         \/ ConfigAnswer \/ ConfigTimeout \/ UNCHANGED vars
  PROVE  WayInv' /\ Way' = Way /\ issued' = issued
<1>1. ASSUME UNCHANGED <<toFPGA, hiconf_bulk_buffer, issued>>
      PROVE  WayInv' /\ Way' = Way /\ issued' = issued
  BY <1>1 DEF WayInv, Way
<1>2. CASE FPGATraces \/ FPGAEndsPlayback \/ HICANNExecutes(d)
  <2>1. UNCHANGED <<toFPGA, hiconf_bulk_buffer, issued>>
    BY <1>2 DEF FPGATraces, FPGAEndsPlayback, HICANNExecutes, hostVars, bulkVars
  <2> QED BY <1>1, <2>1
<1>3. CASE recvData(d) \/ Flush
  <2>1. FlushBulk(hiconf_bulk_buffer) /\ issued' = issued
    BY <1>3 DEF recvData, Flush, FlushFirst
  <2> QED BY <2>1, WayFlush
<1>4. CASE reset
  BY <1>1, <1>4, ResetIs
<1>5. CASE Sends(b, o)
  <2>1. CASE UNCHANGED toFPGA
    BY <1>1, <1>5, <2>1, SendsIs
  <2>2. ASSUME NEW content, toFPGA' = Append(toFPGA, Frame("FPGACONFIG", content))
        PROVE  WayInv' /\ Way' = Way /\ issued' = issued
    BY <1>5, <2>2, SendsIs, WayConfig
  <2> QED BY <1>5, <2>1, <2>2, SendsIs
<1>6. CASE Looks(b)
  BY <1>1, <1>6, LooksIs
<1>7. CASE ConfigAnswer \/ ConfigTimeout
  <2>1. UNCHANGED <<toFPGA, hiconf_bulk_buffer, issued>>
    BY <1>7 DEF ConfigAnswer, ConfigTimeout, bulkVars
  <2> QED BY <1>1, <2>1
<1>8. CASE UNCHANGED vars
  <2>1. UNCHANGED <<toFPGA, hiconf_bulk_buffer, issued>>
    BY <1>8 DEF vars, hostVars, bulkVars
  <2> QED BY <1>1, <2>1
<1> QED BY <1>2, <1>3, <1>4, <1>5, <1>6, <1>7, <1>8

\* Every step is one of these.
Still(d, b, o) ==
  \/ FPGATraces \/ FPGAEndsPlayback \/ (d \in Dest /\ HICANNExecutes(d))
  \/ (d \in Dest /\ recvData(d)) \/ Flush \/ reset \/ Sends(b, o) \/ Looks(b)
  \/ ConfigAnswer \/ ConfigTimeout \/ UNCHANGED vars

LEMMA Steps ==
  ASSUME [Next]_vars
  PROVE  \/ FPGATakes \/ \E d \in Dest, b \in BOOLEAN : issueCommand(d, b)
         \/ \E d, b, o : Still(d, b, o)
<1>1. CASE Hardware
  BY <1>1 DEF Hardware, Still
<1>2. CASE Call
  BY <1>2 DEF Call, Still, Sends, Looks
<1>3. CASE Answer \/ getReceivedHICANNConfigTimeout \/ ConfigTimeout \/ UNCHANGED vars
  BY <1>3 DEF Answer, Still, Looks
<1> QED BY <1>1, <1>2, <1>3 DEF Next

LEMMA WayStep == ASSUME Orderly, WayInv, [Next]_vars PROVE WayInv'
<1>1. CASE FPGATakes
  BY <1>1, WayTakes
<1>2. ASSUME NEW d \in Dest, NEW b \in BOOLEAN, issueCommand(d, b) PROVE WayInv'
  BY <1>2, WayIssue
<1>3. ASSUME NEW d, NEW b, NEW o, Still(d, b, o) PROVE WayInv'
  BY <1>3, WayStill DEF Still
<1> QED BY <1>1, <1>2, <1>3, Steps

\* Between issue and the hands of the FPGA the commands are the last ones issued,
\* each once and in order, for any frame size and whichever call sends them
\* (issueCommand, Flush and recvData, s2c_jtagphys_2fpga_arq.cpp:107-189;
\* sendHICANNConfigBulk, host_al_controller.cpp:678-733).
THEOREM CommandsInOrderHolds == ASSUME Orderly PROVE Spec => []CommandsInOrder
<1>1. Init => WayInv
  BY WayInit
<1>2. WayInv /\ [Next]_vars => WayInv'
  BY WayStep
<1>3. WayInv => CommandsInOrder
  BY WayIsLast
<1> QED BY <1>1, <1>2, <1>3, PTL DEF Spec
-----------------------------------------------------------------------------
(* Trace data.  Frames of a kind are counted.                              *)
LEMMA CountNone == ASSUME NEW pid PROVE Count(<<>>, pid) = 0
<1>1. {i \in DOMAIN <<>> : <<>>[i].pid = pid} = {}
  OBVIOUS
<1> QED BY <1>1, FS_EmptySet DEF Count

LEMMA CountAppend ==
  ASSUME NEW s, Listed(s), NEW x, NEW pid
  PROVE  /\ Count(s, pid) \in Nat
         /\ Count(Append(s, x), pid) = IF x.pid = pid THEN Count(s, pid) + 1 ELSE Count(s, pid)
<1> DEFINE n == Len(s)
           u == Append(s, x)
           S == {i \in DOMAIN s : s[i].pid = pid}
           U == {i \in DOMAIN u : u[i].pid = pid}
<1>1. /\ n \in Nat /\ DOMAIN s = 1 .. n /\ DOMAIN u = 1 .. n + 1
      /\ \A i \in 1 .. n : u[i] = s[i]
      /\ u[n + 1] = x
  BY ListedAppend
<1>2. Count(s, pid) = Cardinality(S) /\ Count(u, pid) = Cardinality(U)
  BY DEF Count
<1>3. IsFiniteSet(S)
  <2>1. IsFiniteSet(1 .. n)
    BY <1>1, FS_Interval
  <2>2. S \in SUBSET (1 .. n)
    BY <1>1
  <2> HIDE DEF S
  <2> QED BY <2>1, <2>2, FS_Subset
<1>4. U = IF x.pid = pid THEN S \cup {n + 1} ELSE S
  <2> HIDE DEF u
  <2>1. 1 .. n + 1 = (1 .. n) \cup {n + 1}
    BY <1>1
  <2> HIDE DEF n
  <2> QED BY <1>1, <2>1
<1>5. n + 1 \notin S
  BY <1>1
<1> HIDE DEF S, U, u, n
<1>6. Cardinality(S) \in Nat
  BY <1>3, FS_CardinalityType
<1>7. Cardinality(S \cup {n + 1}) = Cardinality(S) + 1
  BY <1>3, <1>5, FS_AddElement
<1> QED BY <1>2, <1>4, <1>6, <1>7 DEF u

LEMMA CountTail ==
  ASSUME NEW s, Listed(s), s # <<>>, NEW pid, Head(s).pid # pid
  PROVE  Count(Tail(s), pid) = Count(s, pid)
<1> DEFINE n == Len(s)
           u == Tail(s)
           S == {i \in DOMAIN s : s[i].pid = pid}
           U == {i \in DOMAIN u : u[i].pid = pid}
           f == [i \in U |-> i + 1]
<1>1. /\ n \in Nat \ {0} /\ DOMAIN s = 1 .. n /\ DOMAIN u = 1 .. n - 1
      /\ \A i \in 1 .. n - 1 : u[i] = s[i + 1]
      /\ s[1].pid # pid
  BY ListedTail
<1>2. Count(s, pid) = Cardinality(S) /\ Count(u, pid) = Cardinality(U)
  BY DEF Count
<1> HIDE DEF n, u
<1>3. IsFiniteSet(U)
  <2>1. IsFiniteSet(1 .. n - 1)
    BY <1>1, FS_Interval
  <2>2. U \in SUBSET (1 .. n - 1)
    BY <1>1
  <2> HIDE DEF U
  <2> QED BY <2>1, <2>2, FS_Subset
<1>4. \A i \in U : i \in Nat /\ i + 1 \in S
  BY <1>1
<1>5. \A j \in S : \E i \in U : i + 1 = j
  <2> SUFFICES ASSUME NEW j \in S PROVE j - 1 \in U /\ (j - 1) + 1 = j
    OBVIOUS
  <2>1. j \in 1 .. n /\ s[j].pid = pid /\ j # 1
    BY <1>1
  <2>2. j - 1 \in 1 .. n - 1 /\ (j - 1) + 1 = j
    BY <1>1, <2>1
  <2> QED BY <1>1, <2>1, <2>2
<1> HIDE DEF S, U
<1>6. ExistsBijection(U, S)
  <2>1. f \in [U -> S] /\ \A a, b \in U : f[a] = f[b] => a = b
    BY <1>4
  <2>2. \A t \in S : \E a \in U : f[a] = t
    BY <1>5
  <2> HIDE DEF f
  <2>3. f \in Bijection(U, S)
    BY <2>1, <2>2, Fun_IsBij
  <2> QED BY <2>3 DEF ExistsBijection
<1>7. Cardinality(S) = Cardinality(U)
  BY <1>3, <1>6, FS_Bijection
<1> QED BY <1>2, <1>7 DEF u

\* While a configuration packet is awaited, its copy comes first.
NoReads(S) == \A c \in S : c.write
AwaitInv ==
  pc = "config" =>
    IF toHost # <<>> THEN toHost[1].pid = "FPGACONFIG"
    ELSE /\ ~(tracing > 0) /\ playing = 0 /\ NoReads(Within(toFPGA))
         /\ \A d \in Dest : NoReads(ToSet(work[d]))

\* The pulses of one trace read, and none while another one is asked for.
Pulses == tracing + Count(toHost, "FPGATRACE") + recpulse_buffer + fetched
TraceInv ==
  /\ tracing \in Nat /\ recpulse_buffer \in Nat /\ fetched \in Nat
  /\ Pulses \in {0, TraceFrames}
  /\ \A i \in DOMAIN toFPGA :
       IsConfig(toFPGA[i]) /\ toFPGA[i].pdu.op = "startTraceRead" => Pulses = 0

NothingComes ==
  /\ toHost = <<>> /\ ~(tracing > 0) /\ playing = 0 /\ NoReads(Within(toFPGA))
  /\ \A d \in Dest : NoReads(ToSet(work[d]))
  /\ \A i \in DOMAIN toFPGA : ~IsConfig(toFPGA[i])

LEMMA ExpectedIs == ASSUME ConfigInv, ~Expected PROVE NothingComes
<1>1. toHost = <<>> /\ ~(tracing > 0) /\ playing = 0 /\ ~Carries(toFPGA, "FPGACONFIG")
  BY NothingExpected
<1>2. \A d \in Dest : NoReads(ToSet(work[d]))
  BY DEF Expected, NoReads, ToSet
<1>3. ASSUME NEW i \in DOMAIN toFPGA PROVE NoReads(ToSet(Contents(toFPGA[i])))
  <2>1. CASE toFPGA[i].pid = "HICANNCONFIG"
    BY <2>1 DEF Expected, NoReads, ToSet, Contents
  <2>2. CASE toFPGA[i].pid # "HICANNCONFIG"
    <3>1. ToSet(Contents(toFPGA[i])) = {}
      BY <2>2, OrderedNone DEF Contents
    <3> QED BY <3>1 DEF NoReads
  <2> QED BY <2>1, <2>2
<1>4. NoReads(Within(toFPGA))
  BY <1>3 DEF NoReads, Within
<1> QED BY <1>1, <1>2, <1>4 DEF NothingComes, Carries, IsConfig

\* What the FPGA does with the first frame.
LEMMA TakesIs ==
  ASSUME ConfigInv, WayInv, FPGATakes
  PROVE  LET f == Head(toFPGA)
             x == Contents(f)
         IN  /\ UNCHANGED hostVars
             /\ f = toFPGA[1] /\ 1 \in DOMAIN toFPGA
             /\ \A i \in DOMAIN toFPGA' : i + 1 \in DOMAIN toFPGA /\ i + 1 # 1 /\ toFPGA'[i] = toFPGA[i + 1]
             /\ \A d \in Dest : /\ To(d, x) \in Seq(Command) /\ Ordered(To(d, x), Dest)
                                /\ ToSet(To(d, x)) = For(ToSet(x), d)
             /\ \/ /\ work' = [d \in Dest |-> work[d] \o To(d, x)]
                   /\ UNCHANGED <<toHost, tracing, playing>>
                \/ /\ IsConfig(f) /\ toHost' = Append(toHost, f) /\ x = <<>> /\ ToSet(x) = {}
                   /\ \A i \in DOMAIN toFPGA' : ~IsConfig(toFPGA'[i])
                   /\ tracing' = IF f.pdu.op = "startTraceRead" THEN TraceFrames ELSE tracing
                   /\ work' = work
<1> DEFINE f == Head(toFPGA)
           x == Contents(f)
<1>1. Listed(toFPGA) /\ toFPGA # <<>> /\ toFPGA' = Tail(toFPGA) /\ UNCHANGED hostVars
  BY DEF FPGATakes, ConfigInv, Streams
<1>2. /\ Len(toFPGA) \in Nat \ {0}
      /\ DOMAIN toFPGA = 1 .. Len(toFPGA) /\ DOMAIN toFPGA' = 1 .. Len(toFPGA) - 1
      /\ \A i \in 1 .. Len(toFPGA) - 1 : toFPGA'[i] = toFPGA[i + 1]
      /\ f = toFPGA[1]
  BY <1>1, ListedTail
<1>3. 1 \in DOMAIN toFPGA
  BY <1>2
<1>4. \A i \in DOMAIN toFPGA' : i + 1 \in DOMAIN toFPGA /\ i + 1 # 1 /\ toFPGA'[i] = toFPGA[i + 1]
  BY <1>2
<1>5. x \in Seq(Command) /\ Ordered(x, Dest)
  BY WayTakes
<1> DEFINE Handed == /\ work' = [d \in Dest |-> work[d] \o To(d, x)]
                     /\ UNCHANGED <<toHost, tracing, playing>>
           Copied == /\ IsConfig(f) /\ toHost' = Append(toHost, f) /\ x = <<>> /\ ToSet(x) = {}
                     /\ \A i \in DOMAIN toFPGA' : ~IsConfig(toFPGA'[i])
                     /\ tracing' = IF f.pdu.op = "startTraceRead" THEN TraceFrames ELSE tracing
                     /\ work' = work
<1>6. ASSUME f.pid = "HICANNCONFIG" PROVE Handed
  <2>1. x = f.pdu
    BY <1>6 DEF Contents
  <2>2. work' = [d \in Dest |-> work[d] \o To(d, f.pdu)] /\ UNCHANGED <<toHost, tracing, playing>>
    BY <1>6 DEF FPGATakes
  <2> HIDE DEF x, f
  <2>3. Handed
    BY <2>1, <2>2
  <2> QED BY <2>3
<1>7. ASSUME f.pid # "HICANNCONFIG" PROVE Copied
  <2>1. IsConfig(f)
    BY <1>2, <1>3, <1>7 DEF ConfigInv, Streams, IsConfig
  <2>2. x = <<>> /\ ToSet(x) = {}
    BY <1>7, OrderedNone DEF Contents
  <2>3. \A i \in DOMAIN toFPGA' : ~IsConfig(toFPGA'[i])
    BY <1>2, <1>3, <1>4, <2>1 DEF ConfigInv, OnePacket
  <2>4. /\ toHost' = Append(toHost, f) /\ work' = work
        /\ tracing' = IF f.pdu.op = "startTraceRead" THEN TraceFrames ELSE tracing
    BY <1>7 DEF FPGATakes
  <2> HIDE DEF x, f
  <2>5. Copied
    BY <2>1, <2>2, <2>3, <2>4
  <2> QED BY <2>5
<1>8. ASSUME NEW d \in Dest
      PROVE  /\ To(d, x) \in Seq(Command) /\ Ordered(To(d, x), Dest)
             /\ ToSet(To(d, x)) = For(ToSet(x), d)
  <2>1. Ordered(x, {d})
    BY <1>5 DEF Ordered
  <2> HIDE DEF x
  <2> QED BY <1>5, <2>1, ToOrdered
<1> HIDE DEF x
<1>9. Handed \/ Copied
  <2> HIDE DEF Handed, Copied
  <2> QED BY <1>6, <1>7
<1> QED BY <1>1, <1>2, <1>3, <1>4, <1>8, <1>9 DEF x

\* The first of what comes stays the first.
LEMMA FirstStays ==
  ASSUME ConfigInv, NEW x, toHost' = Append(toHost, x)
  PROVE  /\ toHost # <<>> => toHost' # <<>> /\ toHost'[1] = toHost[1]
         /\ toHost = <<>> => toHost' # <<>> /\ toHost'[1] = x
<1>1. /\ Len(toHost) \in Nat /\ DOMAIN toHost = 1 .. Len(toHost)
      /\ DOMAIN toHost' = 1 .. Len(toHost) + 1
      /\ \A i \in 1 .. Len(toHost) : toHost'[i] = toHost[i]
      /\ toHost'[Len(toHost) + 1] = x /\ toHost \in Seq({toHost[i] : i \in DOMAIN toHost})
  BY ListedAppend DEF ConfigInv, Streams, Listed
<1>2. 1 \in DOMAIN toHost' /\ DOMAIN <<>> = {}
  BY <1>1
<1>3. toHost # <<>> => 1 \in 1 .. Len(toHost)
  BY <1>1
<1>4. toHost = <<>> => Len(toHost) + 1 = 1
  OBVIOUS
<1> QED BY <1>1, <1>2, <1>3, <1>4

LEMMA AwaitHardware ==
  ASSUME ConfigInv, WayInv, AwaitInv, work \in [Dest -> Seq(Command)],
         FPGATakes \/ FPGATraces \/ FPGAEndsPlayback \/ \E d \in Dest : HICANNExecutes(d)
  PROVE  AwaitInv'
<1> SUFFICES ASSUME pc = "config"
             PROVE  AwaitInv'
  BY DEF AwaitInv, FPGATakes, FPGATraces, FPGAEndsPlayback, HICANNExecutes, hostVars, callVars
<1>1. ASSUME NEW x, toHost' = Append(toHost, x), toHost = <<>> => x.pid = "FPGACONFIG"
      PROVE  AwaitInv'
  BY <1>1, FirstStays DEF AwaitInv
<1>2. CASE FPGATakes
  <2> DEFINE f == Head(toFPGA)
             x == Contents(f)
  <2>1. /\ \A d \in Dest : /\ To(d, x) \in Seq(Command)
                           /\ ToSet(To(d, x)) = For(ToSet(x), d)
        /\ \/ /\ work' = [d \in Dest |-> work[d] \o To(d, x)]
              /\ UNCHANGED <<toHost, tracing, playing>>
           \/ IsConfig(f) /\ toHost' = Append(toHost, f)
    BY <1>2, TakesIs
  <2>2. Within(toFPGA') \subseteq Within(toFPGA) /\ ToSet(x) \subseteq Within(toFPGA)
    BY <1>2, WayTakes
  <2>3. CASE IsConfig(f) /\ toHost' = Append(toHost, f)
    BY <1>1, <2>3 DEF IsConfig
  <2>4. CASE work' = [d \in Dest |-> work[d] \o To(d, x)] /\ UNCHANGED <<toHost, tracing, playing>>
    <3>1. CASE toHost # <<>>
      BY <2>4, <3>1 DEF AwaitInv
    <3>2. CASE toHost = <<>>
      <4>1. ~(tracing > 0) /\ playing = 0 /\ NoReads(Within(toFPGA)) /\ \A d \in Dest : NoReads(ToSet(work[d]))
        BY <3>2 DEF AwaitInv
      <4> HIDE DEF x
      <4>2. ASSUME NEW d \in Dest PROVE NoReads(ToSet(work'[d]))
        <5> DEFINE s == work[d]
                   t == To(d, x)
        <5>1. s \in Seq(Command) /\ t \in Seq(Command) /\ work'[d] = s \o t
          BY <2>1, <2>4
        <5>2. NoReads(ToSet(s)) /\ NoReads(ToSet(t))
          BY <2>1, <2>2, <4>1 DEF NoReads, For
        <5> HIDE DEF s, t
        <5>3. Ordered(s, {}) /\ Ordered(t, {}) /\ Earlier(ToSet(s), ToSet(t), {})
          BY DEF Ordered, Earlier
        <5>4. ToSet(s \o t) = ToSet(s) \cup ToSet(t)
          BY <5>1, <5>3, OrderedConcat
        <5> QED BY <5>1, <5>2, <5>4 DEF NoReads
      <4>3. NoReads(Within(toFPGA'))
        BY <2>2, <4>1 DEF NoReads
      <4> QED BY <2>4, <3>2, <4>1, <4>2, <4>3 DEF AwaitInv
    <3> QED BY <3>1, <3>2
  <2> QED BY <2>1, <2>3, <2>4
<1>3. CASE FPGATraces
  <2>1. toHost' = Append(toHost, Frame("FPGATRACE", "pulses")) /\ tracing > 0
    BY <1>3 DEF FPGATraces
  <2>2. toHost # <<>>
    BY <2>1 DEF AwaitInv
  <2> QED BY <1>1, <2>1, <2>2
<1>4. CASE FPGAEndsPlayback
  <2>1. toHost' = Append(toHost, Frame("FPGAPLAYBACK", "address")) /\ playing > 0
    BY <1>4 DEF FPGAEndsPlayback
  <2>2. toHost # <<>>
    BY <2>1 DEF AwaitInv
  <2> QED BY <1>1, <2>1, <2>2
<1>5. ASSUME NEW d \in Dest, HICANNExecutes(d) PROVE AwaitInv'
  <2>1. /\ work[d] # <<>> /\ work' = [work EXCEPT ![d] = Tail(@)]
        /\ toHost' = IF Head(work[d]).write THEN toHost
                     ELSE Append(toHost, Frame("HICANNCONFIG", <<Head(work[d])>>))
        /\ UNCHANGED <<pc, toFPGA, tracing, playing>>
    BY <1>5 DEF HICANNExecutes, hostVars, callVars
  <2>2. /\ ToSet(work[d]) = {Head(work[d])} \cup ToSet(Tail(work[d]))
    <3> DEFINE s == work[d]
    <3>1. s \in Seq(Command) /\ s # <<>> /\ Ordered(s, {})
      BY <2>1 DEF Ordered
    <3> HIDE DEF s
    <3>2. ToSet(s) = {Head(s)} \cup ToSet(Tail(s))
      BY <3>1, OrderedTail
    <3> QED BY <3>2 DEF s
  <2>3. CASE toHost # <<>>
    <3>1. CASE Head(work[d]).write
      BY <2>1, <2>3, <3>1 DEF AwaitInv
    <3>2. CASE ~Head(work[d]).write
      BY <1>1, <2>1, <2>3, <3>2
    <3> QED BY <3>1, <3>2
  <2>4. CASE toHost = <<>>
    <3>1. ~(tracing > 0) /\ playing = 0 /\ NoReads(Within(toFPGA)) /\ \A e \in Dest : NoReads(ToSet(work[e]))
      BY <2>4 DEF AwaitInv
    <3>2. Head(work[d]).write
      BY <2>2, <3>1 DEF NoReads
    <3>3. \A e \in Dest : ToSet(work'[e]) \subseteq ToSet(work[e])
      BY <2>1, <2>2
    <3>4. \A e \in Dest : NoReads(ToSet(work'[e]))
      BY <3>1, <3>3 DEF NoReads
    <3> QED BY <2>1, <2>4, <3>1, <3>2, <3>4 DEF AwaitInv
  <2> QED BY <2>3, <2>4
<1> QED BY <1>2, <1>3, <1>4, <1>5

WorkInv == work \in [Dest -> Seq(Command)]

LEMMA WorkStep == ASSUME Orderly, ConfigInv, WayInv, WorkInv, [Next]_vars PROVE WorkInv'
<1>1. CASE FPGATakes
  <2> DEFINE x == Contents(Head(toFPGA))
  <2>1. /\ \A d \in Dest : To(d, x) \in Seq(Command)
        /\ \/ work' = [d \in Dest |-> work[d] \o To(d, x)]
           \/ work' = work
    BY <1>1, TakesIs
  <2> HIDE DEF x
  <2>2. CASE work' = [d \in Dest |-> work[d] \o To(d, x)]
    <3>1. \A d \in Dest : work[d] \o To(d, x) \in Seq(Command)
      BY <2>1 DEF WorkInv
    <3> QED BY <2>2, <3>1 DEF WorkInv
  <2> QED BY <2>1, <2>2 DEF WorkInv
<1>2. ASSUME NEW d \in Dest, NEW b \in BOOLEAN, issueCommand(d, b) PROVE WorkInv'
  BY <1>2 DEF issueCommand, fpgaVars, WorkInv
<1>3. ASSUME NEW d, NEW b, NEW o, Still(d, b, o) PROVE WorkInv'
  <2>1. CASE d \in Dest /\ HICANNExecutes(d)
    <3> DEFINE s == work[d]
    <3>1. s \in Seq(Command) /\ s # <<>> /\ work' = [work EXCEPT ![d] = Tail(s)]
      BY <2>1 DEF HICANNExecutes, WorkInv
    <3>2. Tail(s) \in Seq(Command)
      BY <3>1
    <3> QED BY <3>1, <3>2 DEF WorkInv
  <2>2. CASE ~(d \in Dest /\ HICANNExecutes(d))
    <3>1. work' = work
      <4>1. CASE Sends(b, o)
        BY <4>1, SendsIs
      <4>2. CASE Looks(b)
        BY <4>2, LooksIs
      <4>3. CASE reset
        BY <4>3, ResetIs
      <4>4. CASE FPGATraces \/ FPGAEndsPlayback
        BY <4>4 DEF FPGATraces, FPGAEndsPlayback
      <4>5. CASE recvData(d) \/ Flush
        BY <4>5 DEF recvData, Flush, fpgaVars
      <4>6. CASE ConfigAnswer \/ ConfigTimeout
        BY <4>6 DEF ConfigAnswer, ConfigTimeout, fpgaVars
      <4>7. CASE UNCHANGED vars
        BY <4>7 DEF vars, fpgaVars
      <4> QED BY <1>3, <2>2, <4>1, <4>2, <4>3, <4>4, <4>5, <4>6, <4>7 DEF Still
    <3> QED BY <3>1 DEF WorkInv
  <2> QED BY <2>1, <2>2
<1> QED BY <1>1, <1>2, <1>3, Steps

LEMMA AwaitStep ==
  ASSUME Orderly, ConfigInv, WayInv, WorkInv, AwaitInv, [Next]_vars
  PROVE  AwaitInv'
<1>1. ASSUME pc' # "config" PROVE AwaitInv'
  BY <1>1 DEF AwaitInv
<1>2. CASE FPGATakes \/ FPGATraces \/ FPGAEndsPlayback \/ \E d \in Dest : HICANNExecutes(d)
  BY <1>2, AwaitHardware DEF WorkInv
<1>3. ASSUME NEW d \in Dest, NEW b \in BOOLEAN, issueCommand(d, b) PROVE AwaitInv'
  BY <1>1, <1>3 DEF issueCommand, callVars
<1>4. ASSUME NEW d, recvData(d) \/ Flush \/ ConfigAnswer \/ ConfigTimeout PROVE AwaitInv'
  BY <1>1, <1>4 DEF recvData, Flush, ConfigAnswer, ConfigTimeout, callVars
<1>5. ASSUME NEW b, Looks(b) PROVE AwaitInv'
  BY <1>1, <1>5, LooksIs
<1>6. CASE reset
  BY <1>1, <1>6, ResetIs
<1>7. ASSUME NEW b, NEW o, Sends(b, o) PROVE AwaitInv'
  <2>1. NothingComes /\ UNCHANGED <<toHost, tracing, playing, work>>
    BY <1>7, SendsIs, ExpectedIs
  <2>2. CASE UNCHANGED <<toFPGA, pc>>
    BY <1>1, <1>7, <2>2, SendsIs
  <2>3. ASSUME NEW content, toFPGA' = Append(toFPGA, Frame("FPGACONFIG", content)) PROVE AwaitInv'
    <3>1. Within(toFPGA') = Within(toFPGA)
      BY <1>7, <2>3, SendsIs, WayConfig
    <3> QED BY <2>1, <3>1 DEF NothingComes, AwaitInv
  <2> QED BY <1>7, <2>2, <2>3, SendsIs
<1>8. CASE UNCHANGED vars
  BY <1>8 DEF vars, hostVars, fpgaVars, callVars, AwaitInv
<1> QED BY <1>2, <1>3, <1>4, <1>5, <1>6, <1>7, <1>8, Steps DEF Still

LEMMA PulsesNat == ASSUME ConfigInv, TraceInv PROVE Count(toHost, "FPGATRACE") \in Nat /\ Pulses \in Nat
<1>1. Listed(toHost)
  BY DEF ConfigInv, Streams
<1>2. Count(toHost, "FPGATRACE") \in Nat
  BY <1>1, CountAppend
<1> QED BY <1>2 DEF TraceInv, Pulses

\* Pulses move from the FPGA to the stream; a trace read finds none.
LEMMA TraceHardware ==
  ASSUME ConfigInv, WayInv, TraceInv,
         FPGATakes \/ FPGATraces \/ FPGAEndsPlayback \/ \E d \in Dest : HICANNExecutes(d)
  PROVE  TraceInv'
<1> DEFINE n == Count(toHost, "FPGATRACE")
<1>1. n \in Nat /\ Listed(toHost) /\ tracing \in Nat /\ recpulse_buffer \in Nat /\ fetched \in Nat
  BY PulsesNat DEF TraceInv, ConfigInv, Streams
<1>2. UNCHANGED <<recpulse_buffer, fetched>>
  BY DEF FPGATakes, FPGATraces, FPGAEndsPlayback, HICANNExecutes, hostVars, recVars
<1>3. ASSUME UNCHANGED <<toFPGA, tracing>>, toHost' = toHost \/ \E x : toHost' = Append(toHost, x) /\ x.pid # "FPGATRACE"
      PROVE  TraceInv'
  <2>1. Count(toHost', "FPGATRACE") = n
    <3>1. ASSUME NEW x, toHost' = Append(toHost, x), x.pid # "FPGATRACE"
          PROVE  Count(toHost', "FPGATRACE") = n
      <4>1. Count(Append(toHost, x), "FPGATRACE") = n
        BY <1>1, <3>1, CountAppend
      <4> QED BY <3>1, <4>1
    <3>2. CASE toHost' = toHost
      BY <3>2
    <3> QED BY <1>3, <3>1, <3>2
  <2>2. Pulses' = Pulses
    BY <1>2, <1>3, <2>1 DEF Pulses
  <2> QED BY <1>2, <1>3, <2>2 DEF TraceInv
<1>4. CASE FPGATakes
  <2> DEFINE f == Head(toFPGA)
  <2>1. /\ f = toFPGA[1] /\ 1 \in DOMAIN toFPGA
        /\ \A i \in DOMAIN toFPGA' : i + 1 \in DOMAIN toFPGA /\ i + 1 # 1 /\ toFPGA'[i] = toFPGA[i + 1]
        /\ \/ UNCHANGED <<toHost, tracing>>
           \/ /\ IsConfig(f) /\ toHost' = Append(toHost, f)
              /\ \A i \in DOMAIN toFPGA' : ~IsConfig(toFPGA'[i])
              /\ tracing' = IF f.pdu.op = "startTraceRead" THEN TraceFrames ELSE tracing
    BY <1>4, TakesIs
  <2> HIDE DEF f
  <2>2. CASE UNCHANGED <<toHost, tracing>>
    <3>1. Pulses' = Pulses
      BY <1>2, <2>2 DEF Pulses
    <3> QED BY <1>1, <1>2, <2>1, <2>2, <3>1 DEF TraceInv
  <2>3. CASE /\ IsConfig(f) /\ toHost' = Append(toHost, f)
             /\ \A i \in DOMAIN toFPGA' : ~IsConfig(toFPGA'[i])
             /\ tracing' = IF f.pdu.op = "startTraceRead" THEN TraceFrames ELSE tracing
    <3>1. f.pid # "FPGATRACE"
      BY <2>3 DEF IsConfig
    <3>2. Count(toHost', "FPGATRACE") = n
      <4>1. Count(Append(toHost, f), "FPGATRACE") = n
        BY <1>1, <3>1, CountAppend
      <4> QED BY <2>3, <4>1
    <3>3. CASE f.pdu.op = "startTraceRead"
      <4>1. Pulses = 0
        BY <2>1, <2>3, <3>3 DEF TraceInv
      <4>2. n = 0 /\ recpulse_buffer = 0 /\ fetched = 0
        <5>1. tracing + n + recpulse_buffer + fetched = 0
          BY <4>1 DEF Pulses
        <5> HIDE DEF n
        <5> QED BY <1>1, <5>1
      <4>3. tracing' = TraceFrames /\ TraceFrames \in Nat
        BY <2>3, <3>3, HostALAssumption
      <4>4. Pulses' = TraceFrames
        BY <1>2, <3>2, <4>2, <4>3 DEF Pulses
      <4> QED BY <1>1, <1>2, <2>3, <4>3, <4>4 DEF TraceInv
    <3>4. CASE f.pdu.op # "startTraceRead"
      <4>1. tracing' = tracing
        BY <2>3, <3>4
      <4>2. Pulses' = Pulses
        BY <1>2, <3>2, <4>1 DEF Pulses
      <4> QED BY <1>1, <1>2, <2>3, <4>1, <4>2 DEF TraceInv
    <3> QED BY <3>3, <3>4
  <2> QED BY <2>1, <2>2, <2>3
<1>5. CASE FPGATraces
  <2> DEFINE x == Frame("FPGATRACE", "pulses")
  <2>1. toHost' = Append(toHost, x) /\ tracing' = tracing - 1 /\ tracing > 0 /\ toFPGA' = toFPGA
    BY <1>5 DEF FPGATraces
  <2>2. x.pid = "FPGATRACE"
    BY DEF Frame
  <2> HIDE DEF x
  <2>3. Count(toHost', "FPGATRACE") = n + 1
    <3>1. Count(Append(toHost, x), "FPGATRACE") = n + 1
      BY <1>1, <2>2, CountAppend
    <3> QED BY <2>1, <3>1
  <2>4. Pulses' = Pulses /\ tracing' \in Nat
    <3> HIDE DEF n
    <3>1. Pulses = tracing + n + recpulse_buffer + fetched
      BY DEF Pulses, n
    <3>2. Pulses' = (tracing - 1) + (n + 1) + recpulse_buffer + fetched
      BY <1>2, <2>1, <2>3 DEF Pulses
    <3> QED BY <1>1, <2>1, <3>1, <3>2
  <2> QED BY <1>1, <1>2, <2>1, <2>4 DEF TraceInv
<1>6. CASE FPGAEndsPlayback
  <2>1. /\ toHost' = Append(toHost, Frame("FPGAPLAYBACK", "address")) /\ UNCHANGED <<toFPGA, tracing>>
        /\ Frame("FPGAPLAYBACK", "address").pid # "FPGATRACE"
    BY <1>6 DEF FPGAEndsPlayback, Frame
  <2> QED BY <1>3, <2>1
<1>7. ASSUME NEW d \in Dest, HICANNExecutes(d) PROVE TraceInv'
  <2> DEFINE x == Frame("HICANNCONFIG", <<Head(work[d])>>)
  <2>1. (toHost' = toHost \/ toHost' = Append(toHost, x)) /\ UNCHANGED <<toFPGA, tracing>>
    BY <1>7 DEF HICANNExecutes
  <2>2. x.pid # "FPGATRACE"
    BY DEF Frame
  <2> HIDE DEF x
  <2> QED BY <1>3, <2>1, <2>2
<1> QED BY <1>4, <1>5, <1>6, <1>7

LEMMA TraceStep ==
  ASSUME Orderly, ConfigInv, WayInv, AwaitInv, TraceInv, [Next]_vars
  PROVE  TraceInv'
<1> DEFINE n == Count(toHost, "FPGATRACE")
<1>1. n \in Nat /\ Listed(toHost) /\ tracing \in Nat /\ recpulse_buffer \in Nat /\ fetched \in Nat
      /\ Pulses = tracing + n + recpulse_buffer + fetched
  BY PulsesNat DEF TraceInv, ConfigInv, Streams, Pulses
<1>2. CASE FPGATakes \/ FPGATraces \/ FPGAEndsPlayback \/ \E d \in Dest : HICANNExecutes(d)
  BY <1>2, TraceHardware
<1>3. ASSUME UNCHANGED <<tracing, recpulse_buffer, fetched>>, Count(toHost', "FPGATRACE") = n,
             \A i \in DOMAIN toFPGA' : IsConfig(toFPGA'[i]) => i \in DOMAIN toFPGA /\ toFPGA'[i] = toFPGA[i]
      PROVE  TraceInv'
  <2>1. Pulses' = Pulses
    BY <1>3 DEF Pulses
  <2> QED BY <1>3, <2>1 DEF TraceInv
<1>4. ASSUME NEW buf, Listed(buf), FlushBulk(buf), UNCHANGED <<tracing, recpulse_buffer, fetched, toHost>>
      PROVE  TraceInv'
  <2>1. \A i \in DOMAIN toFPGA' : IsConfig(toFPGA'[i]) => i \in DOMAIN toFPGA /\ toFPGA'[i] = toFPGA[i]
    BY <1>4, FlushKept DEF ConfigsKept, IsConfig
  <2> QED BY <1>3, <1>4, <2>1
<1>5. Listed(hiconf_bulk_buffer)
  BY DEF ConfigInv, Streams
<1>6. ASSUME NEW d \in Dest, NEW b \in BOOLEAN, issueCommand(d, b) PROVE TraceInv'
  <2> DEFINE c == [dest |-> d, write |-> b, no |-> Len(issued) + 1]
             buf == Append(hiconf_bulk_buffer, c)
  <2>1. UNCHANGED <<tracing, recpulse_buffer, fetched, toHost>> /\ (FlushBulk(buf) \/ toFPGA' = toFPGA)
    BY <1>6 DEF issueCommand, recVars, fpgaVars
  <2>2. Listed(buf)
    BY <1>5, ListedAppend
  <2> HIDE DEF buf
  <2> QED BY <1>3, <1>4, <2>1, <2>2
<1>7. ASSUME NEW d, recvData(d) \/ Flush PROVE TraceInv'
  <2>1. UNCHANGED <<tracing, recpulse_buffer, fetched, toHost>> /\ FlushBulk(hiconf_bulk_buffer)
    BY <1>7 DEF recvData, Flush, FlushFirst, recVars, fpgaVars
  <2> QED BY <1>4, <1>5, <2>1
<1>8. ASSUME NEW b, Looks(b) PROVE TraceInv'
  <2>1. CASE UNCHANGED <<toHost, recpulse_buffer, fetched>>
    BY <1>3, <1>8, <2>1, LooksIs
  <2>2. CASE /\ toHost' = <<>>
             /\ \/ recpulse_buffer' = 0 /\ fetched' = fetched + (recpulse_buffer + n)
                \/ recpulse_buffer' = recpulse_buffer + n /\ fetched' = fetched
    <3>1. Count(toHost', "FPGATRACE") = 0
      BY <2>2, CountNone
    <3>2. UNCHANGED <<toFPGA, tracing>>
      BY <1>8, LooksIs
    <3> HIDE DEF n
    <3>3. recpulse_buffer' \in Nat /\ fetched' \in Nat
          /\ tracing + 0 + recpulse_buffer' + fetched' = tracing + n + recpulse_buffer + fetched
      BY <1>1, <2>2
    <3>4. Pulses' = Pulses
      BY <1>1, <3>1, <3>2, <3>3 DEF Pulses
    <3> QED BY <3>2, <3>3, <3>4 DEF TraceInv
  <2> QED BY <1>8, <2>1, <2>2, LooksIs
<1>9. ASSUME ~Expected, toHost' = toHost, tracing' = tracing, recpulse_buffer' = 0, fetched' = 0
      PROVE  Pulses' = 0
  <2>1. toHost = <<>> /\ tracing = 0
    BY <1>1, <1>9, ExpectedIs DEF NothingComes
  <2>2. Count(toHost', "FPGATRACE") = 0
    BY <1>9, <2>1, CountNone
  <2> QED BY <1>9, <2>1, <2>2 DEF Pulses
<1>10. CASE reset
  <2>1. Pulses' = 0
    BY <1>9, <1>10, ResetIs
  <2>2. /\ UNCHANGED <<toFPGA, tracing>> /\ recpulse_buffer' = 0 /\ fetched' = 0
    BY <1>10, ResetIs
  <2> QED BY <1>1, <2>1, <2>2 DEF TraceInv
<1>11. ASSUME NEW b, NEW o, Sends(b, o) PROVE TraceInv'
  <2>1. /\ ~Expected /\ UNCHANGED <<toHost, tracing>>
    BY <1>11, SendsIs
  <2>2. CASE UNCHANGED <<toFPGA, recpulse_buffer, fetched>>
    BY <1>3, <2>1, <2>2
  <2>3. ASSUME NEW content, toFPGA' = Append(toFPGA, Frame("FPGACONFIG", content)),
               IF content.op = "startTraceRead"
               THEN recpulse_buffer' = 0 /\ fetched' = 0
               ELSE UNCHANGED <<recpulse_buffer, fetched>>
        PROVE  TraceInv'
    <3> DEFINE x == Frame("FPGACONFIG", content)
               l == Len(toFPGA)
    <3>1. x.pdu = content
      BY DEF Frame
    <3>2. Listed(toFPGA) /\ toFPGA' = Append(toFPGA, x)
      BY <2>3 DEF ConfigInv, Streams
    <3> HIDE DEF x
    <3>3. /\ l \in Nat /\ DOMAIN toFPGA = 1 .. l /\ DOMAIN toFPGA' = 1 .. l + 1
          /\ \A i \in 1 .. l : toFPGA'[i] = toFPGA[i]
          /\ toFPGA'[l + 1] = x
      BY <3>2, ListedAppend
    <3> HIDE DEF l
    <3>4. \A i \in DOMAIN toFPGA' : IsConfig(toFPGA'[i]) => toFPGA'[i] = x
      <4>1. \A i \in DOMAIN toFPGA : ~IsConfig(toFPGA[i])
        BY <2>1, ExpectedIs DEF NothingComes
      <4>2. \A i \in 1 .. l + 1 : i \in 1 .. l \/ i = l + 1
        BY <3>3
      <4> QED BY <3>3, <4>1, <4>2
    <3>5. CASE content.op = "startTraceRead"
      <4>1. Pulses' = 0 /\ recpulse_buffer' = 0 /\ fetched' = 0
        BY <1>9, <2>1, <2>3, <3>5
      <4> QED BY <1>1, <2>1, <4>1 DEF TraceInv
    <3>6. CASE content.op # "startTraceRead"
      <4>1. UNCHANGED <<recpulse_buffer, fetched>>
        BY <2>3, <3>6
      <4>2. Pulses' = Pulses
        BY <2>1, <4>1 DEF Pulses
      <4> QED BY <1>1, <2>1, <3>1, <3>4, <3>6, <4>1, <4>2 DEF TraceInv
    <3> QED BY <3>5, <3>6
  <2> QED BY <1>11, <2>2, <2>3, SendsIs
<1>12. CASE ConfigAnswer
  <2>1. /\ pc = "config" /\ toHost # <<>> /\ toHost' = Tail(toHost)
        /\ UNCHANGED <<toFPGA, tracing, recpulse_buffer, fetched>>
    BY <1>12 DEF ConfigAnswer, recVars, fpgaVars
  <2>2. Head(toHost).pid # "FPGATRACE"
    BY <1>1, <2>1, ListedTail DEF AwaitInv
  <2>3. Count(Tail(toHost), "FPGATRACE") = n
    BY <1>1, <2>1, <2>2, CountTail
  <2> QED BY <1>3, <2>1, <2>3
<1>13. CASE ConfigTimeout
  <2>1. UNCHANGED <<toFPGA, toHost, tracing, recpulse_buffer, fetched>>
    BY <1>13 DEF ConfigTimeout, recVars, fpgaVars
  <2> QED BY <1>3, <2>1
<1>14. CASE UNCHANGED vars
  <2>1. UNCHANGED <<toFPGA, toHost, tracing, recpulse_buffer, fetched>>
    BY <1>14 DEF vars, hostVars, recVars, fpgaVars
  <2> QED BY <1>3, <2>1
<1> QED BY <1>2, <1>6, <1>7, <1>8, <1>10, <1>11, <1>12, <1>13, <1>14, Steps DEF Still

\* The pulses of one trace read, or none, are to come, on their way, buffered and
\* fetched, whatever polls, reads, resets and new trace reads come in between
\* (startTraceRead and getFPGATracePulses, host_al_controller.cpp:882-896, 344-352).
THEOREM TraceCompleteHolds == ASSUME Orderly PROVE Spec => []TraceComplete
<1> DEFINE I == ConfigInv /\ WayInv /\ WorkInv /\ AwaitInv /\ TraceInv
<1>1. Init => I
  <2> SUFFICES ASSUME Init PROVE I
    OBVIOUS
  <2>1. ConfigInv /\ WayInv
    BY ConfigInit, WayInit
  <2>2. WorkInv /\ AwaitInv
    BY DEF Init, WorkInv, AwaitInv
  <2>3. tracing = 0 /\ recpulse_buffer = 0 /\ fetched = 0 /\ toHost = <<>> /\ toFPGA = <<>>
    BY DEF Init
  <2>4. Pulses = 0
    <3>1. Count(toHost, "FPGATRACE") = 0
      BY <2>3, CountNone
    <3> QED BY <2>3, <3>1 DEF Pulses
  <2>5. TraceInv
    BY <2>3, <2>4 DEF TraceInv
  <2> QED BY <2>1, <2>2, <2>5
<1>2. I /\ [Next]_vars => I'
  BY ConfigStep, WayStep, WorkStep, AwaitStep, TraceStep
<1>3. I => TraceComplete
  BY DEF TraceInv, Pulses, TraceComplete
<1> QED BY <1>1, <1>2, <1>3, PTL DEF Spec
-----------------------------------------------------------------------------
(* The commands for a destination d, in the order of their numbers: those  *)
(* that were answered (s), whose answers have been received (b), whose     *)
(* answers are on their way (h), that are not executed (w), and that the   *)
(* FPGA has not taken (y), of all that were issued.                        *)

Reads(all, d) == {c \in all : c.dest = d /\ ~c.write}
No(S) == {c.no : c \in S}
Given(s) == {s[i] : i \in DOMAIN s} \ {0}
Less(S, T) == \A m \in S, n \in T : m < n

InOrder(s, R) ==
  \A i \in DOMAIN s : s[i] # 0 =>
    /\ \E c \in R : c.no = s[i]
    /\ {s[j] : j \in 1 .. i - 1} \ {0} = No({r \in R : r.no < s[i]})

Row(q, S) == q \in Seq(Command) /\ ToSet(q) \subseteq S /\ Ordered(q, Dest)

Lines(A, B, C, W, Y) ==
  /\ Less(A, B) /\ Less(A, C) /\ Less(A, W) /\ Less(A, Y)
  /\ Less(B, C) /\ Less(B, W) /\ Less(B, Y)
  /\ Less(C, W) /\ Less(C, Y) /\ Less(W, Y)

Flow(d, s, b, h, w, y, all) ==
  /\ s \in Seq(Nat) /\ InOrder(s, Reads(all, d)) /\ Given(s) \subseteq No(Reads(all, d))
  /\ Row(b, Reads(all, d)) /\ For(h, d) \subseteq Reads(all, d) /\ Row(w, For(all, d))
  /\ Lines(Given(s), No(ToSet(b)), No(For(h, d)), No(ToSet(w)), No(For(y, d)))
  /\ No(Reads(all, d)) \subseteq
       Given(s) \cup No(ToSet(b)) \cup No(For(h, d)) \cup No(ToSet(w)) \cup No(For(y, d))

Numbered(all) ==
  \A c \in all : c \in Command /\ c.no \in Nat \ {0} /\ \A e \in all : e.no = c.no => e = c

LEMMA IssuedNumbered == ASSUME WayInv PROVE Numbered(ToSet(issued))
<1>1. /\ Len(issued) \in Nat /\ DOMAIN issued = 1 .. Len(issued)
      /\ \A c \in ToSet(issued) : c \in Command /\ c.no \in 1 .. Len(issued) /\ c = issued[c.no]
  BY IssuedNumbers
<1> QED BY <1>1 DEF Numbered

LEMMA GivenAppend ==
  ASSUME NEW s \in Seq(Nat), NEW n \in Nat
  PROVE  /\ Append(s, n) \in Seq(Nat) /\ Given(Append(s, n)) = Given(s) \cup ({n} \ {0})
         /\ {s[j] : j \in DOMAIN s} \ {0} = Given(s)
<1> DEFINE l == Len(s)
           u == Append(s, n)
<1>1. /\ u \in Seq(Nat) /\ l \in Nat /\ DOMAIN s = 1 .. l /\ DOMAIN u = 1 .. l + 1
      /\ \A i \in 1 .. l : u[i] = s[i]
      /\ u[l + 1] = n
  OBVIOUS
<1> HIDE DEF l, u
<1>2. 1 .. l + 1 = (1 .. l) \cup {l + 1}
  BY <1>1
<1>3. Given(u) = Given(s) \cup ({n} \ {0})
  BY <1>1, <1>2 DEF Given
<1> QED BY <1>1, <1>3 DEF u, Given

\* An answer keeps the order if those before it have all been given.
LEMMA InOrderAppend ==
  ASSUME NEW s \in Seq(Nat), NEW R, NEW n \in Nat, InOrder(s, R),
         n # 0 => n \in No(R) /\ Given(s) = No({r \in R : r.no < n})
  PROVE  InOrder(Append(s, n), R)
<1> DEFINE l == Len(s)
           u == Append(s, n)
<1>1. /\ l \in Nat /\ DOMAIN s = 1 .. l /\ DOMAIN u = 1 .. l + 1
      /\ \A i \in 1 .. l : u[i] = s[i]
      /\ u[l + 1] = n
  OBVIOUS
<1> HIDE DEF l, u
<1> SUFFICES ASSUME NEW i \in 1 .. l + 1, u[i] # 0
             PROVE  /\ \E c \in R : c.no = u[i]
                    /\ {u[j] : j \in 1 .. i - 1} \ {0} = No({r \in R : r.no < u[i]})
  BY <1>1 DEF InOrder, u
<1>2. \A j \in 1 .. i - 1 : j \in 1 .. l /\ u[j] = s[j]
  BY <1>1
<1>3. {u[j] : j \in 1 .. i - 1} = {s[j] : j \in 1 .. i - 1}
  BY <1>2
<1>4. CASE i \in 1 .. l
  BY <1>1, <1>3, <1>4 DEF InOrder
<1>5. CASE i \notin 1 .. l
  <2>1. i = l + 1 /\ i - 1 = l
    BY <1>1, <1>5
  <2>2. {s[j] : j \in 1 .. i - 1} \ {0} = Given(s)
    BY <1>1, <2>1 DEF Given
  <2>3. u[i] = n
    BY <1>1, <2>1
  <2> QED BY <1>3, <2>2, <2>3 DEF No
<1> QED BY <1>4, <1>5

\* Reads that are issued later do not matter.
LEMMA InOrderLater ==
  ASSUME NEW s \in Seq(Nat), NEW R, NEW T, InOrder(s, R), R \subseteq T,
         \A c \in T : c \in R \/ \A n \in Given(s) : ~(c.no < n)
  PROVE  InOrder(s, T)
<1> SUFFICES ASSUME NEW i \in DOMAIN s, s[i] # 0
             PROVE  /\ \E c \in T : c.no = s[i]
                    /\ {s[j] : j \in 1 .. i - 1} \ {0} = No({r \in T : r.no < s[i]})
  BY DEF InOrder
<1>1. s[i] \in Given(s)
  BY DEF Given
<1>2. {r \in T : r.no < s[i]} = {r \in R : r.no < s[i]}
  BY <1>1
<1> QED BY <1>2 DEF InOrder

LEMMA RowTail ==
  ASSUME NEW q, NEW S, Row(q, S), q # <<>>, S \subseteq Command
  PROVE  /\ Row(Tail(q), S) /\ Head(q) \in S
         /\ ToSet(q) = {Head(q)} \cup ToSet(Tail(q))
         /\ No(ToSet(q)) = {Head(q).no} \cup No(ToSet(Tail(q)))
         /\ Less({Head(q).no}, No(ToSet(Tail(q))))
<1>1. /\ Tail(q) \in Seq(Command) /\ Ordered(Tail(q), Dest)
      /\ ToSet(q) = {Head(q)} \cup ToSet(Tail(q))
      /\ Earlier({Head(q)}, ToSet(Tail(q)), Dest)
  BY OrderedTail DEF Row
<1> DEFINE c == Head(q)
           T == ToSet(Tail(q))
<1>2. c \in S /\ T \subseteq S
  BY <1>1 DEF Row
<1>3. Less({c.no}, No(T))
  <2> SUFFICES ASSUME NEW e \in T PROVE c.no < e.no
    BY DEF Less, No
  <2>1. c.dest \in Dest /\ e.dest \in Dest
    BY <1>2 DEF Command
  <2> QED BY <1>1, <2>1 DEF Earlier
<1>4. No(ToSet(q)) = {c.no} \cup No(T)
  BY <1>1 DEF No
<1> QED BY <1>1, <1>2, <1>3, <1>4 DEF Row

LEMMA RowConcat ==
  ASSUME NEW p, NEW q, NEW S, Row(p, S), Row(q, S), Less(No(ToSet(p)), No(ToSet(q)))
  PROVE  /\ Row(p \o q, S) /\ ToSet(p \o q) = ToSet(p) \cup ToSet(q)
         /\ No(ToSet(p \o q)) = No(ToSet(p)) \cup No(ToSet(q))
<1>1. Earlier(ToSet(p), ToSet(q), Dest)
  BY DEF Less, No, Earlier
<1>2. p \in Seq(Command) /\ q \in Seq(Command) /\ Ordered(p, Dest) /\ Ordered(q, Dest)
  BY DEF Row
<1>3. /\ p \o q \in Seq(Command) /\ Ordered(p \o q, Dest)
      /\ ToSet(p \o q) = ToSet(p) \cup ToSet(q)
  BY <1>1, <1>2, OrderedConcat
<1> QED BY <1>3 DEF Row, No

\* The first answer received is given: all reads before it have been answered.
LEMMA FlowAnswer ==
  ASSUME NEW d, NEW s, NEW b, NEW h, NEW w, NEW y, NEW all,
         Numbered(all), Flow(d, s, b, h, w, y, all), b # <<>>
  PROVE  Flow(d, Append(s, Head(b).no), Tail(b), h, w, y, all) /\ Head(b).no \in Nat
<1> DEFINE R == Reads(all, d)
           n == Head(b).no
           B == No(ToSet(Tail(b)))
           C == No(For(h, d))
           W == No(ToSet(w))
           Y == No(For(y, d))
           T == Append(s, n)
<1>1. R \subseteq Command /\ \A c \in R : c.no \in Nat \ {0}
  BY DEF Numbered, Reads
<1>2. s \in Seq(Nat) /\ InOrder(s, R) /\ Given(s) \subseteq No(R) /\ Row(b, R)
      /\ For(h, d) \subseteq R /\ Row(w, For(all, d))
      /\ Lines(Given(s), No(ToSet(b)), C, W, Y)
      /\ No(R) \subseteq Given(s) \cup No(ToSet(b)) \cup C \cup W \cup Y
  BY DEF Flow
<1> HIDE DEF R
<1>3. /\ Row(Tail(b), R) /\ Head(b) \in R
      /\ No(ToSet(b)) = {n} \cup B /\ Less({n}, B)
  BY <1>1, <1>2, RowTail
<1>4. n \in Nat \ {0} /\ n \in No(R)
  BY <1>1, <1>3 DEF No
<1> HIDE DEF n, B, C, W, Y
<1>5. T \in Seq(Nat) /\ Given(T) = Given(s) \cup {n}
  BY <1>2, <1>4, GivenAppend
<1>6. Given(s) = No({r \in R : r.no < n})
  <2>1. ASSUME NEW m \in Given(s) PROVE m \in No({r \in R : r.no < n})
    <3>1. m < n
      BY <1>2, <1>3 DEF Lines, Less
    <3>2. PICK r \in R : r.no = m
      BY <1>2 DEF No
    <3> QED BY <3>1, <3>2 DEF No
  <2>2. ASSUME NEW r \in R, r.no < n PROVE r.no \in Given(s)
    <3> DEFINE m == r.no
    <3>1. m \in Nat /\ ~(n < m) /\ m # n
      BY <1>1, <1>4, <2>2
    <3>2. m \in No(R)
      BY DEF No
    <3>3. m \notin B
      BY <1>3, <3>1 DEF Less
    <3>4. m \notin C /\ m \notin W /\ m \notin Y
      BY <1>2, <1>3, <3>1 DEF Lines, Less
    <3> QED BY <1>2, <1>3, <3>1, <3>2, <3>3, <3>4
  <2> QED BY <2>1, <2>2 DEF No
<1>7. InOrder(T, R)
  BY <1>2, <1>4, <1>6, InOrderAppend
<1> HIDE DEF T
<1>8. Lines(Given(T), B, C, W, Y)
  BY <1>2, <1>3, <1>5 DEF Lines, Less
<1>9. Given(T) \subseteq No(R) /\ No(R) \subseteq Given(T) \cup B \cup C \cup W \cup Y
  BY <1>2, <1>3, <1>4, <1>5
<1>10. Flow(d, T, Tail(b), h, w, y, all)
  BY <1>2, <1>3, <1>5, <1>7, <1>8, <1>9 DEF Flow, R, B, C, W, Y
<1> QED BY <1>4, <1>10 DEF T, n

LEMMA FlowTimeout ==
  ASSUME NEW d, NEW s, NEW b, NEW h, NEW w, NEW y, NEW all, Flow(d, s, b, h, w, y, all)
  PROVE  Flow(d, Append(s, 0), b, h, w, y, all)
<1> DEFINE T == Append(s, 0)
           R == Reads(all, d)
<1>1. s \in Seq(Nat) /\ InOrder(s, R)
  BY DEF Flow
<1> HIDE DEF R
<1>2. T \in Seq(Nat) /\ Given(T) = Given(s)
  BY <1>1, GivenAppend
<1>3. InOrder(T, R)
  BY <1>1, InOrderAppend
<1> HIDE DEF T
<1>4. Flow(d, T, b, h, w, y, all)
  BY <1>2, <1>3 DEF Flow, R
<1> QED BY <1>4 DEF T

\* What has come is received, behind what was received before.
LEMMA FlowFill ==
  ASSUME NEW d, NEW s, NEW b, NEW h, NEW w, NEW y, NEW all, Flow(d, s, b, h, w, y, all),
         NEW t \in Seq(Command), Ordered(t, Dest), ToSet(t) = For(h, d)
  PROVE  Flow(d, s, b \o t, {}, w, y, all)
<1> DEFINE R == Reads(all, d)
           A == Given(s)
           B == No(ToSet(b))
           C == No(For(h, d))
           W == No(ToSet(w))
           Y == No(For(y, d))
           E == No(For({}, d))
           F == No(ToSet(b \o t))
<1>1. /\ s \in Seq(Nat) /\ InOrder(s, R) /\ A \subseteq No(R) /\ Row(b, R)
      /\ For(h, d) \subseteq R /\ Row(w, For(all, d))
      /\ Lines(A, B, C, W, Y) /\ No(R) \subseteq A \cup B \cup C \cup W \cup Y
  BY DEF Flow
<1>2. Row(t, R) /\ Less(B, No(ToSet(t))) /\ No(ToSet(t)) = C
  BY <1>1 DEF Row, Lines
<1> HIDE DEF R
<1>3. Row(b \o t, R) /\ F = B \cup C
  <2>1. Row(b, R) /\ Row(t, R) /\ Less(No(ToSet(b)), No(ToSet(t)))
    BY <1>1, <1>2
  <2>2. Row(b \o t, R) /\ No(ToSet(b \o t)) = No(ToSet(b)) \cup No(ToSet(t))
    BY ONLY <2>1, RowConcat
  <2> QED BY <1>2, <2>2
<1>4. E = {} /\ For({}, d) \subseteq R
  BY DEF No, For
<1> HIDE DEF A, B, C, W, Y, E, F
<1>5. Lines(A, F, E, W, Y) /\ No(R) \subseteq A \cup F \cup E \cup W \cup Y
  BY <1>1, <1>3, <1>4 DEF Lines, Less
<1> QED BY <1>1, <1>3, <1>4, <1>5 DEF Flow, R, A, W, Y, E, F

\* A HICANN executes its next command; a read is answered.
LEMMA FlowExecute ==
  ASSUME NEW d, NEW s, NEW b, NEW h, NEW w, NEW y, NEW all, NEW g,
         Numbered(all), Flow(d, s, b, h, w, y, all), w # <<>>,
         g = IF Head(w).write THEN h ELSE h \cup {Head(w)}
  PROVE  /\ Flow(d, s, b, g, Tail(w), y, all)
         /\ Head(w) \in all /\ Head(w) \in Command /\ Head(w).dest = d
         /\ \A e \in For(h, d) : e.no < Head(w).no
<1> DEFINE R == Reads(all, d)
           c == Head(w)
           A == Given(s)
           B == No(ToSet(b))
           C == No(For(h, d))
           G == No(For(g, d))
           W == No(ToSet(Tail(w)))
           Y == No(For(y, d))
           n == c.no
<1>1. /\ s \in Seq(Nat) /\ InOrder(s, R) /\ A \subseteq No(R) /\ Row(b, R)
      /\ For(h, d) \subseteq R /\ Row(w, For(all, d))
      /\ Lines(A, B, C, No(ToSet(w)), Y) /\ No(R) \subseteq A \cup B \cup C \cup No(ToSet(w)) \cup Y
  BY DEF Flow
<1>2. For(all, d) \subseteq Command
  BY DEF For, Numbered
<1>3. /\ Row(Tail(w), For(all, d)) /\ c \in For(all, d)
      /\ No(ToSet(w)) = {n} \cup W /\ Less({n}, W)
  BY <1>1, <1>2, RowTail
<1>4. c \in all /\ c \in Command /\ c.dest = d
  BY <1>2, <1>3 DEF For
<1> HIDE DEF c
<1>5. For(g, d) \subseteq R /\ G = IF c.write THEN C ELSE C \cup {n}
  <2>1. CASE c.write
    BY <1>1, <2>1 DEF c
  <2>2. CASE ~c.write
    <3>1. For(g, d) = For(h, d) \cup {c}
      BY <1>4, <2>2 DEF For, c
    <3>2. c \in R
      BY <1>4, <2>2 DEF Reads
    <3> QED BY <1>1, <2>2, <3>1, <3>2 DEF No
  <2> QED BY <2>1, <2>2
<1>6. c.write => n \notin No(R)
  <2> SUFFICES ASSUME c.write, NEW r \in R, r.no = n PROVE FALSE
    BY DEF No
  <2>1. r \in all /\ ~r.write
    BY DEF Reads
  <2>2. r = c
    BY <1>4, <2>1 DEF Numbered
  <2> QED BY <2>1, <2>2
<1>7. \A e \in For(h, d) : e.no < n
  BY <1>1, <1>3 DEF Lines, Less, No
<1> HIDE DEF R, A, B, C, G, W, Y, n
<1>8. Lines(A, B, G, W, Y) /\ No(R) \subseteq A \cup B \cup G \cup W \cup Y
  <2>1. CASE c.write
    BY <1>1, <1>3, <1>5, <1>6, <2>1 DEF Lines, Less
  <2>2. CASE ~c.write
    BY <1>1, <1>3, <1>5, <2>2 DEF Lines, Less
  <2> QED BY <2>1, <2>2
<1>9. Flow(d, s, b, g, Tail(w), y, all)
  BY <1>1, <1>3, <1>5, <1>8 DEF Flow, R, A, B, G, W, Y
<1> QED BY <1>4, <1>7, <1>9 DEF c, n

\* The FPGA hands the commands of a frame to the HICANNs.
LEMMA FlowTakes ==
  ASSUME NEW d, NEW s, NEW b, NEW h, NEW w, NEW y, NEW all, Flow(d, s, b, h, w, y, all),
         Numbered(all), y \subseteq all,
         NEW x, NEW z, y = x \cup z, Earlier(x, z, Dest),
         NEW t \in Seq(Command), Ordered(t, Dest), ToSet(t) = For(x, d)
  PROVE  Flow(d, s, b, h, w \o t, z, all)
<1> DEFINE R == Reads(all, d)
           A == Given(s)
           B == No(ToSet(b))
           C == No(For(h, d))
           W == No(ToSet(w))
           Y == No(For(y, d))
           X == No(For(x, d))
           Z == No(For(z, d))
           V == No(ToSet(w \o t))
<1>1. /\ s \in Seq(Nat) /\ InOrder(s, R) /\ A \subseteq No(R) /\ Row(b, R)
      /\ For(h, d) \subseteq R /\ Row(w, For(all, d))
      /\ Lines(A, B, C, W, Y) /\ No(R) \subseteq A \cup B \cup C \cup W \cup Y
  BY DEF Flow
<1>2. Y = X \cup Z /\ For(x, d) \subseteq For(all, d)
  BY DEF No, For
<1>3. Less(X, Z)
  <2> SUFFICES ASSUME NEW a \in x, NEW e \in z, a.dest = d, e.dest = d PROVE a.no < e.no
    BY DEF Less, No, For
  <2>1. a.dest \in Dest /\ e.dest \in Dest
    BY DEF Numbered, Command
  <2> QED BY <2>1 DEF Earlier
<1>4. Row(t, For(all, d)) /\ No(ToSet(t)) = X
  BY <1>2 DEF Row
<1>5. Less(W, No(ToSet(t)))
  BY <1>1, <1>2, <1>4 DEF Lines, Less
<1> DEFINE S == For(all, d)
<1> HIDE DEF S
<1>6. Row(w, S) /\ Row(t, S)
  BY <1>1, <1>4 DEF S
<1>7. Row(w \o t, S) /\ V = W \cup X
  BY <1>4, <1>5, <1>6, RowConcat
<1> HIDE DEF R, A, B, C, W, X, Y, Z, V
<1>8. Lines(A, B, C, V, Z) /\ No(R) \subseteq A \cup B \cup C \cup V \cup Z
  BY <1>1, <1>2, <1>3, <1>7 DEF Lines, Less
<1> QED BY <1>1, <1>7, <1>8 DEF Flow, R, A, B, C, V, Z, S

\* A command is issued, behind all others.
LEMMA FlowIssue ==
  ASSUME NEW d, NEW s, NEW b, NEW h, NEW w, NEW y, NEW all, Flow(d, s, b, h, w, y, all),
         Numbered(all), NEW c \in Command, \A e \in all : e.no < c.no
  PROVE  Flow(d, s, b, h, w, y \cup {c}, all \cup {c})
<1> DEFINE R == Reads(all, d)
           Q == Reads(all \cup {c}, d)
           A == Given(s)
           B == No(ToSet(b))
           C == No(For(h, d))
           W == No(ToSet(w))
           Y == No(For(y, d))
           Z == No(For(y \cup {c}, d))
           n == c.no
<1>1. /\ s \in Seq(Nat) /\ InOrder(s, R) /\ A \subseteq No(R) /\ Row(b, R)
      /\ For(h, d) \subseteq R /\ Row(w, For(all, d))
      /\ Lines(A, B, C, W, Y) /\ No(R) \subseteq A \cup B \cup C \cup W \cup Y
  BY DEF Flow
<1>2. \A m \in No(R) : m \in Nat /\ m < n
  BY DEF No, Reads, Numbered
<1>3. n \in Nat
  BY DEF Command
<1>4. R \subseteq Q /\ \A r \in Q : r \in R \/ r = c
  BY DEF Reads
<1>5. \A m \in Given(s) : ~(n < m)
  BY <1>1, <1>2, <1>3
<1>6. \A r \in Q : r \in R \/ \A m \in Given(s) : ~(r.no < m)
  BY <1>4, <1>5
<1>7. InOrder(s, Q)
  <2> HIDE DEF R, Q
  <2> QED BY <1>1, <1>4, <1>6, InOrderLater
<1>8. Row(b, Q) /\ Row(w, For(all \cup {c}, d)) /\ For(h, d) \subseteq Q
  BY <1>1, <1>4 DEF Row, For
<1>9. No(R) \subseteq No(Q) /\ No(Q) \subseteq No(R) \cup (IF c.dest = d THEN {n} ELSE {})
  BY DEF No, Reads
<1>10. Z = Y \cup (IF c.dest = d THEN {n} ELSE {})
  BY DEF No, For
<1>11. Less(A, {n}) /\ Less(B, {n}) /\ Less(C, {n}) /\ Less(W, {n})
  <2>1. Less(A, {n})
    BY <1>1, <1>2 DEF Less
  <2>2. Less(B, {n})
    BY <1>1, <1>2 DEF Less, Row, No
  <2>3. Less(C, {n})
    BY <1>1, <1>2 DEF Less, No
  <2>4. Less(W, {n})
    BY <1>1 DEF Less, Row, No, For
  <2> QED BY <2>1, <2>2, <2>3, <2>4
<1> HIDE DEF R, Q, A, B, C, W, Y, Z, n
<1>12. Lines(A, B, C, W, Z)
  BY <1>1, <1>10, <1>11 DEF Lines, Less
<1>13. A \subseteq No(Q) /\ No(Q) \subseteq A \cup B \cup C \cup W \cup Z
  BY <1>1, <1>9, <1>10
<1> QED BY <1>1, <1>7, <1>8, <1>12, <1>13 DEF Flow, Q, A, B, C, W, Z

\* What comes for other destinations does not matter.
LEMMA FlowOther ==
  ASSUME NEW d, NEW s, NEW b, NEW h, NEW w, NEW y, NEW all, Flow(d, s, b, h, w, y, all),
         NEW g, For(g, d) = For(h, d)
  PROVE  Flow(d, s, b, g, w, y, all)
BY DEF Flow

\* Every destination's commands keep their order all the way.
AnswerInv ==
  /\ pc = "recvData" => dest \in Dest
  /\ hiconf_receive_buffer \in [Dest -> Seq(Command)] /\ answers \in [Dest -> Seq(Nat)]
  /\ \A d \in Dest :
       /\ Ascending(toHost, {d})
       /\ Flow(d, answers[d], hiconf_receive_buffer[d], Within(toHost), work[d], Way, ToSet(issued))

LEMMA AnswerInit == ASSUME Init PROVE AnswerInv
<1>1. /\ <<>> \in Seq(Command) /\ <<>> \in Seq(Nat) /\ Ordered(<<>>, Dest) /\ ToSet(<<>>) = {}
      /\ Within(<<>>) = {} /\ DOMAIN <<>> = {} /\ \A d \in Dest : Ascending(<<>>, {d})
  BY OrderedNone, AscendingNone
<1>2. Way = {} /\ ToSet(issued) = {} /\ toHost = <<>>
  BY <1>1, WayInit DEF Init
<1>3. /\ hiconf_receive_buffer = [d \in Dest |-> <<>>] /\ answers = [d \in Dest |-> <<>>]
      /\ work = [d \in Dest |-> <<>>] /\ pc = "idle"
  BY DEF Init
<1>4. ASSUME NEW d \in Dest PROVE Flow(d, <<>>, <<>>, {}, <<>>, {}, {})
  <2>1. For({}, d) = {} /\ Reads({}, d) = {} /\ Given(<<>>) = {} /\ No({}) = {}
    BY DEF For, Reads, Given, No
  <2>2. Row(<<>>, {}) /\ InOrder(<<>>, {}) /\ Lines({}, {}, {}, {}, {})
    BY <1>1 DEF Row, InOrder, Lines, Less
  <2> QED BY <1>1, <2>1, <2>2 DEF Flow
<1>5. \A d \in Dest : answers[d] = <<>> /\ hiconf_receive_buffer[d] = <<>> /\ work[d] = <<>>
  BY <1>3
<1> QED BY <1>1, <1>2, <1>3, <1>4, <1>5 DEF AnswerInv

\* Frames without commands.
LEMMA ToHostQuiet ==
  ASSUME AnswerInv, NEW x, Contents(x) = <<>>, NEW d \in Dest
  PROVE  Ascending(Append(toHost, x), {d}) /\ Within(Append(toHost, x)) = Within(toHost)
<1>1. Contents(x) \in Seq(Command) /\ Ordered(Contents(x), {d}) /\ ToSet(Contents(x)) = {}
  BY OrderedNone
<1>2. Earlier(Within(toHost), ToSet(Contents(x)), {d})
  BY <1>1 DEF Earlier
<1>3. Ascending(toHost, {d})
  BY DEF AnswerInv
<1>4. /\ Ascending(Append(toHost, x), {d})
      /\ Within(Append(toHost, x)) = Within(toHost) \cup ToSet(Contents(x))
  BY <1>1, <1>2, <1>3, AscendingAppend
<1> QED BY <1>1, <1>4

LEMMA AnswerQuiet ==
  ASSUME AnswerInv, UNCHANGED <<hiconf_receive_buffer, answers, work>>, Way' = Way, issued' = issued,
         pc' = "recvData" => dest' \in Dest,
         \A d \in Dest : Ascending(toHost', {d}) /\ Within(toHost') = Within(toHost)
  PROVE  AnswerInv'
BY DEF AnswerInv

LEMMA AnswerTakes ==
  ASSUME ConfigInv, WayInv, WorkInv, AnswerInv, FPGATakes
  PROVE  AnswerInv'
<1> DEFINE f == Head(toFPGA)
           x == Contents(f)
           all == ToSet(issued)
<1>1. /\ UNCHANGED hostVars
      /\ \A d \in Dest : /\ To(d, x) \in Seq(Command) /\ Ordered(To(d, x), Dest)
                         /\ ToSet(To(d, x)) = For(ToSet(x), d)
      /\ \/ work' = [d \in Dest |-> work[d] \o To(d, x)] /\ UNCHANGED toHost
         \/ toHost' = Append(toHost, f) /\ x = <<>> /\ ToSet(x) = {} /\ work' = work
  BY TakesIs
<1>2. /\ Way = ToSet(x) \cup Way' /\ Earlier(ToSet(x), Way', Dest) /\ all' = all
  BY WayTakes
<1>3. Numbered(all) /\ Way \subseteq all
  BY IssuedNumbered DEF WayInv
<1>4. UNCHANGED <<pc, dest, hiconf_receive_buffer, answers, issued>>
  BY <1>1 DEF hostVars, callVars
<1>5. CASE toHost' = Append(toHost, f) /\ x = <<>> /\ ToSet(x) = {} /\ work' = work
  <2>1. Way' = Way
    BY <1>2, <1>5
  <2> HIDE DEF f
  <2>2. \A d \in Dest : Ascending(toHost', {d}) /\ Within(toHost') = Within(toHost)
    BY <1>5, ToHostQuiet
  <2> QED BY <1>4, <1>5, <2>1, <2>2, AnswerQuiet DEF AnswerInv
<1> HIDE DEF x, all
<1>6. CASE work' = [d \in Dest |-> work[d] \o To(d, x)] /\ UNCHANGED toHost
  <2>1. ASSUME NEW d \in Dest
        PROVE  Flow(d, answers[d], hiconf_receive_buffer[d], Within(toHost), work'[d], Way', all)
    <3> DEFINE t == To(d, x)
               z == Way'
               v == ToSet(x)
    <3>1. Flow(d, answers[d], hiconf_receive_buffer[d], Within(toHost), work[d], Way, all)
      BY DEF AnswerInv, all
    <3>2. t \in Seq(Command) /\ Ordered(t, Dest) /\ ToSet(t) = For(v, d)
      BY <1>1
    <3>3. Way = v \cup z /\ Earlier(v, z, Dest)
      BY <1>2
    <3> HIDE DEF t, z, v
    <3>4. Flow(d, answers[d], hiconf_receive_buffer[d], Within(toHost), work[d] \o t, z, all)
      BY <1>3, <3>1, <3>2, <3>3, FlowTakes
    <3>5. work'[d] = work[d] \o t
      BY <1>6 DEF t
    <3> QED BY <3>4, <3>5 DEF z
  <2> QED BY <1>2, <1>4, <1>6, <2>1 DEF AnswerInv, all
<1> QED BY <1>1, <1>5, <1>6

LEMMA AnswerExecutes ==
  ASSUME WayInv, WorkInv, AnswerInv, NEW d \in Dest, HICANNExecutes(d)
  PROVE  AnswerInv'
<1> DEFINE all == ToSet(issued)
           c == Head(work[d])
           x == Frame("HICANNCONFIG", <<c>>)
           h == Within(toHost)
           g == IF c.write THEN h ELSE h \cup {c}
<1>1. /\ work[d] # <<>> /\ work' = [work EXCEPT ![d] = Tail(work[d])]
      /\ toHost' = IF c.write THEN toHost ELSE Append(toHost, x)
      /\ UNCHANGED <<pc, dest, hiconf_receive_buffer, answers, issued, toFPGA, hiconf_bulk_buffer>>
  BY DEF HICANNExecutes, hostVars, callVars, bulkVars
<1>2. Way' = Way /\ all' = all
  BY <1>1 DEF Way
<1>3. Numbered(all)
  BY IssuedNumbered
<1>4. Flow(d, answers[d], hiconf_receive_buffer[d], h, work[d], Way, all)
  BY DEF AnswerInv
<1> HIDE DEF all
<1>5. /\ Flow(d, answers[d], hiconf_receive_buffer[d], g, Tail(work[d]), Way, all)
      /\ c \in Command /\ c.dest = d
      /\ \A e \in For(h, d) : e.no < c.no
  <2> DEFINE w == work[d]
  <2>1. Flow(d, answers[d], hiconf_receive_buffer[d], h, w, Way, all) /\ w # <<>>
        /\ g = IF Head(w).write THEN h ELSE h \cup {Head(w)}
    BY <1>1, <1>4
  <2> HIDE DEF w, g, h
  <2>2. /\ Flow(d, answers[d], hiconf_receive_buffer[d], g, Tail(w), Way, all)
        /\ Head(w) \in Command /\ Head(w).dest = d
        /\ \A e \in For(h, d) : e.no < Head(w).no
    BY <1>3, <2>1, FlowExecute
  <2> QED BY <2>2 DEF w
<1>6. ASSUME NEW e \in Dest PROVE Ascending(toHost', {e}) /\ Within(toHost') = g
  <2>1. Ascending(toHost, {e})
    BY DEF AnswerInv
  <2>2. CASE c.write
    BY <1>1, <2>1, <2>2
  <2>3. CASE ~c.write
    <3>1. Contents(x) = <<c>>
      BY DEF Contents, Frame
    <3>2. <<c>> \in Seq(Command) /\ Ordered(<<c>>, {e}) /\ ToSet(<<c>>) = {c}
      BY <1>5, OrderedOne
    <3>3. Contents(x) \in Seq(Command) /\ Ordered(Contents(x), {e}) /\ ToSet(Contents(x)) = {c}
      BY <3>1, <3>2
    <3>4. Earlier(h, {c}, {e})
      BY <1>5 DEF Earlier, For
    <3>5. Earlier(h, ToSet(Contents(x)), {e})
      BY <3>3, <3>4
    <3> HIDE DEF x
    <3>6. /\ Ascending(Append(toHost, x), {e})
          /\ Within(Append(toHost, x)) = h \cup ToSet(Contents(x))
      BY <2>1, <3>3, <3>5, AscendingAppend
    <3> QED BY <1>1, <2>3, <3>3, <3>6
  <2> QED BY <2>2, <2>3
<1>7. ASSUME NEW e \in Dest
      PROVE  Flow(e, answers[e], hiconf_receive_buffer[e], g, work'[e], Way, all)
  <2>1. CASE e = d
    <3>1. work'[d] = Tail(work[d])
      BY <1>1 DEF WorkInv
    <3> QED BY <1>5, <2>1, <3>1
  <2>2. CASE e # d
    <3>1. work'[e] = work[e]
      BY <1>1, <2>2 DEF WorkInv
    <3>2. For(g, e) = For(h, e)
      BY <1>5, <2>2 DEF For
    <3>3. Flow(e, answers[e], hiconf_receive_buffer[e], h, work[e], Way, all)
      BY DEF AnswerInv, all
    <3> HIDE DEF g, h
    <3>4. Flow(e, answers[e], hiconf_receive_buffer[e], g, work[e], Way, all)
      BY <3>2, <3>3, FlowOther
    <3> QED BY <3>1, <3>4
  <2> QED BY <2>1, <2>2
<1> HIDE DEF g
<1> QED BY <1>1, <1>2, <1>6, <1>7 DEF AnswerInv, all

LEMMA AnswerIssue ==
  ASSUME WayInv, AnswerInv, NEW d \in Dest, NEW b \in BOOLEAN, issueCommand(d, b)
  PROVE  AnswerInv'
<1> DEFINE c == [dest |-> d, write |-> b, no |-> Len(issued) + 1]
           all == ToSet(issued)
<1>1. /\ Way' = Way \cup {c} /\ ToSet(issued') = all \cup {c}
      /\ \A e \in all : e.no < c.no
  BY WayIssue
<1>2. Numbered(all)
  BY IssuedNumbered
<1>3. c \in Command
  BY IssuedNumbers DEF Command
<1>4. UNCHANGED <<pc, dest, hiconf_receive_buffer, answers, work, toHost>>
  BY DEF issueCommand, callVars, fpgaVars
<1> HIDE DEF c
<1>5. ASSUME NEW e \in Dest
      PROVE  Flow(e, answers[e], hiconf_receive_buffer[e], Within(toHost), work[e],
                  Way \cup {c}, all \cup {c})
  <2>1. Flow(e, answers[e], hiconf_receive_buffer[e], Within(toHost), work[e], Way, all)
    BY DEF AnswerInv
  <2> HIDE DEF all
  <2> QED BY <1>1, <1>2, <1>3, <2>1, FlowIssue
<1> QED BY <1>1, <1>4, <1>5 DEF AnswerInv

\* The answers that have come are received by their destinations.
LEMMA FilledFlow ==
  ASSUME AnswerInv
  PROVE  /\ Filled \in [Dest -> Seq(Command)]
         /\ \A d \in Dest : Flow(d, answers[d], Filled[d], {}, work[d], Way, ToSet(issued))
<1>1. ASSUME NEW d \in Dest
      PROVE  /\ Filled[d] \in Seq(Command)
             /\ Flow(d, answers[d], Filled[d], {}, work[d], Way, ToSet(issued))
  <2> DEFINE s == Commands(toHost)
             t == To(d, s)
             b == hiconf_receive_buffer[d]
  <2>1. Ascending(toHost, {d})
    BY DEF AnswerInv
  <2>2. s \in Seq(Command) /\ Ordered(s, {d}) /\ ToSet(s) = Within(toHost)
    BY <2>1, CommandsOrdered
  <2> HIDE DEF s
  <2>3. t \in Seq(Command) /\ Ordered(t, Dest) /\ ToSet(t) = For(Within(toHost), d)
    BY <2>2, ToOrdered
  <2>4. Filled[d] = b \o t
    BY DEF Filled, Sorted, s
  <2>5. Flow(d, answers[d], b, Within(toHost), work[d], Way, ToSet(issued)) /\ b \in Seq(Command)
    BY DEF AnswerInv
  <2> HIDE DEF t, b
  <2>6. Flow(d, answers[d], b \o t, {}, work[d], Way, ToSet(issued))
    BY <2>3, <2>5, FlowFill
  <2> QED BY <2>3, <2>4, <2>5, <2>6
<1>2. Filled = [d \in Dest |-> Filled[d]]
  BY DEF Filled
<1> HIDE DEF Filled
<1> QED BY <1>1, <1>2

LEMMA AnswerLooks ==
  ASSUME WayInv, WorkInv, AnswerInv, NEW b, Looks(b)
  PROVE  AnswerInv'
<1> DEFINE all == ToSet(issued)
<1>1. /\ UNCHANGED <<toFPGA, hiconf_bulk_buffer, issued, work>>
  BY LooksIs
<1>2. Way' = Way /\ all' = all /\ Numbered(all)
  BY <1>1, IssuedNumbered DEF Way
<1>3. Within(<<>>) = {} /\ \A d \in Dest : Ascending(<<>>, {d})
  BY AscendingNone
<1>4. CASE Poll(b)
  <2>1. /\ toHost' = <<>> /\ hiconf_receive_buffer' = Filled /\ answers' = answers /\ pc' = "idle"
    BY <1>4 DEF Poll, callVars
  <2> QED BY <1>1, <1>2, <1>3, <2>1, FilledFlow DEF AnswerInv
<1>5. CASE getReceivedHICANNConfig
  <2> DEFINE buffers == IF hiconf_receive_buffer[dest] # <<>> THEN hiconf_receive_buffer ELSE Filled
             q == buffers[dest]
             n == Head(q).no
  <2>1. /\ pc = "recvData" /\ dest \in Dest
        /\ toHost' = IF hiconf_receive_buffer[dest] # <<>> THEN toHost ELSE <<>>
        /\ IF q # <<>>
           THEN /\ answers' = [answers EXCEPT ![dest] = Append(@, n)]
                /\ hiconf_receive_buffer' = [buffers EXCEPT ![dest] = Tail(q)]
                /\ pc' = "idle"
           ELSE hiconf_receive_buffer' = buffers /\ UNCHANGED <<answers, pc, dest>>
    BY <1>5 DEF getReceivedHICANNConfig, fill_receive_buffer, Returns, AnswerInv
  <2>2. /\ buffers \in [Dest -> Seq(Command)]
        /\ \A d \in Dest : /\ Ascending(toHost', {d})
                           /\ Flow(d, answers[d], buffers[d], Within(toHost'), work[d], Way, all)
    <3>1. CASE hiconf_receive_buffer[dest] # <<>>
      BY <2>1, <3>1 DEF AnswerInv
    <3>2. CASE hiconf_receive_buffer[dest] = <<>>
      BY <1>3, <2>1, <3>2, FilledFlow
    <3> QED BY <3>1, <3>2
  <2> HIDE DEF buffers, all
  <2>3. CASE q # <<>>
    <3> DEFINE s == answers[dest]
               w == work[dest]
               h == Within(toHost')
    <3>1. Flow(dest, s, q, h, w, Way, all)
      BY <2>1, <2>2
    <3>2. s \in Seq(Nat) /\ q \in Seq(Command)
      BY <2>1, <2>2 DEF AnswerInv
    <3> HIDE DEF s, q, w, h, n
    <3>3. Flow(dest, Append(s, Head(q).no), Tail(q), h, w, Way, all) /\ Head(q).no \in Nat
      BY <1>2, <2>3, <3>1, FlowAnswer
    <3>4. Tail(q) \in Seq(Command) /\ Append(s, n) \in Seq(Nat)
      BY <2>3, <3>2, <3>3 DEF n
    <3>5. /\ answers' = [answers EXCEPT ![dest] = Append(s, n)]
          /\ hiconf_receive_buffer' = [buffers EXCEPT ![dest] = Tail(q)]
          /\ pc' = "idle"
      BY <2>1, <2>3 DEF s
    <3>6. /\ answers' \in [Dest -> Seq(Nat)] /\ hiconf_receive_buffer' \in [Dest -> Seq(Command)]
          /\ answers'[dest] = Append(s, n) /\ hiconf_receive_buffer'[dest] = Tail(q)
          /\ \A e \in Dest \ {dest} : /\ answers'[e] = answers[e]
                                      /\ hiconf_receive_buffer'[e] = buffers[e]
      BY <2>1, <2>2, <3>4, <3>5 DEF AnswerInv
    <3>7. ASSUME NEW e \in Dest
          PROVE  Flow(e, answers'[e], hiconf_receive_buffer'[e], h, work[e], Way, all)
      <4>1. CASE e = dest
        BY <3>3, <3>6, <4>1 DEF n, w
      <4>2. CASE e # dest
        BY <2>2, <3>6, <4>2 DEF h
      <4> QED BY <4>1, <4>2
    <3> QED BY <1>1, <1>2, <2>2, <3>5, <3>6, <3>7 DEF AnswerInv, h, all
  <2>4. CASE q = <<>>
    <3>1. hiconf_receive_buffer' = buffers /\ UNCHANGED <<answers, pc, dest>>
      BY <2>1, <2>4
    <3> QED BY <1>1, <1>2, <2>1, <2>2, <3>1 DEF AnswerInv, all
  <2> QED BY <2>3, <2>4
<1>6. CASE getReceivedHICANNConfigTimeout
  <2> DEFINE s == answers[dest]
  <2>1. /\ dest \in Dest /\ s \in Seq(Nat) /\ answers' = [answers EXCEPT ![dest] = Append(s, 0)]
        /\ UNCHANGED <<toHost, hiconf_receive_buffer>> /\ pc' = "idle"
    BY <1>6 DEF getReceivedHICANNConfigTimeout, Returns, AnswerInv
  <2>2. Append(s, 0) \in Seq(Nat)
    BY <2>1
  <2> DEFINE b1 == hiconf_receive_buffer[dest]
             w1 == work[dest]
             h1 == Within(toHost)
  <2>3. Flow(dest, s, b1, h1, w1, Way, all)
    BY <2>1 DEF AnswerInv
  <2> HIDE DEF s, b1, w1, h1, all
  <2>4. Flow(dest, Append(s, 0), b1, h1, w1, Way, all)
    BY <2>3, FlowTimeout
  <2>5. /\ answers' \in [Dest -> Seq(Nat)] /\ answers'[dest] = Append(s, 0)
        /\ \A e \in Dest \ {dest} : answers'[e] = answers[e]
    BY <2>1, <2>2 DEF AnswerInv
  <2>6. ASSUME NEW e \in Dest
        PROVE  Flow(e, answers'[e], hiconf_receive_buffer[e], h1, work[e], Way, all)
    <3>1. CASE e = dest
      BY <2>4, <2>5, <3>1 DEF b1, w1
    <3>2. CASE e # dest
      BY <2>5, <3>2 DEF AnswerInv, h1, all
    <3> QED BY <3>1, <3>2
  <2> QED BY <1>1, <1>2, <2>1, <2>5, <2>6 DEF AnswerInv, h1, all
<1> QED BY <1>4, <1>5, <1>6 DEF Looks

LEMMA AnswerStep ==
  ASSUME Orderly, ConfigInv, WayInv, WorkInv, AwaitInv, AnswerInv, [Next]_vars
  PROVE  AnswerInv'
<1>1. CASE FPGATakes
  BY <1>1, AnswerTakes
<1>2. ASSUME NEW d \in Dest, NEW b \in BOOLEAN, issueCommand(d, b) PROVE AnswerInv'
  BY <1>2, AnswerIssue
<1>3. ASSUME NEW d \in Dest, HICANNExecutes(d) PROVE AnswerInv'
  BY <1>3, AnswerExecutes
<1>4. ASSUME NEW b, Looks(b) PROVE AnswerInv'
  BY <1>4, AnswerLooks
<1>5. ASSUME UNCHANGED <<hiconf_receive_buffer, answers, work, toHost>>, Way' = Way, issued' = issued,
             pc' = "recvData" => dest' \in Dest
      PROVE  AnswerInv'
  BY <1>5, AnswerQuiet DEF AnswerInv
<1>6. CASE FPGATraces \/ FPGAEndsPlayback
  <2>1. PICK x \in {Frame("FPGATRACE", "pulses"), Frame("FPGAPLAYBACK", "address")} :
          /\ toHost' = Append(toHost, x)
          /\ UNCHANGED <<pc, dest, hiconf_receive_buffer, answers, work>>
    BY <1>6 DEF FPGATraces, FPGAEndsPlayback, hostVars, callVars
  <2>2. Contents(x) = <<>>
    BY DEF Contents, Frame
  <2>3. Way' = Way /\ issued' = issued
    BY <1>6, WayStill
  <2>4. \A d \in Dest : Ascending(toHost', {d}) /\ Within(toHost') = Within(toHost)
    BY <2>1, <2>2, ToHostQuiet
  <2> QED BY <2>1, <2>3, <2>4, AnswerQuiet DEF AnswerInv
<1>7. ASSUME NEW d \in Dest, recvData(d) PROVE AnswerInv'
  <2>1. UNCHANGED <<hiconf_receive_buffer, answers, work, toHost>> /\ dest' = d
    BY <1>7 DEF recvData, fpgaVars
  <2> QED BY <1>5, <1>7, <2>1, WayStill
<1>8. CASE Flush
  <2>1. UNCHANGED <<hiconf_receive_buffer, answers, work, toHost, pc, dest>>
    BY <1>8 DEF Flush, fpgaVars, callVars
  <2> QED BY <1>5, <1>8, <2>1, WayStill DEF AnswerInv
<1>9. CASE reset
  <2>1. /\ UNCHANGED <<answers, work, toHost, pc, dest>>
        /\ hiconf_receive_buffer' = [d \in Dest |-> <<>>]
        /\ \A d \in Dest : hiconf_receive_buffer[d] = <<>>
    BY <1>9, ResetIs
  <2>2. hiconf_receive_buffer' = hiconf_receive_buffer
    BY <2>1 DEF AnswerInv
  <2> QED BY <1>5, <1>9, <2>1, <2>2, WayStill DEF AnswerInv
<1>10. ASSUME NEW b, NEW o, Sends(b, o) PROVE AnswerInv'
  <2>1. /\ UNCHANGED <<hiconf_receive_buffer, answers, work, toHost, dest>> /\ pc = "idle"
    BY <1>10, SendsIs
  <2>2. pc' # "recvData"
    BY <1>10, <2>1 DEF Sends, setFPGAPulseLoopback, setPlaybackSystimeReplacing, Control,
       sendFPGAConfigPacket, Waits, Already
  <2> QED BY <1>5, <1>10, <2>1, <2>2, WayStill
<1>11. CASE ConfigAnswer
  <2>1. /\ pc = "config" /\ toHost # <<>> /\ toHost' = Tail(toHost) /\ pc' = "idle"
        /\ UNCHANGED <<hiconf_receive_buffer, answers, work>>
    BY <1>11 DEF ConfigAnswer, fpgaVars
  <2>2. Head(toHost).pid = "FPGACONFIG"
    BY <2>1, ListedTail DEF AwaitInv, ConfigInv, Streams
  <2>3. Contents(Head(toHost)) = <<>> /\ ToSet(<<>>) = {}
    BY <2>2, OrderedNone DEF Contents
  <2>4. ASSUME NEW d \in Dest PROVE Ascending(toHost', {d}) /\ Within(toHost') = Within(toHost)
    <3>1. Ascending(toHost, {d})
      BY DEF AnswerInv
    <3>2. /\ Ascending(Tail(toHost), {d})
          /\ Within(toHost) = ToSet(Contents(Head(toHost))) \cup Within(Tail(toHost))
      BY <2>1, <3>1, AscendingTail
    <3> QED BY <2>1, <2>3, <3>2
  <2>5. Way' = Way /\ issued' = issued
    BY <1>11, WayStill
  <2> QED BY <2>1, <2>4, <2>5, AnswerQuiet
<1>12. CASE ConfigTimeout
  <2>1. UNCHANGED <<hiconf_receive_buffer, answers, work, toHost>> /\ pc' = "idle"
    BY <1>12 DEF ConfigTimeout, fpgaVars
  <2> QED BY <1>5, <1>12, <2>1, WayStill
<1>13. CASE UNCHANGED vars
  <2>1. UNCHANGED <<hiconf_receive_buffer, answers, work, toHost, pc, dest>>
    BY <1>13 DEF vars, hostVars, fpgaVars, callVars
  <2> QED BY <1>5, <1>13, <2>1, WayStill DEF AnswerInv
<1> QED BY <1>1, <1>2, <1>3, <1>4, <1>6, <1>7, <1>8, <1>9, <1>10, <1>11, <1>12, <1>13, Steps DEF Still

\* The answers a destination's reads returned are those of its first reads, in
\* order and none left out, though the answers of all destinations, trace data and
\* configuration share a stream, and though reads time out and are answered later
\* (getReceivedHICANNConfig and fill_receive_buffer, host_al_controller.cpp).
THEOREM AnswersInOrderHolds == ASSUME Orderly PROVE Spec => []AnswersInOrder
<1> DEFINE I == ConfigInv /\ WayInv /\ WorkInv /\ AwaitInv /\ AnswerInv
<1>1. Init => I
  <2> SUFFICES ASSUME Init PROVE I
    OBVIOUS
  <2>1. WorkInv /\ AwaitInv
    BY DEF Init, WorkInv, AwaitInv
  <2> QED BY <2>1, ConfigInit, WayInit, AnswerInit
<1>2. I /\ [Next]_vars => I'
  BY ConfigStep, WayStep, WorkStep, AwaitStep, AnswerStep
<1>3. I => AnswersInOrder
  <2> SUFFICES ASSUME AnswerInv, NEW d \in Dest, NEW i \in DOMAIN answers[d], answers[d][i] # 0
               PROVE  /\ \E c \in ReadsOf(d) : c.no = answers[d][i]
                      /\ {answers[d][j] : j \in 1 .. i - 1} \ {0} =
                         {c.no : c \in {r \in ReadsOf(d) : r.no < answers[d][i]}}
    BY DEF AnswersInOrder
  <2>1. ReadsOf(d) = Reads(ToSet(issued), d)
    BY DEF ReadsOf, Reads
  <2>2. InOrder(answers[d], ReadsOf(d))
    BY <2>1 DEF AnswerInv, Flow
  <2> QED BY <2>2 DEF InOrder, No
<1> QED BY <1>1, <1>2, <1>3, PTL DEF Spec
=============================================================================
