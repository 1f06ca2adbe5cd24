-------------------------- MODULE LinkInit_proofs --------------------------
(***************************************************************************)
(* Bringing up the links, for any number of channels, HICANNs, tries and   *)
(* polls, and programs that end or are killed at any step: when Init has   *)
(* returned ok, the links asked for can be used, all others are cut off,   *)
(* and both ends of every ARQ connection have started together.            *)
(***************************************************************************)
EXTENDS LinkInit, WellFoundedInduction, TLAPS

\* A set of channels has a first one, so that FirstOf chooses it.
LEMMA Least ==
  ASSUME NEW S \in SUBSET Nat, S # {}
  PROVE  \E c \in S : \A d \in S : c <= d
<1>1. PICK c \in S : \A d \in S : ~(<<d, c>> \in OpToRel(<, Nat))
  BY WFMin, NatLessThanWellFounded, Zenon
<1>2. ASSUME NEW d \in S PROVE c <= d
  <2>1. <<d, c>> \in Nat \X Nat
    BY SMT
  <2>2. <<d, c>> \notin {p \in Nat \X Nat : p[1] < p[2]}
    BY <1>1, Zenon DEF OpToRel
  <2>3. ~(<<d, c>>[1] < <<d, c>>[2])
    BY <2>1, <2>2
  <2> QED BY <2>3
<1> QED BY <1>2

LEMMA FirstOfIsFirst ==
  ASSUME NEW S \in SUBSET Channels, S # {}
  PROVE  FirstOf(S) \in S /\ \A d \in S : FirstOf(S) <= d
<1>1. S \in SUBSET Nat
  BY LinkInitAssumption DEF Channels
<1>2. \E c \in S : \A d \in S : c <= d
  BY <1>1, Least
<1> QED BY <1>2 DEF FirstOf
-----------------------------------------------------------------------------
\* Init works on the channels asked for, and not for ever; an object that has
\* tested its links once only skips the test when all went well.
Underway ==
  /\ ~alive => pc = "idle" /\ outcome = "none" /\ call = NoCall
  /\ call = NoCall => outcome # "ok" /\ ~test_transmissions_done /\ pc = "idle"
  /\ call # NoCall => call.hicann # {}
  /\ call.highspeed \subseteq call.hicann
  /\ pc \in {"link", "poll", "test", "transmit"} => cur \in call.highspeed /\ nrep < MaxTries
  /\ once /\ test_transmissions_done =>
       pc \in {"disable", "channels"} \/ (pc \in {"release", "idle"} /\ outcome = "ok")

BaseInv == TypeOK /\ Underway /\ StatesMatchLinks

LEMMA BaseInit == ASSUME Init PROVE BaseInv
<1>1. 0 \in Channels /\ 0 \in 0 .. MaxTries /\ 0 \in 0 .. MaxPolls
  BY LinkInitAssumption DEF Channels
<1>2. TypeOK
  BY <1>1 DEF Init, TypeOK, NoCall, Sides
<1> QED BY <1>2 DEF Init, BaseInv, Underway, StatesMatchLinks, NoCall

\* A try that fails: Init ends or tries again.
LEMMA FailedTry ==
  ASSUME TypeOK, nrep < MaxTries, TryFailed
  PROVE  /\ nrep' \in 0 .. MaxTries
         /\ \/ pc' = "release" /\ outcome' = "failed"
            \/ pc' = "try" /\ outcome' = outcome
BY LinkInitAssumption DEF TypeOK, TryFailed, Return, Again

LEMMA BaseStep == ASSUME BaseInv, [Next]_vars PROVE BaseInv'
<1> USE LinkInitAssumption
<1>0. TypeOK /\ Underway /\ StatesMatchLinks
  BY DEF BaseInv
<1>1. CASE ReticleControl
  <2>1. TypeOK'
    BY <1>0, <1>1 DEF ReticleControl, TypeOK, links, progress, Sides
  <2> QED BY <1>0, <1>1, <2>1
       DEF ReticleControl, links, progress, BaseInv, Underway, StatesMatchLinks
<1>2. CASE Gone /\ fpga_arq' \in {"reset", "running"}
           /\ seq' \in [Sides -> [Channels -> {"fresh", "used", "reset"}]]
  <2>0. /\ 0 \in Channels /\ 0 \in 0 .. MaxTries /\ 0 \in 0 .. MaxPolls
        /\ NoCall \in [hicann : SUBSET Available, highspeed : SUBSET Available,
                      return_on_error : BOOLEAN]
    BY DEF Channels, NoCall
  <2>1. TypeOK'
    BY <1>0, <1>2, <2>0 DEF Gone, TypeOK, links
  <2> QED BY <1>0, <1>2, <2>1 DEF Gone, links, BaseInv, Underway, StatesMatchLinks, NoCall
<1>3. CASE Destroy
  <2>1. fpga_arq' \in {"reset", "running"} /\ seq' \in [Sides -> [Channels -> {"fresh", "used", "reset"}]]
    BY <1>0, <1>3 DEF Destroy, Ends, TypeOK, Sides
  <2> QED BY <1>2, <1>3, <2>1 DEF Destroy
<1>4. CASE Killed
  BY <1>0, <1>2, <1>4 DEF Killed, arqs, TypeOK
<1>5. ASSUME NEW hicann \in (SUBSET Available) \ {{}}, NEW highspeed \in SUBSET hicann, NEW roe \in BOOLEAN,
             hicannInit(hicann, highspeed, roe)
      PROVE  BaseInv'
  <2>0. call' = [hicann |-> hicann, highspeed |-> highspeed, return_on_error |-> roe]
    BY <1>5 DEF hicannInit
  <2>1. /\ call'.hicann = hicann /\ call'.highspeed = highspeed /\ call' # NoCall
        /\ hicann # {} /\ highspeed \subseteq hicann
    <3>1. call'.hicann = hicann /\ call'.highspeed = highspeed /\ hicann # {}
      BY <2>0
    <3>2. NoCall.hicann = {}
      BY DEF NoCall
    <3> QED BY <3>1, <3>2
  <2>2. TypeOK'
    <3>1. 0 \in Channels /\ 0 \in 0 .. MaxTries /\ 0 \in 0 .. MaxPolls
      BY DEF Channels
    <3>2. call' \in [hicann : SUBSET Available, highspeed : SUBSET Available,
                    return_on_error : BOOLEAN]
      BY <2>0
    <3>3. /\ UNCHANGED <<links, arqs, object>> /\ nrep' = 0 /\ k' = 0 /\ cur' = 0
          /\ pc' \in {"release", "try"} /\ outcome' \in {"ok", outcome}
      BY <1>5 DEF hicannInit
    <3> QED BY <1>0, <3>1, <3>2, <3>3 DEF TypeOK, links, arqs, object
  <2>3. Underway'
    <3>1. /\ alive' = alive /\ alive /\ once' = once
          /\ test_transmissions_done' = test_transmissions_done
          /\ \/ once /\ test_transmissions_done /\ pc' = "release" /\ outcome' = "ok"
             \/ ~(once /\ test_transmissions_done) /\ pc' = "try" /\ outcome' = outcome
      BY <1>5 DEF hicannInit, object
    <3>2. pc' \notin {"link", "poll", "test", "transmit"} /\ alive' = TRUE
      BY <1>0, <3>1 DEF TypeOK
    <3>3. once' /\ test_transmissions_done' => pc' = "release" /\ outcome' = "ok"
      BY <3>1
    <3> QED BY <2>1, <3>2, <3>3 DEF Underway
  <2>4. StatesMatchLinks'
    BY <1>0, <1>5 DEF hicannInit, StatesMatchLinks, links, object
  <2> QED BY <2>2, <2>3, <2>4 DEF BaseInv
<1>6. CASE Try
  <2>1. TypeOK'
    BY <1>0, <1>6, FirstOfIsFirst DEF Try, Return, Proceed, TypeOK, links, arqs
  <2>2. call.highspeed # {} => FirstOf(call.highspeed) \in call.highspeed
    BY <1>0, FirstOfIsFirst DEF TypeOK
  <2>3. Underway'
    BY <1>0, <1>6, <2>2 DEF Try, Return, Proceed, TypeOK, Underway, links, arqs
  <2>4. StatesMatchLinks'
    BY <1>0, <1>6 DEF Try, Return, Proceed, StatesMatchLinks, links
  <2> QED BY <2>1, <2>3, <2>4 DEF BaseInv
<1>7. CASE WrongFpga
  BY <1>0, <1>7 DEF WrongFpga, BaseInv, TypeOK, Underway, StatesMatchLinks, links, arqs, object
<1>8. CASE WrongHicann
  <2>1. /\ nrep' \in 0 .. MaxTries
        /\ \/ pc' = "release" /\ outcome' = "failed"
           \/ pc' = "try" /\ outcome' = outcome
    BY <1>0, <1>8, FailedTry DEF WrongHicann, Underway
  <2> QED BY <1>0, <1>8, <2>1
       DEF WrongHicann, BaseInv, TypeOK, Underway, StatesMatchLinks, links, arqs, object
<1>9. CASE StartLink
  <2>1. hicannif_conf' \in [Channels -> SUBSET {"start", "invert"}]
    BY <1>0, <1>9 DEF StartLink, TypeOK, start_fpga_link, set_hicannif_config
  <2>2. TypeOK'
    BY <1>0, <1>9, <2>1 DEF StartLink, Proceed, TypeOK, arqs, object
  <2> QED BY <1>0, <1>9, <2>2
       DEF StartLink, Proceed, BaseInv, Underway, StatesMatchLinks, TypeOK, arqs, object
<1>10. CASE Poll
  <2>1. k + 1 \in 0 .. MaxPolls
    BY <1>0, <1>10 DEF Poll, TypeOK
  <2> QED BY <1>0, <1>10, <2>1 DEF Poll, BaseInv, Underway, StatesMatchLinks, TypeOK, arqs, object
<1>11. CASE Polled
  <2>1. /\ cur \in call.highspeed /\ cur \in Available /\ nrep < MaxTries
        /\ call.highspeed \in SUBSET Channels /\ After(call.highspeed) \in SUBSET call.highspeed
    BY <1>0, <1>11 DEF Polled, Underway, TypeOK, After
  <2>2. /\ link_states' \subseteq Available
        /\ \A c \in link_states' : c \in up
    BY <1>0, <1>11, <2>1 DEF Polled, TooLate, StatesMatchLinks, TypeOK
  <2>3. After(call.highspeed) # {} => FirstOf(After(call.highspeed)) \in call.highspeed
    BY <2>1, FirstOfIsFirst
  <2>4. call.highspeed # {} => FirstOf(call.highspeed) \in call.highspeed
    BY <2>1, FirstOfIsFirst
  <2>5. UNCHANGED <<links, arqs, alive, test_transmissions_done, once, call, k>>
    BY <1>11 DEF Polled
  <2>6. \/ /\ pc' \in {"link", "test"} /\ cur' \in call.highspeed /\ nrep' = nrep /\ outcome' = outcome
        \/ /\ cur' = cur /\ nrep' \in 0 .. MaxTries
           /\ \/ pc' = "release" /\ outcome' = "failed"
              \/ pc' = "try" /\ outcome' = outcome
    <3>1. CASE After(call.highspeed) # {}
      BY <1>11, <2>3, <3>1 DEF Polled, Proceed
    <3>2. CASE After(call.highspeed) = {} /\ call.highspeed \subseteq link_states'
      BY <1>11, <2>1, <2>4, <3>2 DEF Polled, Proceed
    <3>3. CASE After(call.highspeed) = {} /\ ~(call.highspeed \subseteq link_states')
      BY <1>0, <1>11, <2>1, <3>3, FailedTry DEF Polled
    <3> QED BY <3>1, <3>2, <3>3
  <2>7. TypeOK'
    BY <1>0, <2>1, <2>2, <2>5, <2>6 DEF TypeOK, links, arqs
  <2>8. Underway'
    BY <1>0, <1>11, <2>1, <2>5, <2>6 DEF Polled, Underway, links, arqs
  <2>9. StatesMatchLinks'
    BY <2>2, <2>5 DEF StatesMatchLinks, links
  <2> QED BY <2>7, <2>8, <2>9 DEF BaseInv
<1>12. CASE StartTest
  BY <1>0, <1>12
  DEF StartTest, Proceed, BaseInv, Underway, StatesMatchLinks, TypeOK, arqs, object
<1>13. CASE EndTest
  <2>1. cur \in call.highspeed /\ nrep < MaxTries /\ cur \in Channels
        /\ call.highspeed \in SUBSET Channels /\ After(call.highspeed) \in SUBSET call.highspeed
    BY <1>0, <1>13 DEF EndTest, Underway, TypeOK, After
  <2>2. After(call.highspeed) # {} => FirstOf(After(call.highspeed)) \in call.highspeed
    BY <2>1, FirstOfIsFirst
  <2>3. /\ testmode' = {} /\ forward' = forward \cup {cur}
        /\ UNCHANGED <<hicannif_conf, up, disabled, arqs, alive, link_states, once, call, k>>
    BY <1>13 DEF EndTest, Reconnected
  <2>4. \/ /\ cur' = cur /\ nrep' \in 0 .. MaxTries /\ test_transmissions_done' = test_transmissions_done
           /\ \/ pc' = "release" /\ outcome' = "failed"
              \/ pc' = "try" /\ outcome' = outcome
        \/ /\ nrep' = nrep /\ outcome' = outcome
           /\ \/ /\ pc' = "test" /\ cur' \in call.highspeed
                 /\ test_transmissions_done' = test_transmissions_done
              \/ /\ pc' = "disable" /\ cur' = cur /\ test_transmissions_done' = TRUE
    BY <1>0, <1>13, <2>1, <2>2, FailedTry DEF EndTest, Proceed
  <2>5. TypeOK'
    BY <1>0, <2>1, <2>3, <2>4 DEF TypeOK, arqs
  <2>6. Underway'
    BY <1>0, <1>13, <2>1, <2>3, <2>4 DEF EndTest, Underway, arqs
  <2>7. StatesMatchLinks'
    BY <1>0, <1>13, <2>3, <2>4 DEF EndTest, StatesMatchLinks
  <2> QED BY <2>5, <2>6, <2>7 DEF BaseInv
<1>14. CASE DisableArq
  <2>0. seq' \in [Sides -> [Channels -> {"fresh", "used", "reset"}]] /\ 0 \in Channels
    <3> DEFINE fresh == [c \in Channels |-> "fresh"]
    <3>1. fresh \in [Channels -> {"fresh", "used", "reset"}]
      OBVIOUS
    <3>2. seq' = [seq EXCEPT !["software"] = fresh, !["fpga"] = fresh]
      BY <1>14 DEF DisableArq, StartOver
    <3> HIDE DEF fresh
    <3>3. seq' \in [Sides -> [Channels -> {"fresh", "used", "reset"}]]
      BY <1>0, <3>1, <3>2 DEF TypeOK, Sides
    <3> QED BY <3>3 DEF Channels
  <2>1. TypeOK'
    BY <1>0, <1>14, <2>0 DEF DisableArq, Proceed, TypeOK, links, object
  <2> QED BY <1>0, <1>14, <2>1
       DEF DisableArq, Proceed, BaseInv, Underway, StatesMatchLinks, links, object
<1>15. CASE ResetChannel
  <2>1. seq' \in [Sides -> [Channels -> {"fresh", "used", "reset"}]]
    BY <1>0, <1>15 DEF ResetChannel, Ends, TypeOK, Sides
  <2>2. cur # Count - 1 => cur + 1 \in Channels
    BY <1>0 DEF TypeOK, Channels
  <2>3. /\ forward' \subseteq Channels /\ disabled' \subseteq Available
        /\ UNCHANGED <<hicannif_conf, up, testmode, fpga_arq, object, call, k>>
        /\ cur' \in Channels /\ nrep' = nrep
        /\ \/ pc' = "release" /\ outcome' = "ok"
           \/ pc' = "channels" /\ outcome' = outcome
    BY <1>0, <1>15, <2>2 DEF ResetChannel, CutOff, LastChannel, Return, Proceed, TypeOK
  <2>4. TypeOK'
    BY <1>0, <2>1, <2>3 DEF TypeOK, object
  <2> QED BY <1>0, <1>15, <2>3, <2>4
       DEF ResetChannel, BaseInv, Underway, StatesMatchLinks, object
<1>16. CASE Release
  BY <1>0, <1>16 DEF Release, BaseInv, Underway, StatesMatchLinks, TypeOK, links, object
<1>17. ASSUME NEW c \in Available, issueCommand(c) PROVE BaseInv'
  <2>1. seq' \in [Sides -> [Channels -> {"fresh", "used", "reset"}]]
    BY <1>0, <1>17 DEF issueCommand, Partner, TypeOK, Sides
  <2> QED BY <1>0, <1>17, <2>1
       DEF issueCommand, BaseInv, Underway, StatesMatchLinks, TypeOK, links, object, progress
<1>18. CASE UNCHANGED vars
  BY <1>0, <1>18
  DEF vars, links, arqs, object, progress, BaseInv, Underway, StatesMatchLinks, TypeOK
<1> QED BY <1>1, <1>3, <1>4, <1>5, <1>6, <1>7, <1>8, <1>9, <1>10, <1>11, <1>12, <1>13, <1>14, <1>15,
           <1>16, <1>17, <1>18 DEF Next, InitStep

\* Channels, tries and polls stay in range and names are those of the code.
THEOREM TypeCorrect == Spec => []TypeOK
<1>1. BaseInv => TypeOK
  BY DEF BaseInv
<1> QED BY BaseInit, BaseStep, <1>1, PTL DEF Spec

\* link_states never claims a link that is down (StatesMatchLinks), however often
\* tries end early and whatever the program asks for.
THEOREM StatesMatchLinksHolds == Spec => []StatesMatchLinks
<1>1. BaseInv => StatesMatchLinks
  BY DEF BaseInv
<1> QED BY BaseInit, BaseStep, <1>1, PTL DEF Spec
-----------------------------------------------------------------------------
(* Objects that always ask for the same HICANNs.                           *)

Done == pc \in {"release", "idle"} /\ outcome = "ok"

LinksAsked == link_states \subseteq call.highspeed

\* The channels tested so far are connected again; after the test all are.
Tested ==
  /\ pc \in {"test", "transmit"} =>
       /\ call.highspeed \subseteq link_states
       /\ \A c \in call.highspeed : c < cur => c \in forward
  /\ pc \in {"disable", "channels"} \/ Done =>
       /\ call.highspeed \subseteq link_states \cap forward
       /\ call.highspeed # {} => testmode = {}

\* The other channels that Init has come to are cut off; at the end all are.
OffBelow(n) ==
  \A c \in Channels \ call.highspeed :
    c < n => c \notin forward /\ (c \in call.hicann => c \in disabled)
CutSoFar ==
  /\ pc = "channels" => OffBelow(cur)
  /\ Done => OffBelow(Count)

\* Between the reset of the two sides the ARQ of the FPGA is held.
Held ==
  pc = "channels" =>
    /\ fpga_arq = "reset"
    /\ \A c \in Channels :
         /\ seq["software"][c] = "fresh" /\ seq["fpga"][c] = "fresh"
         /\ c \in call.hicann /\ c < cur => seq["hicann"][c] = "fresh"

InStep ==
  /\ Done => \A c \in call.hicann : seq[Partner(c)][c] = seq["hicann"][c]
  /\ outcome = "ok" /\ fpga_arq = "running" =>
       \A c \in call.highspeed : seq["fpga"][c] = seq["hicann"][c]
  /\ pc = "idle" /\ outcome = "ok" /\ call.highspeed # {} => fpga_arq = "running"

ReadyParts == LinksAsked /\ Tested /\ CutSoFar /\ Held /\ InStep
ReadyInv == BaseInv /\ ReadyParts

LEMMA ReadyInit == ASSUME Init PROVE ReadyInv
BY BaseInit
DEF Init, ReadyInv, ReadyParts, LinksAsked, Tested, CutSoFar, Held, InStep, Done

\* What the invariant says of the properties.
LEMMA ReadySays ==
  ASSUME ReadyInv
  PROVE  HighspeedReady /\ OthersCutOff /\ EndsInStep
<1>0. TypeOK /\ Underway /\ StatesMatchLinks
  BY DEF ReadyInv, BaseInv
<1>1. HighspeedReady
  BY <1>0 DEF ReadyInv, ReadyParts, HighspeedReady, Ready, Tested, InStep, Done, StatesMatchLinks
<1>2. OthersCutOff
  <2>1. SUFFICES ASSUME Ready
                 PROVE  /\ forward \cap (Channels \ call.highspeed) = {}
                        /\ call.hicann \ call.highspeed \subseteq disabled
    BY DEF OthersCutOff
  <2>2. \A c \in Channels : c < Count
    BY LinkInitAssumption DEF Channels
  <2>3. \A c \in Channels \ call.highspeed : c \notin forward /\ (c \in call.hicann => c \in disabled)
    BY <2>1, <2>2 DEF ReadyInv, ReadyParts, CutSoFar, Done, Ready, OffBelow
  <2>4. call.hicann \subseteq Channels
    BY <1>0, LinkInitAssumption DEF TypeOK
  <2> QED BY <2>3, <2>4
<1>3. EndsInStep
  BY DEF ReadyInv, ReadyParts, EndsInStep, Ready, InStep, Done
<1> QED BY <1>1, <1>2, <1>3

\* Steps in the middle of Init, before the ARQ is held, that move on or fail.
LEMMA MiddleSteps ==
  ASSUME ReadyInv, UNCHANGED <<call, arqs>>, link_states' \subseteq call.highspeed,
         pc \in {"try", "link", "poll", "test", "transmit"},
         \/ pc' = "release" /\ outcome' = "failed"
         \/ pc' = "idle" /\ outcome' = "failed"
         \/ pc' \in {"try", "link", "poll"} /\ outcome' = outcome
  PROVE  ReadyParts'
BY DEF ReadyInv, ReadyParts, LinksAsked, Tested, CutSoFar, Held, InStep, Done, arqs

LEMMA ReadyStep == ASSUME Orderly, ReadyInv, [Next]_vars PROVE ReadyInv'
<1> USE LinkInitAssumption
<1>0. /\ TypeOK /\ Underway /\ StatesMatchLinks
      /\ LinksAsked /\ Tested /\ CutSoFar /\ Held /\ InStep
  BY DEF ReadyInv, BaseInv, ReadyParts
<1>b. BaseInv'
  BY BaseStep DEF ReadyInv
<1> SUFFICES ReadyParts'
  BY <1>b DEF ReadyInv
<1>1. CASE ReticleControl
  BY <1>0, <1>1
  DEF ReticleControl, progress, ReadyParts, Underway, LinksAsked, Tested, CutSoFar, Held, InStep, Done
<1>2. CASE Destroy \/ Killed
  BY <1>2 DEF Destroy, Killed, Gone, ReadyParts, LinksAsked, Tested, CutSoFar, Held, InStep, Done
<1>3. ASSUME NEW hicann \in (SUBSET Available) \ {{}}, NEW highspeed \in SUBSET hicann, NEW roe \in BOOLEAN,
             hicannInit(hicann, highspeed, roe)
      PROVE  ReadyParts'
  <2>1. /\ call'.hicann = hicann /\ call'.highspeed = highspeed
        /\ pc = "idle" /\ UNCHANGED <<links, arqs, object>>
        /\ call.hicann \in {{}, hicann} /\ (call = NoCall \/ call.highspeed = highspeed)
        /\ \/ once /\ test_transmissions_done /\ pc' = "release" /\ outcome' = "ok"
           \/ ~(once /\ test_transmissions_done) /\ pc' = "try" /\ outcome' = outcome
    BY <1>3 DEF hicannInit
  <2>2. link_states' \subseteq call'.highspeed
    BY <1>0, <2>1 DEF LinksAsked, NoCall, object
  <2>3. outcome' = "ok" => /\ outcome = "ok" /\ call'.hicann = call.hicann
                           /\ call'.highspeed = call.highspeed
    BY <1>0, <2>1 DEF Underway
  <2>4. pc' = "release" => Done
    BY <1>0, <2>1, <2>3 DEF Done
  <2>5. Done' => Done /\ pc' = "release"
    BY <2>1, <2>4 DEF Done
  <2>6. pc' \in {"release", "try"} /\ \A c : Partner(c)' = Partner(c)
    BY <2>1 DEF Partner, object
  <2>7. LinksAsked' /\ Tested' /\ Held'
    BY <1>0, <2>1, <2>2, <2>3, <2>5, <2>6 DEF LinksAsked, Tested, Held, Done, links, object
  <2>8. CutSoFar'
    BY <1>0, <2>1, <2>3, <2>5, <2>6 DEF CutSoFar, OffBelow, Done, links
  <2>9. InStep'
    BY <1>0, <2>1, <2>3, <2>5, <2>6 DEF InStep, Done, arqs
  <2> QED BY <2>7, <2>8, <2>9 DEF ReadyParts
<1>4. CASE Try
  <2>1. UNCHANGED <<links, arqs, link_states, call>> /\ pc = "try"
    BY <1>4 DEF Try
  <2>2. CASE pc' = "disable"
    <3>1. call.highspeed = {} /\ outcome' = outcome
      BY <1>4, <2>2 DEF Try, Return, Proceed
    <3> QED BY <1>0, <2>1, <2>2, <3>1
         DEF ReadyParts, LinksAsked, Tested, CutSoFar, Held, InStep, Done, arqs
  <2>3. CASE pc' # "disable"
    <3>1. (pc' = "release" /\ outcome' = "failed") \/ (pc' = "link" /\ outcome' = outcome)
      BY <1>4, <2>3 DEF Try, Return, Proceed
    <3> QED BY <1>0, <2>1, <3>1, MiddleSteps DEF LinksAsked
  <2> QED BY <2>2, <2>3
<1>5. CASE WrongFpga
  BY <1>0, <1>5, MiddleSteps DEF WrongFpga, LinksAsked, object
<1>6. CASE WrongHicann
  <2>1. \/ pc' = "release" /\ outcome' = "failed"
        \/ pc' = "try" /\ outcome' = outcome
    BY <1>0, <1>6, FailedTry DEF WrongHicann, Underway
  <2> QED BY <1>0, <1>6, <2>1, MiddleSteps DEF WrongHicann, LinksAsked, object
<1>7. CASE StartLink
  BY <1>0, <1>7, MiddleSteps DEF StartLink, Proceed, LinksAsked, object
<1>8. CASE Poll
  BY <1>0, <1>8, MiddleSteps DEF Poll, LinksAsked, object
<1>9. CASE Polled
  <2>1. cur \in call.highspeed /\ nrep < MaxTries /\ call.highspeed \in SUBSET Channels
        /\ UNCHANGED <<links, arqs, call>> /\ pc = "poll"
    BY <1>0, <1>9 DEF Polled, Underway, TypeOK
  <2>2. link_states' \subseteq call.highspeed
    BY <1>0, <1>9, <2>1 DEF Polled, LinksAsked
  <2>3. CASE pc' = "test"
    <3>1. call.highspeed \subseteq link_states' /\ cur' = FirstOf(call.highspeed) /\ outcome' = outcome
      BY <1>9, <2>3 DEF Polled, Proceed, TryFailed, Return
    <3>2. \A c \in call.highspeed : ~(c < cur')
      BY <2>1, <3>1, FirstOfIsFirst DEF Channels
    <3> QED BY <1>0, <2>1, <2>2, <2>3, <3>1, <3>2
         DEF ReadyParts, LinksAsked, Tested, CutSoFar, Held, InStep, Done, arqs
  <2>4. CASE pc' # "test"
    <3>1. \/ pc' = "release" /\ outcome' = "failed"
          \/ pc' \in {"try", "link"} /\ outcome' = outcome
      BY <1>9, <2>4 DEF Polled, Proceed, TryFailed, Return
    <3> QED BY <2>1, <2>2, <3>1, MiddleSteps
  <2> QED BY <2>3, <2>4
<1>10. CASE StartTest
  <2>1. cur \in Channels /\ call.highspeed \in SUBSET Channels
    BY <1>0 DEF TypeOK
  <2>2. /\ forward' = forward \ {cur} /\ pc = "test" /\ pc' = "transmit" /\ outcome' = outcome
        /\ UNCHANGED <<arqs, link_states, call, cur>>
    BY <1>10 DEF StartTest, Proceed, object
  <2>3. Tested'
    BY <1>0, <2>1, <2>2 DEF Tested, Done, Channels
  <2> QED BY <1>0, <2>2, <2>3 DEF ReadyParts, LinksAsked, CutSoFar, Held, InStep, Done, arqs
<1>11. CASE EndTest
  <2>1. cur \in call.highspeed /\ nrep < MaxTries /\ call.highspeed \in SUBSET Channels
        /\ After(call.highspeed) \in SUBSET Channels
    BY <1>0, <1>11 DEF EndTest, Underway, TypeOK, After
  <2>2. /\ testmode' = {} /\ forward' = forward \cup {cur} /\ pc = "transmit"
        /\ UNCHANGED <<arqs, link_states, call>>
    BY <1>11 DEF EndTest, Reconnected
  <2>3. CASE TryFailed
    <3>1. \/ pc' = "release" /\ outcome' = "failed"
          \/ pc' = "try" /\ outcome' = outcome
      BY <1>0, <2>1, <2>3, FailedTry
    <3> QED BY <1>0, <2>2, <3>1, MiddleSteps DEF LinksAsked
  <2>4. CASE After(call.highspeed) # {} /\ Proceed("test") /\ cur' = FirstOf(After(call.highspeed))
    <3>1. \A c \in call.highspeed : c < cur' => c < cur \/ c = cur
      BY <2>1, <2>4, FirstOfIsFirst DEF After, Channels
    <3> QED BY <1>0, <2>2, <2>4, <3>1
         DEF Proceed, ReadyParts, LinksAsked, Tested, CutSoFar, Held, InStep, Done, arqs
  <2>5. CASE After(call.highspeed) = {} /\ Proceed("disable")
    <3>1. \A c \in call.highspeed : c < cur \/ c = cur
      BY <2>1, <2>5 DEF After, Channels
    <3> QED BY <1>0, <2>2, <2>5, <3>1
         DEF Proceed, ReadyParts, LinksAsked, Tested, CutSoFar, Held, InStep, Done, arqs
  <2> QED BY <1>11, <2>3, <2>4, <2>5 DEF EndTest
<1>12. CASE DisableArq
  <2>1. /\ pc = "disable" /\ pc' = "channels" /\ cur' = 0 /\ outcome' = outcome
        /\ fpga_arq' = "reset" /\ seq' = StartOver
        /\ UNCHANGED <<links, object, call>>
    BY <1>12 DEF DisableArq, Proceed
  <2>2. \A c \in Channels : ~(c < 0)
    BY DEF Channels
  <2>3. \A c \in Channels : seq'["software"][c] = "fresh" /\ seq'["fpga"][c] = "fresh"
    BY <1>0, <2>1 DEF StartOver, TypeOK, Sides
  <2>4. CutSoFar' /\ Held' /\ InStep'
    BY <2>1, <2>2, <2>3 DEF CutSoFar, OffBelow, Held, InStep, Done
  <2> QED BY <1>0, <2>1, <2>4 DEF ReadyParts, LinksAsked, Tested, Done, links, object
<1>13. CASE ResetChannel
  <2>1. /\ pc = "channels" /\ cur \in Channels /\ forward' = CutOff
        /\ disabled' = IF cur \in call.hicann \ link_states THEN disabled \cup {cur} ELSE disabled
        /\ seq' = IF cur \in call.hicann THEN Ends("hicann", {cur}, "fresh") ELSE seq
        /\ UNCHANGED <<testmode, fpga_arq, link_states, call>>
    BY <1>0, <1>13 DEF ResetChannel, TypeOK, object
  <2>2. \/ cur = Count - 1 /\ pc' = "release" /\ outcome' = "ok"
        \/ pc' = "channels" /\ outcome' = outcome /\ cur' = cur + 1
    BY <1>13 DEF ResetChannel, LastChannel, Return, Proceed
  <2>3. call.highspeed = link_states /\ call.highspeed \subseteq forward
        /\ call.hicann \subseteq Channels /\ call.highspeed \subseteq call.hicann
    BY <1>0, <2>1 DEF LinksAsked, Tested, TypeOK, Underway
  <2>4. \A c \in Channels : c < cur + 1 => c < cur \/ c = cur
    BY <2>1 DEF Channels
  <2>5. cur = Count - 1 => \A c \in Channels : c < cur + 1
    BY DEF Channels
  <2>6. \A c \in Channels \ call.highspeed :
          c < cur + 1 => c \notin forward' /\ (c \in call.hicann => c \in disabled')
    BY <1>0, <2>1, <2>3, <2>4 DEF CutSoFar, OffBelow, CutOff
  <2>7. LinksAsked' /\ Tested'
    BY <1>0, <2>1, <2>2, <2>3 DEF LinksAsked, Tested, Done, CutOff
  <2>8. CutSoFar'
    <3>1. CASE pc' = "channels" /\ outcome' = outcome /\ cur' = cur + 1
      BY <2>1, <2>6, <3>1 DEF CutSoFar, OffBelow, Done
    <3>2. CASE cur = Count - 1 /\ pc' = "release" /\ outcome' = "ok"
      BY <2>1, <2>5, <2>6, <3>2 DEF CutSoFar, OffBelow
    <3> QED BY <2>2, <3>1, <3>2
  <2>9. \A c \in Channels : /\ seq'["software"][c] = "fresh" /\ seq'["fpga"][c] = "fresh"
                            /\ c \in call.hicann /\ c < cur + 1 => seq'["hicann"][c] = "fresh"
    BY <1>0, <2>1, <2>4 DEF Held, Ends, TypeOK, Sides
  <2>10. Held'
    BY <1>0, <2>1, <2>2, <2>9 DEF Held
  <2>11. InStep'
    <3>1. fpga_arq' = "reset"
      BY <1>0, <2>1 DEF Held
    <3>2. CASE pc' = "channels" /\ outcome' = outcome /\ cur' = cur + 1
      BY <3>1, <3>2 DEF InStep, Done
    <3>3. CASE cur = Count - 1 /\ pc' = "release" /\ outcome' = "ok"
      BY <2>1, <2>3, <2>5, <2>9, <3>1, <3>3 DEF InStep, Partner
    <3> QED BY <2>2, <3>2, <3>3
  <2> QED BY <2>7, <2>8, <2>10, <2>11 DEF ReadyParts
<1>14. CASE Release
  <2>1. /\ pc = "release" /\ pc' = "idle" /\ UNCHANGED <<links, seq, object, call, outcome>>
        /\ fpga_arq' = IF link_states = {} THEN fpga_arq ELSE "running"
    BY <1>14 DEF Release
  <2>2. Done' = Done /\ \A c : Partner(c)' = Partner(c)
    BY <2>1 DEF Done, Partner, object
  <2>3. InStep'
    <3>1. outcome = "ok" => /\ call.highspeed = link_states
                            /\ \A c \in call.hicann : seq[Partner(c)][c] = seq["hicann"][c]
      BY <1>0, <2>1 DEF Done, InStep, LinksAsked, Tested
    <3>2. \A c \in link_states : Partner(c) = "fpga"
      BY DEF Partner
    <3> QED BY <1>0, <2>1, <2>2, <3>1, <3>2 DEF InStep, Underway
  <2>4. CutSoFar'
    BY <1>0, <2>1, <2>2 DEF CutSoFar, OffBelow, links
  <2> QED BY <1>0, <2>1, <2>2, <2>3, <2>4 DEF ReadyParts, LinksAsked, Tested, Held, links, object
<1>15. ASSUME NEW c \in Available, issueCommand(c) PROVE ReadyParts'
  <2>1. /\ pc = "idle" /\ outcome = "ok" /\ c \in call.hicann /\ c \in Channels
        /\ seq' = [seq EXCEPT ![Partner(c)][c] = "used", !["hicann"][c] = "used"]
        /\ UNCHANGED <<links, fpga_arq, object, call, outcome, progress>>
    BY <1>15 DEF issueCommand
  <2>2. Done /\ \A d : Partner(d)' = Partner(d)
    BY <2>1 DEF Done, Partner, object
  <2>3. call.highspeed = link_states /\ call.hicann \subseteq Channels
        /\ call.highspeed \subseteq call.hicann
    BY <1>0, <2>2 DEF LinksAsked, Tested, TypeOK, Underway
  <2>4. \A d \in Channels :
          /\ seq'["hicann"][d] = IF d = c THEN "used" ELSE seq["hicann"][d]
          /\ seq'[Partner(d)][d] = IF d = c THEN "used" ELSE seq[Partner(d)][d]
    BY <1>0, <2>1 DEF TypeOK, Partner, Sides
  <2>5. \A d \in call.hicann : seq'[Partner(d)][d] = seq'["hicann"][d]
    BY <1>0, <2>2, <2>3, <2>4 DEF InStep
  <2>6. InStep'
    <3>1. \A d \in call.highspeed : Partner(d) = "fpga"
      BY <2>3 DEF Partner
    <3>2. \A d \in call.highspeed : seq'["fpga"][d] = seq'["hicann"][d]
      BY <2>3, <2>5, <3>1
    <3> QED BY <1>0, <2>1, <2>2, <2>5, <3>2 DEF InStep, progress
  <2>7. CutSoFar'
    BY <1>0, <2>1 DEF CutSoFar, OffBelow, Done, links, progress
  <2> QED BY <1>0, <2>1, <2>6, <2>7
       DEF ReadyParts, LinksAsked, Tested, Held, Done, links, object, progress
<1>16. CASE UNCHANGED vars
  BY <1>0, <1>16
  DEF vars, links, arqs, object, progress, ReadyParts, LinksAsked, Tested, CutSoFar, OffBelow, Held,
      InStep, Done, Partner
<1> QED BY <1>1, <1>2, <1>3, <1>4, <1>5, <1>6, <1>7, <1>8, <1>9, <1>10, <1>11, <1>12, <1>13, <1>14,
           <1>15, <1>16 DEF Next, InitStep

LEMMA ReadyAlways == ASSUME Orderly PROVE Spec => []ReadyInv
<1>1. ReadyInv /\ [Next]_vars => ReadyInv'
  BY ReadyStep
<1> QED BY ReadyInit, <1>1, PTL DEF Spec

\* When Init has returned ok, the HICANNs asked for by the highspeed link can be
\* used through it, whatever an earlier program left (HighspeedReady).
THEOREM HighspeedReadyHolds == ASSUME Orderly PROVE Spec => []HighspeedReady
<1>1. ReadyInv => HighspeedReady
  BY ReadySays
<1> QED BY ReadyAlways, <1>1, PTL

\* ... and all other channels are cut off from the ARQ of the FPGA (OthersCutOff).
THEOREM OthersCutOffHolds == ASSUME Orderly PROVE Spec => []OthersCutOff
<1>1. ReadyInv => OthersCutOff
  BY ReadySays
<1> QED BY ReadyAlways, <1>1, PTL

\* The two ends of every ARQ connection in use have started together, through
\* repeated and failed calls of Init (EndsInStep).
THEOREM EndsInStepHolds == ASSUME Orderly PROVE Spec => []EndsInStep
<1>1. ReadyInv => EndsInStep
  BY ReadySays
<1> QED BY ReadyAlways, <1>1, PTL
=============================================================================
