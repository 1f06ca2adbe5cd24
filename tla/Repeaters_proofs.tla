------------------------- MODULE Repeaters_proofs -------------------------
(***************************************************************************)
(* For any number of repeaters, in every block and for every way of using  *)
(* it, across restarts at any step and reads that fail: the object's copy  *)
(* is the chip's state once each of its reads got its own answer, a test   *)
(* output has one driver, the drivers of the two sides exclude each other, *)
(* and a started channel plays its own data.                               *)
(***************************************************************************)
EXTENDS Repeaters, TLAPS

\* For naturals below n the remainder is the number itself.
LEMMA SmallMod ==
  ASSUME NEW n \in Nat \ {0}, NEW a \in 0 .. n - 1
  PROVE  a % n = a
BY Z3

LEMMA ModSelf == ASSUME NEW n \in Nat \ {0} PROVE n % n = 0
BY Z3

LEMMA CountAssumed == Count \in Nat \ {0}
BY RepeaterAssumption

\* Every repeater has an address of its own.
LEMMA Addresses ==
  /\ \A r \in Reps : repaddr(r) \in Reps
  /\ \A r, s \in Reps : repaddr(r) = repaddr(s) => r = s
<1> USE CountAssumed
<1>1. \A r \in Reps : (r + 1) % Count = IF r = Count - 1 THEN 0 ELSE r + 1
  BY SmallMod, ModSelf DEF Reps
<1>2. \A r \in Reps : (Count - r) % Count = IF r = 0 THEN 0 ELSE Count - r
  BY SmallMod, ModSelf DEF Reps
<1>3. CASE loc \in {"REPTL", "REPTR"}
  BY <1>1, <1>3 DEF Reps, repaddr
<1>4. CASE loc \notin {"REPTL", "REPTR"} /\ loc = "REPR"
  BY <1>2, <1>4 DEF Reps, repaddr
<1>5. CASE loc \notin {"REPTL", "REPTR"} /\ loc # "REPR"
  BY <1>5 DEF Reps, repaddr
<1> QED BY <1>3, <1>4, <1>5
-----------------------------------------------------------------------------
\* A call that switches a repeater is one the program uses, and the copy holds.
CallsAllowed ==
  op.call \in {"conf", "spl1"} =>
    /\ op.call \in usage /\ configured
    /\ op.step = 1 /\ (op.mode \in {"FORWARD", "SPL1OUT"} \/ (op.mode = "TESTIN" /\ ~op.on))
         => Available(op.rep)

\* What configure has read, where no read has failed, and reset has cleared so far.
Progress ==
  /\ op.call = "configure" /\ op.own => \A r \in Reps : r < op.rep => config[r] = Sram(r)
  /\ op.call = "reset" => \A r \in Reps : r < op.rep => config[r] = {} /\ Sram(r) = {}

\* The flags name the repeater that has the test output: all of them once the
\* chip has been read, before that those that have been read.
FlagsTrue ==
  \A r \in Reps :
    "touten" \in Sram(r) /\ (configured \/ (op.call = "configure" /\ op.own /\ r < op.rep))
      => outputflag[r % 2] = r

\* When conf_repeater switches its driver on, the other one is off.
OtherOff ==
  op.call = "conf" /\ op.step = 4 =>
    (IF op.dir = "OUTWARDS" THEN "dir" ELSE "recen") \notin Sram(op.rep)

CopyInv == TypeOK /\ CopyIsCurrent /\ Progress
FullInv == CopyInv /\ CallsAllowed /\ FlagsTrue /\ TestOutputExclusive /\ OtherOff /\ DriversExclusive

\* No step moves the block; a repeater keeps its address.
LEMMA SameAddress ==
  ASSUME [Next]_vars
  PROVE  /\ loc' = loc /\ usage' = usage
         /\ \A r : repaddr(r)' = repaddr(r)
<1>1. loc' = loc /\ usage' = usage
  BY DEF Next, vars, ConfStep, ConfigureStep, ConfigureThrows, ResetStep, conf_repeater, conf_spl1_repeater, Conf,
         SwitchBit, Ready, configure, reset, Restart, reset_dll, Start, StartStop, tdata_write
<1> QED BY <1>1 DEF repaddr

\* Answers are left behind by configure alone.
LEMMA OwedRange == ASSUME TypeOK, [Next]_vars PROVE owed' \in 0 .. MaxOwed
<1> USE RepeaterAssumption
<1>1. owed \in 0 .. MaxOwed
  BY DEF TypeOK
<1>2. ASSUME Unanswered PROVE owed' \in 0 .. MaxOwed
  BY <1>1, <1>2 DEF Unanswered
<1>3. ASSUME ConfigureStep \/ ConfigureThrows PROVE owed' \in 0 .. MaxOwed
  BY <1>1, <1>2, <1>3 DEF ConfigureStep, ConfigureThrows, OwnAnswer, LateAnswer, NoAnswer
<1>4. ASSUME Restart PROVE owed' \in 0 .. MaxOwed
  BY <1>1, <1>4 DEF Restart
<1>5. CASE UNCHANGED owed
  BY <1>1, <1>5
<1> QED BY <1>3, <1>4, <1>5
     DEF Next, vars, ConfStep, ResetStep, conf_repeater, conf_spl1_repeater, Conf,
         SwitchBit, Ready, configure, reset, reset_dll, Start, StartStop, tdata_write

\* A step of configure stores what a read gave, which is what the chip has where
\* the answer is the read's own.
LEMMA ConfigureReads ==
  ASSUME TypeOK, ConfigureStep
  PROVE  \E own \in BOOLEAN, bits \in SUBSET Ports :
           /\ own => bits = Sram(op.rep)
           /\ config' = [config EXCEPT ![op.rep] = bits]
           /\ outputflag' = Noted(op.rep, bits)
           /\ IF op.rep = Count - 1 THEN op' = Idle /\ configured' = (op.own /\ own)
              ELSE /\ op' = [call |-> "configure", rep |-> op.rep + 1, own |-> op.own /\ own]
                   /\ configured' = (configured /\ own)
BY Zenon DEF ConfigureStep, OwnAnswer

\* One write changes one repeater, on the chip and in the copy.
LEMMA OneWrite ==
  ASSUME TypeOK, NEW r \in Reps, NEW bit \in Ports, NEW on \in BOOLEAN,
         Write(r, bit, on), \A s : repaddr(s)' = repaddr(s)
  PROVE  /\ sram' \in [Reps -> SUBSET Ports] /\ config' \in [Reps -> SUBSET Ports]
         /\ Sram(r)' = Switched(config[r], bit, on) /\ config'[r] = Switched(config[r], bit, on)
         /\ \A s \in Reps : s # r => Sram(s)' = Sram(s) /\ config'[s] = config[s]
         /\ UNCHANGED <<rc_config, td, startconf>>
<1>1. Switched(config[r], bit, on) \in SUBSET Ports
  BY DEF TypeOK, Switched
<1>2. /\ sram' = [sram EXCEPT ![repaddr(r)] = Switched(config[r], bit, on)]
      /\ config' = [config EXCEPT ![r] = Switched(config[r], bit, on)]
      /\ UNCHANGED <<rc_config, td, startconf>>
  BY DEF Write, TypeOK
<1>3. sram \in [Reps -> SUBSET Ports] /\ config \in [Reps -> SUBSET Ports]
  BY DEF TypeOK
<1> QED BY <1>1, <1>2, <1>3, Addresses DEF Sram
-----------------------------------------------------------------------------
\* A step of a call, or a single call, switches one bit of one repeater; a
\* test output only where it is available.
Touch(r, bit, on) ==
  /\ Write(r, bit, on)
  /\ IF bit = "touten"
     THEN /\ on => Available(r)
          /\ outputflag' = [outputflag EXCEPT ![r % 2] = IF on THEN r ELSE Free]
     ELSE UNCHANGED outputflag

\* What an operation in progress looks like.
LEMMA OpInProgress ==
  ASSUME TypeOK
  PROVE  /\ op.call \in {"conf", "spl1"} =>
              /\ op.rep \in Reps /\ op.mode \in Modes /\ op.dir \in Directions
              /\ op.on \in BOOLEAN /\ op.step \in 1 .. 4
              /\ op \in [call : {"conf", "spl1"}, rep : Reps, mode : Modes, dir : Directions,
                         on : BOOLEAN, step : 1 .. 4]
         /\ op.call = "configure" =>
              /\ op.rep \in Reps /\ op.own \in BOOLEAN
              /\ op = [call |-> "configure", rep |-> op.rep, own |-> op.own]
         /\ op.call = "reset" => op.rep \in 0 .. Count /\ op = [call |-> "reset", rep |-> op.rep]
         /\ op.call \in {"idle", "conf", "spl1", "configure", "reset"}
BY DEF TypeOK

LEMMA ConfTouches ==
  ASSUME TypeOK, ConfStep
  PROVE  \/ UNCHANGED <<chip, object>>
         \/ \E bit \in Ports, on \in BOOLEAN :
              /\ Touch(op.rep, bit, on)
              /\ bit = "touten" =>
                   op.step = 1 /\ (~on => op.mode \in {"FORWARD", "SPL1OUT"}
                                         \/ (op.mode = "TESTIN" /\ ~op.on))
<1>1. op.rep \in Reps /\ op.mode \in Modes /\ op.dir \in Directions /\ op.on \in BOOLEAN
      /\ op.step \in 1 .. 4
  BY OpInProgress DEF ConfStep
<1>2. CASE op.step = 1
  <2>1. TestOut
    BY <1>2 DEF ConfStep
  <2>2. CASE op.mode = "TESTOUT"
    BY <2>1, <2>2 DEF TestOut, Nothing
  <2>3. CASE op.mode = "TESTIN"
    BY <1>1, <1>2, <2>1, <2>3 DEF TestOut, tout, Touch, Ports
  <2>4. CASE op.mode \in {"FORWARD", "SPL1OUT"}
    BY <1>1, <1>2, <2>1, <2>4 DEF TestOut, tout, Touch, Ports
  <2> QED BY <1>1, <2>2, <2>3, <2>4 DEF Modes
<1>3. CASE op.step = 2
  <2>1. TestIn
    BY <1>3 DEF ConfStep
  <2> QED BY <1>1, <2>1 DEF TestIn, tin, Nothing, Touch, Ports, Modes
<1>4. CASE op.step = 3
  <2>1. FirstDriver
    BY <1>4 DEF ConfStep
  <2> QED BY <1>1, <2>1 DEF FirstDriver, enable, set_dir, Touch, Ports
<1>5. CASE op.step = 4
  <2>1. SecondDriver
    BY <1>5 DEF ConfStep
  <2> QED BY <1>1, <2>1 DEF SecondDriver, enable, set_dir, Touch, Ports
<1> QED BY <1>1, <1>2, <1>3, <1>4, <1>5

LEMMA SwitchTouches ==
  ASSUME TypeOK, NEW r \in Reps, NEW on \in BOOLEAN, SwitchBit(r, on)
  PROVE  \/ UNCHANGED <<chip, object>>
         \/ \E bit \in Ports : Touch(r, bit, on) /\ (bit = "touten" /\ ~on => MayFree(r))
<1>1. CASE "tout" \in usage /\ (~on => MayFree(r)) /\ tout(r, on)
  BY <1>1 DEF tout, Touch, Ports
<1>2. CASE "bits" \in usage /\ (tin(r, on) \/ enable(r, on) \/ set_dir(r, on))
  BY <1>2 DEF tin, enable, set_dir, Touch, Ports
<1> QED BY <1>1, <1>2 DEF SwitchBit
-----------------------------------------------------------------------------
\* The object's copy.

LEMMA CopyInit == ASSUME Init PROVE CopyInv
<1> USE RepeaterAssumption
<1>1. TypeOK
  <2>1. owed \in 0 .. MaxOwed
    BY DEF Init
  <2> QED BY <2>1 DEF Init, TypeOK, Reps, Free, ConfigBits, Idle, Ports
<1>2. CopyIsCurrent
  BY DEF Init, CopyIsCurrent
<1> QED BY <1>1, <1>2 DEF Init, Idle, CopyInv, Progress

\* The registers of the block stay what they are and in range.
Registers == <<rc_config, td, startconf>>

LEMMA TouchCopy ==
  ASSUME TypeOK, NEW r \in Reps, NEW bit \in Ports, NEW on \in BOOLEAN, Touch(r, bit, on),
         \A s : repaddr(s)' = repaddr(s)
  PROVE  /\ sram' \in [Reps -> SUBSET Ports] /\ config' \in [Reps -> SUBSET Ports]
         /\ outputflag' \in [0 .. 1 -> Reps \cup {Free}] /\ UNCHANGED Registers
         /\ Sram(r)' = config'[r]
         /\ \A s \in Reps : s # r => Sram(s)' = Sram(s) /\ config'[s] = config[s]
<1>1. Write(r, bit, on)
  BY DEF Touch
<1>2. outputflag' \in [0 .. 1 -> Reps \cup {Free}]
  BY DEF Touch, TypeOK
<1> QED BY <1>1, <1>2, OneWrite DEF Registers

LEMMA CopyStep == ASSUME CopyInv, [Next]_vars PROVE CopyInv'
<1> USE RepeaterAssumption
<1>0. TypeOK /\ CopyIsCurrent /\ Progress
  BY DEF CopyInv
<1>a. /\ loc' = loc /\ usage' = usage
      /\ \A r : repaddr(r)' = repaddr(r)
  BY SameAddress
<1>b. loc' \in Locations /\ usage' \in Usages /\ owed' \in 0 .. MaxOwed
  BY <1>0, <1>a, OwedRange DEF TypeOK
<1>c. ASSUME UNCHANGED <<chip, object>> PROVE \A r \in Reps : Sram(r)' = Sram(r)
  BY <1>a, <1>c DEF chip, Sram
<1>1. ASSUME ConfStep PROVE CopyInv'
  <2>1. op.call \in {"conf", "spl1"} /\ UNCHANGED history
    BY <1>1 DEF ConfStep
  <2>2. op' \in [call : {"idle"}] \cup [call : {"conf", "spl1"}, rep : Reps, mode : Modes,
                  dir : Directions, on : BOOLEAN, step : 1 .. 4]
        /\ op'.call \notin {"configure", "reset"}
    BY <1>0, <1>1, <2>1, OpInProgress DEF ConfStep, Idle
  <2>3. CASE UNCHANGED <<chip, object>>
    BY <1>0, <1>b, <1>c, <2>1, <2>2, <2>3
    DEF CopyInv, TypeOK, CopyIsCurrent, Progress, chip, object, history
  <2>4. CASE \E bit \in Ports, on \in BOOLEAN : Touch(op.rep, bit, on)
    <3>2. PICK r \in Reps : r = op.rep
      BY <1>0, <2>1, OpInProgress
    <3>1. PICK bit \in Ports, on \in BOOLEAN : Touch(r, bit, on)
      BY <2>4, <3>2
    <3>3. /\ sram' \in [Reps -> SUBSET Ports] /\ config' \in [Reps -> SUBSET Ports]
          /\ outputflag' \in [0 .. 1 -> Reps \cup {Free}] /\ UNCHANGED Registers
          /\ Sram(r)' = config'[r]
          /\ \A s \in Reps : s # r => Sram(s)' = Sram(s) /\ config'[s] = config[s]
      BY <1>0, <1>a, <3>1, TouchCopy
    <3> QED BY <1>0, <1>b, <2>1, <2>2, <3>3
         DEF CopyInv, TypeOK, CopyIsCurrent, Progress, history, Registers
  <2> QED BY <1>0, <1>1, <2>3, <2>4, ConfTouches
<1>2. ASSUME NEW r \in Reps, NEW on \in BOOLEAN, SwitchBit(r, on) PROVE CopyInv'
  <2>1. op = Idle \/ op.call = "idle"
    BY <1>2 DEF SwitchBit, Ready
  <2>2. UNCHANGED <<op, history>>
    BY <1>2 DEF SwitchBit
  <2>3. CASE UNCHANGED <<chip, object>>
    BY <1>0, <1>b, <1>c, <2>1, <2>2, <2>3
    DEF CopyInv, TypeOK, CopyIsCurrent, Progress, chip, object, history, Idle
  <2>4. CASE \E bit \in Ports : Touch(r, bit, on)
    <3>1. PICK bit \in Ports : Touch(r, bit, on)
      BY <2>4
    <3>3. /\ sram' \in [Reps -> SUBSET Ports] /\ config' \in [Reps -> SUBSET Ports]
          /\ outputflag' \in [0 .. 1 -> Reps \cup {Free}] /\ UNCHANGED Registers
          /\ Sram(r)' = config'[r]
          /\ \A s \in Reps : s # r => Sram(s)' = Sram(s) /\ config'[s] = config[s]
      BY <1>0, <1>a, <3>1, TouchCopy
    <3> QED BY <1>0, <1>b, <2>1, <2>2, <3>3
         DEF CopyInv, TypeOK, CopyIsCurrent, Progress, history, Registers, Idle
  <2> QED BY <1>0, <1>2, <2>3, <2>4, SwitchTouches
<1>3. ASSUME ConfigureStep PROVE CopyInv'
  <2>1. /\ op.rep \in Reps /\ op.own \in BOOLEAN
        /\ op = [call |-> "configure", rep |-> op.rep, own |-> op.own]
        /\ UNCHANGED <<chip, startconf, known, wanted>>
    BY <1>0, <1>3, OpInProgress DEF ConfigureStep
  <2>2. \A r \in Reps : Sram(r)' = Sram(r)
    BY <1>c, <1>a, <2>1 DEF chip, Sram
  <2>3. PICK own \in BOOLEAN, bits \in SUBSET Ports :
           /\ own => bits = Sram(op.rep)
           /\ config' = [config EXCEPT ![op.rep] = bits]
           /\ outputflag' = Noted(op.rep, bits)
           /\ IF op.rep = Count - 1 THEN op' = Idle /\ configured' = (op.own /\ own)
              ELSE /\ op' = [call |-> "configure", rep |-> op.rep + 1, own |-> op.own /\ own]
                   /\ configured' = (configured /\ own)
    BY <1>0, <1>3, ConfigureReads
  <2>4. config' \in [Reps -> SUBSET Ports] /\ outputflag' \in [0 .. 1 -> Reps \cup {Free}]
    <3>1. config' \in [Reps -> SUBSET Ports]
      BY <1>0, <2>1, <2>3 DEF TypeOK
    <3>2. outputflag' = Noted(op.rep, bits) /\ outputflag \in [0 .. 1 -> Reps \cup {Free}]
      BY <1>0, <2>3 DEF TypeOK
    <3> QED BY <2>1, <3>1, <3>2 DEF Noted
  <2>7. /\ \A r \in Reps : r # op.rep => config'[r] = config[r]
        /\ own => config'[op.rep] = Sram(op.rep)
    BY <1>0, <2>1, <2>3 DEF TypeOK
  <2>5. CASE op.rep = Count - 1
    <3>1. op' = Idle /\ configured' = (op.own /\ own)
      BY <2>3, <2>5
    <3>2. op.own /\ own => \A r \in Reps : config'[r] = Sram(r)'
      BY <1>0, <2>1, <2>2, <2>5, <2>7 DEF Progress, Reps
    <3> QED BY <1>0, <1>b, <2>1, <2>4, <3>1, <3>2
         DEF Idle, CopyInv, TypeOK, CopyIsCurrent, Progress, chip
  <2>6. CASE op.rep # Count - 1
    <3>1. /\ op' = [call |-> "configure", rep |-> op.rep + 1, own |-> op.own /\ own]
          /\ op.rep + 1 \in Reps /\ configured' = (configured /\ own)
      BY <2>1, <2>3, <2>6 DEF Reps
    <3>2. Progress'
      BY <1>0, <2>1, <2>2, <2>7, <3>1 DEF Progress, Reps
    <3>3. configured' => \A r \in Reps : config'[r] = Sram(r)'
      BY <1>0, <2>1, <2>2, <2>7, <3>1 DEF CopyIsCurrent, TypeOK
    <3> QED BY <1>0, <1>b, <2>1, <2>4, <3>1, <3>2, <3>3
         DEF CopyInv, TypeOK, CopyIsCurrent, chip
  <2> QED BY <2>5, <2>6
<1>3a. ASSUME ConfigureThrows PROVE CopyInv'
  BY <1>0, <1>b, <1>c, <1>3a
  DEF ConfigureThrows, Idle, CopyInv, TypeOK, CopyIsCurrent, Progress, chip, object, history
<1>4. ASSUME ResetStep PROVE CopyInv'
  <2>1. op.rep \in 0 .. Count /\ op = [call |-> "reset", rep |-> op.rep]
        /\ UNCHANGED <<td, wanted>>
    BY <1>0, <1>4, OpInProgress DEF ResetStep
  <2>2. CASE op.rep < Count
    <3>1. PICK r \in Reps : r = op.rep
      BY <2>1, <2>2 DEF Reps
    <3>2. /\ sram' = [sram EXCEPT ![repaddr(r)] = {}]
          /\ config' = [config EXCEPT ![r] = {}]
          /\ op' = [call |-> "reset", rep |-> r + 1]
          /\ UNCHANGED <<rc_config, startconf, outputflag, configured, known>>
      BY <1>4, <2>1, <2>2, <3>1 DEF ResetStep
    <3>3. sram' \in [Reps -> SUBSET Ports] /\ config' \in [Reps -> SUBSET Ports]
      BY <1>0, <3>2 DEF TypeOK
    <3>4. /\ Sram(r)' = {} /\ config'[r] = {}
          /\ \A s \in Reps : s # r => Sram(s)' = Sram(s) /\ config'[s] = config[s]
      BY <1>0, <1>a, <3>1, <3>2, Addresses DEF Sram, TypeOK
    <3>5. r + 1 \in 0 .. Count
      BY <3>1 DEF Reps
    <3> QED BY <1>0, <1>b, <2>1, <3>1, <3>2, <3>3, <3>4, <3>5
         DEF CopyInv, TypeOK, CopyIsCurrent, Progress, Reps
  <2>3. CASE ~(op.rep < Count)
    <3>1. op.rep = Count
      BY <2>1, <2>3
    <3>2. \A r \in Reps : config[r] = {} /\ Sram(r) = {}
      BY <1>0, <2>1, <3>1 DEF Progress, Reps
    <3>3. /\ startconf' = {"drvresetb"} /\ rc_config' = startconf'
          /\ outputflag' = [p \in 0 .. 1 |-> Free]
          /\ op' = Idle /\ configured' = TRUE /\ known' = TRUE
          /\ UNCHANGED <<sram, config>>
      BY <1>4, <2>3 DEF ResetStep
    <3>4. \A r \in Reps : Sram(r)' = Sram(r)
      BY <1>a, <3>3 DEF Sram
    <3> QED BY <1>0, <1>b, <2>1, <3>2, <3>3, <3>4
         DEF CopyInv, TypeOK, CopyIsCurrent, Progress, Idle, ConfigBits
  <2> QED BY <2>2, <2>3
<1>5. ASSUME NEW r \in Reps, NEW mode \in Modes, NEW dir \in Directions, NEW on \in BOOLEAN,
             conf_repeater(r, mode, dir, on) \/ conf_spl1_repeater(r, mode, dir, on)
      PROVE  CopyInv'
  <2>1. PICK call \in {"conf", "spl1"} : Conf(call, r, mode, dir, on)
    BY <1>5 DEF conf_repeater, conf_spl1_repeater
  <2>2. op' = [call |-> call, rep |-> r, mode |-> mode, dir |-> dir, on |-> on, step |-> 1]
        /\ UNCHANGED <<chip, object, history>>
    BY <2>1 DEF Conf
  <2> QED BY <1>0, <1>b, <1>c, <2>1, <2>2
       DEF CopyInv, TypeOK, CopyIsCurrent, Progress, chip, object, history
<1>6. ASSUME configure \/ reset PROVE CopyInv'
  <2>1. PICK call \in {"configure", "reset"} :
          /\ op' = IF call = "configure" THEN [call |-> call, rep |-> 0, own |-> TRUE]
                   ELSE [call |-> call, rep |-> 0]
          /\ UNCHANGED <<chip, object, history>>
    BY <1>6 DEF configure, reset
  <2>2. 0 \in Reps
    BY DEF Reps
  <2> QED BY <1>0, <1>b, <1>c, <2>1, <2>2
       DEF CopyInv, TypeOK, CopyIsCurrent, Progress, chip, object, history, Reps
<1>7. ASSUME Restart PROVE CopyInv'
  BY <1>0, <1>b, <1>7
  DEF Restart, Idle, CopyInv, TypeOK, CopyIsCurrent, Progress, chip, Free, Reps
<1>8. ASSUME NEW bits \in SUBSET ConfigBits, Start(bits), known' \in BOOLEAN PROVE CopyInv'
  <2>1. /\ rc_config' = bits /\ startconf' = bits /\ op.call = "idle"
        /\ UNCHANGED <<sram, td, config, outputflag, op, configured, wanted>>
    BY <1>8 DEF Start, Ready
  <2>2. \A r \in Reps : Sram(r)' = Sram(r)
    BY <1>a, <2>1 DEF Sram
  <2> QED BY <1>0, <1>b, <1>8, <2>1, <2>2 DEF CopyInv, TypeOK, CopyIsCurrent, Progress
<1>9. ASSUME NEW bit \in StartBits, NEW on \in BOOLEAN, StartStop(bit, on) PROVE CopyInv'
  <2>1. Switched(startconf, bit, on) \in SUBSET ConfigBits
    BY <1>0 DEF Switched, ConfigBits, TypeOK
  <2>2. Start(Switched(startconf, bit, on)) /\ known' \in BOOLEAN
    BY <1>0, <1>9 DEF StartStop, TypeOK
  <2> QED BY <1>8, <2>1, <2>2
<1>10. ASSUME reset_dll PROVE CopyInv'
  BY <1>8, <1>10 DEF reset_dll, ConfigBits
<1>11. ASSUME NEW c \in Channels, NEW d \in Data, tdata_write(c, d) PROVE CopyInv'
  <2>1. /\ td' = [td EXCEPT ![Channel(c)] = d] /\ wanted' = [wanted EXCEPT ![c] = d]
        /\ UNCHANGED <<sram, rc_config, object, op, configured, known>>
    BY <1>11 DEF tdata_write
  <2>2. \A r \in Reps : Sram(r)' = Sram(r)
    BY <1>a, <2>1 DEF Sram
  <2>3. td' \in [Channels -> Data] /\ wanted' \in [Channels -> Data \cup {Unwritten}]
    BY <1>0, <2>1 DEF TypeOK
  <2> QED BY <1>0, <1>b, <2>1, <2>2, <2>3
       DEF CopyInv, TypeOK, CopyIsCurrent, Progress, object
<1>12. ASSUME UNCHANGED vars PROVE CopyInv'
  BY <1>0, <1>a, <1>12
  DEF vars, chip, object, history, CopyInv, TypeOK, CopyIsCurrent, Progress, Sram
<1>13. \A c \in Channels : In(c) \in StartBits /\ Out(c) \in StartBits
  BY DEF In, Out, StartBits
<1> QED BY <1>1, <1>2, <1>3, <1>3a, <1>4, <1>5, <1>6, <1>7, <1>9, <1>10, <1>11, <1>12, <1>13
     DEF Next

\* Positions, bits and flags stay in range, whatever is called and restarted.
THEOREM TypeCorrect == Spec => []TypeOK
<1>1. CopyInv => TypeOK
  BY DEF CopyInv
<1> QED BY CopyInit, CopyStep, <1>1, PTL DEF Spec

\* Once reset has run, or a configure whose reads all got their own answers, later
\* writes are based on what the chip has, for every number of repeaters, in every
\* block and whatever earlier reads that failed have left (CopyIsCurrent).
THEOREM CopyIsCurrentHolds == Spec => []CopyIsCurrent
<1>1. CopyInv => CopyIsCurrent
  BY DEF CopyInv
<1> QED BY CopyInit, CopyStep, <1>1, PTL DEF Spec
-----------------------------------------------------------------------------
\* The test outputs and the drivers, where an output is switched off by the
\* repeater that has it.

\* Every flag names the user of its output; then no output has two.
Truth == \A r \in Reps : "touten" \in Sram(r) => outputflag[r % 2] = r

LEMMA TruthExcludes == ASSUME Truth PROVE TestOutputExclusive
BY DEF Truth, TestOutputExclusive

LEMMA TouchTruth ==
  ASSUME TypeOK, Truth, \A s \in Reps : config[s] = Sram(s),
         NEW r \in Reps, NEW bit \in Ports, NEW on \in BOOLEAN, Touch(r, bit, on),
         bit = "touten" /\ ~on => Available(r),
         \A s : repaddr(s)' = repaddr(s)
  PROVE  Truth'
<1>1. /\ Sram(r)' = Switched(config[r], bit, on)
      /\ \A s \in Reps : s # r => Sram(s)' = Sram(s)
  BY OneWrite DEF Touch
<1>2. CASE bit # "touten"
  <2>1. outputflag' = outputflag
    BY <1>2 DEF Touch
  <2>2. "touten" \in Sram(r)' => "touten" \in Sram(r)
    BY <1>1, <1>2 DEF Switched
  <2> QED BY <1>1, <2>1, <2>2 DEF Truth
<1>3. CASE bit = "touten"
  <2>1. outputflag[r % 2] \in {Free, r}
    BY <1>3 DEF Touch, Available
  <2>2. outputflag' = [outputflag EXCEPT ![r % 2] = IF on THEN r ELSE Free]
    BY <1>3 DEF Touch
  <2>3. \A s \in Reps : s % 2 \in 0 .. 1 /\ s # Free
    BY RepeaterAssumption DEF Reps, Free
  <2>4. \A s \in Reps : s # r /\ "touten" \in Sram(s) => s % 2 # r % 2
    BY <2>1, <2>3 DEF Truth
  <2>5. outputflag \in [0 .. 1 -> Reps \cup {Free}]
    BY DEF TypeOK
  <2>6. ~on => "touten" \notin Sram(r)'
    BY <1>1, <1>3 DEF Switched
  <2>7. \A s \in Reps : s % 2 # r % 2 => outputflag'[s % 2] = outputflag[s % 2]
    BY <2>2, <2>3, <2>5
  <2>8. on => outputflag'[r % 2] = r
    BY <2>2, <2>3, <2>5
  <2> QED BY <1>1, <2>4, <2>6, <2>7, <2>8 DEF Truth
<1> QED BY <1>2, <1>3

\* What conf_repeater does to the drivers of its repeater.
LEMMA ConfDrivers ==
  ASSUME TypeOK, CallsAllowed, CopyIsCurrent, OtherOff, ConfStep, op.call = "conf",
         NEW r \in Reps, r = op.rep,
         \A s : repaddr(s)' = repaddr(s)
  PROVE  /\ \A s \in Reps : s # r => Sram(s)' = Sram(s)
         /\ {"recen", "dir"} \subseteq Sram(r)' => {"recen", "dir"} \subseteq Sram(r)
         /\ OtherOff'
<1> DEFINE other == IF op.dir = "OUTWARDS" THEN "dir" ELSE "recen"
<1>0. /\ op.mode \in Modes /\ op.dir \in Directions /\ op.on \in BOOLEAN /\ op.step \in 1 .. 4
      /\ config[r] = Sram(r)
      /\ op \in [call : {"conf", "spl1"}, rep : Reps, mode : Modes, dir : Directions,
                 on : BOOLEAN, step : 1 .. 4]
  BY OpInProgress DEF CallsAllowed, CopyIsCurrent
<1>1. ASSUME NEW bit \in Ports, NEW on \in BOOLEAN, Write(r, bit, on)
      PROVE  /\ \A s \in Reps : s # r => Sram(s)' = Sram(s)
             /\ Sram(r)' = Switched(Sram(r), bit, on)
  BY <1>0, <1>1, OneWrite
<1>2. UNCHANGED <<chip, object>> => \A s \in Reps : Sram(s)' = Sram(s)
  BY DEF chip, Sram
<1>3. CASE op.step \in {1, 2}
  <2>1. op'.call = "conf" => op'.step # 4
    BY <1>0, <1>3 DEF ConfStep, Idle
  <2>2. \/ UNCHANGED <<chip, object>>
        \/ \E bit \in {"touten", "tinen"}, on \in BOOLEAN : Write(r, bit, on)
    <3>1. CASE op.step = 1
      <4>1. TestOut
        BY <3>1 DEF ConfStep
      <4>2. ASSUME NEW on \in BOOLEAN, tout(r, on)
            PROVE  UNCHANGED <<chip, object>> \/ Write(r, "touten", on)
        BY <4>2 DEF tout
      <4> QED BY <1>0, <4>1, <4>2 DEF TestOut, Nothing, Modes
    <3>2. CASE op.step = 2
      <4>1. TestIn
        BY <3>2 DEF ConfStep
      <4> QED BY <1>0, <4>1 DEF TestIn, tin, Nothing, Modes
    <3> QED BY <1>3, <3>1, <3>2
  <2>3. /\ \A s \in Reps : s # r => Sram(s)' = Sram(s)
        /\ \A b \in {"recen", "dir"} : b \in Sram(r)' <=> b \in Sram(r)
    <3>1. CASE UNCHANGED <<chip, object>>
      BY <1>2, <3>1
    <3>2. CASE \E bit \in {"touten", "tinen"}, on \in BOOLEAN : Write(r, bit, on)
      BY <1>1, <3>2 DEF Switched, Ports
    <3> QED BY <2>2, <3>1, <3>2
  <2>4. OtherOff'
    BY <2>1 DEF OtherOff
  <2>5. {"recen", "dir"} \subseteq Sram(r)' => {"recen", "dir"} \subseteq Sram(r)
    BY <2>3
  <2> QED BY <2>3, <2>4, <2>5
<1>4. CASE op.step = 3
  <2>1. Write(r, other, FALSE) /\ other \in Ports
    <3>1. FirstDriver
      BY <1>4 DEF ConfStep
    <3> QED BY <3>1 DEF FirstDriver, enable, set_dir, Ports
  <2>2. /\ \A s \in Reps : s # r => Sram(s)' = Sram(s)
        /\ Sram(r)' = Sram(r) \ {other}
    BY <1>1, <2>1 DEF Switched
  <2>3. op' = [op EXCEPT !.step = op.step + 1]
    BY <1>4 DEF ConfStep
  <2>4. op'.dir = op.dir /\ op'.rep = r
    BY <1>0, <2>3
  <2> QED BY <2>2, <2>4 DEF OtherOff
<1>5. CASE op.step = 4
  <2>1. PICK on \in BOOLEAN :
          Write(r, IF op.dir = "OUTWARDS" THEN "recen" ELSE "dir", on)
    <3>1. SecondDriver
      BY <1>5 DEF ConfStep
    <3> QED BY <1>0, <3>1 DEF SecondDriver, enable, set_dir
  <2>2. other \notin Sram(r)
    BY <1>5 DEF OtherOff
  <2>3. /\ \A s \in Reps : s # r => Sram(s)' = Sram(s)
        /\ other \notin Sram(r)'
    BY <1>1, <2>1, <2>2 DEF Switched, Ports
  <2>4. op' = Idle
    BY <1>5 DEF ConfStep
  <2> QED BY <2>3, <2>4 DEF OtherOff, Idle
<1> QED BY <1>0, <1>3, <1>4, <1>5
LEMMA FullInit == ASSUME Init PROVE FullInv
<1>1. CopyInv
  BY CopyInit
<1>2. \A r \in Reps : Sram(r) = {}
  BY Addresses DEF Init, Sram
<1> QED BY <1>1, <1>2
     DEF Init, Idle, FullInv, CallsAllowed, FlagsTrue, TestOutputExclusive, OtherOff, DriversExclusive

\* Steps that leave the test outputs and the drivers alone.
LEMMA FullKept ==
  ASSUME FullInv, \A r \in Reps : Sram(r)' = Sram(r), outputflag' = outputflag,
         usage' = usage, configured' \in BOOLEAN, configured' => configured,
         op'.call \notin {"conf", "spl1"},
         op'.call = "configure" => \A r \in Reps : ~(r < op'.rep)
  PROVE  CallsAllowed' /\ FlagsTrue' /\ TestOutputExclusive' /\ OtherOff' /\ DriversExclusive'
BY DEF FullInv, CallsAllowed, FlagsTrue, TestOutputExclusive, OtherOff, DriversExclusive

LEMMA FullStep == ASSUME Orderly, FullInv, [Next]_vars PROVE FullInv'
<1> USE RepeaterAssumption
<1>0. /\ TypeOK /\ CopyIsCurrent /\ Progress /\ CallsAllowed /\ FlagsTrue /\ TestOutputExclusive
      /\ OtherOff /\ DriversExclusive
  BY DEF FullInv, CopyInv
<1>a. /\ loc' = loc /\ usage' = usage
      /\ \A r : repaddr(r)' = repaddr(r)
  BY SameAddress
<1>b. CopyInv'
  BY CopyStep DEF FullInv
<1>c. sram' = sram => \A r \in Reps : Sram(r)' = Sram(r)
  BY <1>a DEF Sram
<1>d. configured => Truth
  BY <1>0 DEF FlagsTrue, Truth
<1>e. configured' \in BOOLEAN
  BY <1>b DEF CopyInv, TypeOK
<1>1. ASSUME ConfStep PROVE FullInv'
  <2>1. op.call \in {"conf", "spl1"} /\ op.call \in usage /\ configured /\ configured' = configured
    BY <1>0, <1>1 DEF ConfStep, history, CallsAllowed
  <2>2. PICK r \in Reps : r = op.rep
    BY <1>0, <2>1, OpInProgress
  <2>3. op'.call \in {"idle", op.call} /\ op'.call # "configure" /\ (op'.call = op.call => op'.step # 1)
    BY <1>0, <1>1, <2>1, OpInProgress DEF ConfStep, Idle
  <2>4. Truth'
    <3>1. CASE UNCHANGED <<chip, object>>
      BY <1>c, <1>d, <2>1, <3>1 DEF Truth, chip, object
    <3>2. CASE \E bit \in Ports, on \in BOOLEAN :
                 /\ Touch(op.rep, bit, on)
                 /\ bit = "touten" =>
                      op.step = 1 /\ (~on => op.mode \in {"FORWARD", "SPL1OUT"}
                                            \/ (op.mode = "TESTIN" /\ ~op.on))
      <4>1. PICK bit \in Ports, on \in BOOLEAN :
                 /\ Touch(r, bit, on)
                 /\ bit = "touten" =>
                      op.step = 1 /\ (~on => op.mode \in {"FORWARD", "SPL1OUT"}
                                            \/ (op.mode = "TESTIN" /\ ~op.on))
        BY <2>2, <3>2
      <4>2. bit = "touten" /\ ~on => Available(r)
        BY <1>0, <2>1, <2>2, <4>1 DEF CallsAllowed
      <4> QED BY <1>0, <1>a, <1>d, <2>1, <4>1, <4>2, TouchTruth DEF CopyIsCurrent
    <3> QED BY <1>0, <1>1, <3>1, <3>2, ConfTouches
  <2>5. TestOutputExclusive' /\ FlagsTrue'
    BY <2>4 DEF Truth, TestOutputExclusive, FlagsTrue
  <2>6. CallsAllowed'
    BY <1>a, <2>1, <2>3 DEF CallsAllowed
  <2>7. CASE op.call = "conf"
    <3>1. /\ \A s \in Reps : s # r => Sram(s)' = Sram(s)
          /\ {"recen", "dir"} \subseteq Sram(r)' => {"recen", "dir"} \subseteq Sram(r)
          /\ OtherOff'
      BY <1>0, <1>1, <1>a, <2>2, <2>7, ConfDrivers
    <3>2. DriversExclusive'
      BY <1>0, <1>a, <3>1 DEF DriversExclusive
    <3> QED BY <1>b, <2>5, <2>6, <3>1, <3>2 DEF FullInv
  <2>8. CASE op.call = "spl1"
    <3>1. OtherOff' /\ DriversExclusive'
      BY <1>a, <2>1, <2>3, <2>8 DEF OtherOff, DriversExclusive
    <3> QED BY <1>b, <2>5, <2>6, <3>1 DEF FullInv
  <2> QED BY <2>1, <2>7, <2>8
<1>2. ASSUME NEW r \in Reps, NEW on \in BOOLEAN, SwitchBit(r, on) PROVE FullInv'
  <2>1. op.call = "idle" /\ configured /\ UNCHANGED <<op, configured>>
    BY <1>2 DEF SwitchBit, Ready, history
  <2>2. Truth'
    <3>1. CASE UNCHANGED <<chip, object>>
      BY <1>c, <1>d, <2>1, <3>1 DEF Truth, chip, object
    <3>2. CASE \E bit \in Ports : Touch(r, bit, on) /\ (bit = "touten" /\ ~on => MayFree(r))
      BY <1>0, <1>a, <1>d, <2>1, <3>2, TouchTruth DEF CopyIsCurrent, MayFree
    <3> QED BY <1>0, <1>2, <3>1, <3>2, SwitchTouches
  <2>3. TestOutputExclusive' /\ FlagsTrue'
    BY <2>2 DEF Truth, TestOutputExclusive, FlagsTrue
  <2>4. DriversExclusive'
    <3>1. CASE "bits" \in usage
      BY <1>a, <3>1 DEF DriversExclusive
    <3>2. CASE "bits" \notin usage
      <4>1. tout(r, on)
        BY <1>2, <3>2 DEF SwitchBit
      <4>2. CASE UNCHANGED <<chip, object>>
        BY <1>0, <1>a, <1>c, <4>2 DEF DriversExclusive, chip
      <4>3. CASE Write(r, "touten", on)
        <5>1. /\ Sram(r)' = Switched(Sram(r), "touten", on)
              /\ \A s \in Reps : s # r => Sram(s)' = Sram(s)
          BY <1>0, <1>a, <2>1, <4>3, OneWrite DEF CopyIsCurrent, Ports
        <5> QED BY <1>0, <1>a, <5>1 DEF DriversExclusive, Switched
      <4> QED BY <4>1, <4>2, <4>3 DEF tout
    <3> QED BY <3>1, <3>2
  <2> QED BY <1>a, <1>b, <2>1, <2>3, <2>4 DEF FullInv, CallsAllowed, OtherOff
<1>3. ASSUME ConfigureStep PROVE FullInv'
  <2>1. PICK r \in Reps : r = op.rep
    BY <1>0, <1>3, OpInProgress DEF ConfigureStep
  <2>2. /\ op = [call |-> "configure", rep |-> r, own |-> op.own] /\ op.own \in BOOLEAN
        /\ sram' = sram
    BY <1>0, <1>3, <2>1, OpInProgress DEF ConfigureStep, chip
  <2>3. PICK own \in BOOLEAN, bits \in SUBSET Ports :
           /\ own => bits = Sram(r)
           /\ outputflag' = Noted(r, bits)
           /\ IF r = Count - 1 THEN op' = Idle /\ configured' = (op.own /\ own)
              ELSE /\ op' = [call |-> "configure", rep |-> op.rep + 1, own |-> op.own /\ own]
                   /\ configured' = (configured /\ own)
    BY <1>0, <1>3, <2>1, ConfigureReads
  <2>4. outputflag \in [0 .. 1 -> Reps \cup {Free}] /\ \A s \in Reps : s % 2 \in 0 .. 1
    BY <1>0 DEF TypeOK, Reps
  <2>5. \/ op' = Idle /\ configured' = (op.own /\ own) /\ r = Count - 1
        \/ /\ op' = [call |-> "configure", rep |-> r + 1, own |-> op.own /\ own]
           /\ configured' = (configured /\ own)
    BY <2>2, <2>3
  <2>6. ASSUME own
        PROVE  \A s \in Reps : "touten" \in Sram(s) /\ (configured \/ (op.own /\ s < r) \/ s = r)
                                => outputflag'[s % 2] = s
    <3>1. outputflag' = IF "touten" \in Sram(r) THEN [outputflag EXCEPT ![r % 2] = r] ELSE outputflag
      BY <2>3, <2>6 DEF Noted
    <3>2. "touten" \in Sram(r) => outputflag'[r % 2] = r
      BY <2>4, <3>1
    <3>3. ASSUME NEW s \in Reps, s # r, "touten" \in Sram(s) PROVE outputflag'[s % 2] = outputflag[s % 2]
      BY <1>0, <2>4, <3>1, <3>3 DEF TestOutputExclusive
    <3> QED BY <1>0, <2>2, <3>2, <3>3 DEF FlagsTrue
  <2>7. FlagsTrue'
    <3>1. CASE op' = Idle /\ configured' = (op.own /\ own) /\ r = Count - 1
      <4>1. \A s \in Reps : s < r \/ s = r
        BY <3>1 DEF Reps
      <4> QED BY <1>c, <2>2, <2>6, <3>1, <4>1 DEF FlagsTrue, Idle
    <3>2. CASE /\ op' = [call |-> "configure", rep |-> r + 1, own |-> op.own /\ own]
               /\ configured' = (configured /\ own)
      <4>1. \A s \in Reps : s < r + 1 => s < r \/ s = r
        BY DEF Reps
      <4>2. op'.call = "configure" /\ op'.rep = r + 1 /\ (op'.own => op.own /\ own)
            /\ (configured' => configured /\ own)
        BY <3>2
      <4> QED BY <1>c, <2>2, <2>6, <4>1, <4>2 DEF FlagsTrue
    <3> QED BY <2>5, <3>1, <3>2
  <2>8. op'.call \notin {"conf", "spl1"}
    BY <2>5 DEF Idle
  <2> QED BY <1>0, <1>a, <1>b, <1>c, <2>2, <2>7, <2>8
       DEF FullInv, CallsAllowed, TestOutputExclusive, OtherOff, DriversExclusive
<1>3a. ASSUME ConfigureThrows PROVE FullInv'
  <2>1. op' = Idle /\ UNCHANGED <<sram, outputflag, configured>>
    BY <1>3a DEF ConfigureThrows, chip, object, history
  <2>2. op'.call = "idle"
    BY <2>1 DEF Idle
  <2> QED BY <1>a, <1>b, <1>c, <1>e, <2>1, <2>2, FullKept DEF FullInv
<1>4. ASSUME ResetStep PROVE FullInv'
  <2>1. op.rep \in 0 .. Count /\ op = [call |-> "reset", rep |-> op.rep]
    BY <1>0, <1>4, OpInProgress DEF ResetStep
  <2>2. CASE op.rep < Count
    <3>1. PICK r \in Reps : r = op.rep
      BY <2>1, <2>2 DEF Reps
    <3>2. /\ sram' = [sram EXCEPT ![repaddr(r)] = {}]
          /\ op' = [call |-> "reset", rep |-> r + 1]
          /\ UNCHANGED <<outputflag, configured>>
      BY <1>4, <2>1, <2>2, <3>1 DEF ResetStep
    <3>3. \A s \in Reps : Sram(s)' = IF s = r THEN {} ELSE Sram(s)
      BY <1>0, <1>a, <3>2, Addresses DEF Sram, TypeOK
    <3> QED BY <1>0, <1>a, <1>b, <2>1, <3>2, <3>3
         DEF FullInv, CallsAllowed, FlagsTrue, TestOutputExclusive, OtherOff, DriversExclusive
  <2>3. CASE ~(op.rep < Count)
    <3>1. \A s \in Reps : Sram(s) = {}
      BY <1>0, <2>1, <2>3 DEF Progress, Reps
    <3>2. op' = Idle /\ sram' = sram
      BY <1>4, <2>3 DEF ResetStep
    <3>3. \A s \in Reps : Sram(s)' = {}
      BY <1>c, <3>1, <3>2
    <3> QED BY <1>b, <3>2, <3>3
         DEF FullInv, CallsAllowed, FlagsTrue, TestOutputExclusive, OtherOff, DriversExclusive, Idle
  <2> QED BY <2>2, <2>3
<1>5. ASSUME NEW r \in Reps, NEW mode \in Modes, NEW dir \in Directions, NEW on \in BOOLEAN,
             conf_repeater(r, mode, dir, on) \/ conf_spl1_repeater(r, mode, dir, on)
      PROVE  FullInv'
  <2>1. PICK call \in {"conf", "spl1"} : Conf(call, r, mode, dir, on)
    BY <1>5 DEF conf_repeater, conf_spl1_repeater
  <2>2. /\ op' = [call |-> call, rep |-> r, mode |-> mode, dir |-> dir, on |-> on, step |-> 1]
        /\ UNCHANGED <<sram, outputflag, configured>> /\ call \in usage /\ configured
    BY <2>1 DEF Conf, chip, object, history
  <2>3. mode \in {"FORWARD", "SPL1OUT"} \/ (mode = "TESTIN" /\ ~on) => Available(r)
    BY <2>1 DEF Conf, MayFree
  <2>4. CallsAllowed'
    <3>1. op'.call = call /\ op'.rep = r /\ op'.mode = mode /\ op'.on = on
      BY <2>2
    <3>2. Available(r) => Available(r)'
      BY <2>2 DEF Available
    <3>3. op'.mode \in {"FORWARD", "SPL1OUT"} \/ (op'.mode = "TESTIN" /\ ~op'.on) => Available(op.rep)'
      BY <2>2, <2>3, <3>1 DEF Available
    <3> QED BY <1>a, <2>2, <3>1, <3>3 DEF CallsAllowed
  <2>5. OtherOff'
    BY <2>2 DEF OtherOff
  <2> QED BY <1>0, <1>a, <1>b, <1>c, <2>2, <2>4, <2>5
       DEF FullInv, FlagsTrue, TestOutputExclusive, DriversExclusive
<1>6. ASSUME configure \/ reset PROVE FullInv'
  <2>1. PICK call \in {"configure", "reset"} :
          /\ op' = IF call = "configure" THEN [call |-> call, rep |-> 0, own |-> TRUE]
                   ELSE [call |-> call, rep |-> 0]
          /\ UNCHANGED <<sram, outputflag, configured>>
    BY <1>6 DEF configure, reset, chip, object, history
  <2>2. op'.call \notin {"conf", "spl1"} /\ op'.rep = 0
    BY <2>1
  <2> QED BY <1>a, <1>b, <1>c, <1>e, <2>1, <2>2, FullKept DEF FullInv, Reps
<1>7. ASSUME Restart PROVE FullInv'
  <2>1. op' = Idle /\ configured' = FALSE /\ sram' = sram
    BY <1>7 DEF Restart, chip
  <2> QED BY <1>0, <1>a, <1>b, <1>c, <2>1
       DEF FullInv, CallsAllowed, FlagsTrue, TestOutputExclusive, OtherOff, DriversExclusive, Idle
<1>8. ASSUME UNCHANGED <<sram, outputflag, op, configured>>, op.call = "idle" PROVE FullInv'
  BY <1>a, <1>b, <1>c, <1>e, <1>8, FullKept DEF FullInv
<1>9. ASSUME \/ reset_dll
             \/ \E bit \in StartBits, on \in BOOLEAN : StartStop(bit, on)
             \/ \E c \in Channels, d \in Data : tdata_write(c, d)
      PROVE  FullInv'
  BY <1>8, <1>9 DEF reset_dll, StartStop, Start, Ready, tdata_write, object
<1>10. ASSUME UNCHANGED vars PROVE FullInv'
  <2>1. UNCHANGED <<op, outputflag, configured, usage>> /\ \A r \in Reps : Sram(r)' = Sram(r)
    BY <1>c, <1>10 DEF vars, chip, object, history
  <2>2. CallsAllowed'
    BY <1>0, <2>1 DEF CallsAllowed, Available
  <2>3. FlagsTrue' /\ TestOutputExclusive' /\ DriversExclusive'
    BY <1>0, <2>1 DEF FlagsTrue, TestOutputExclusive, DriversExclusive
  <2>4. OtherOff'
    <3>1. SUFFICES ASSUME op.call = "conf", op.step = 4
          PROVE (IF op.dir = "OUTWARDS" THEN "dir" ELSE "recen") \notin Sram(op.rep)'
      BY <2>1 DEF OtherOff
    <3>2. PICK r \in Reps : r = op.rep
      BY <1>0, <3>1, OpInProgress
    <3> QED BY <1>0, <2>1, <3>1, <3>2 DEF OtherOff
  <2> QED BY <1>b, <2>2, <2>3, <2>4 DEF FullInv
<1>11. \A c \in Channels : In(c) \in StartBits /\ Out(c) \in StartBits
  BY DEF In, Out, StartBits
<1> QED BY <1>1, <1>2, <1>3, <1>3a, <1>4, <1>5, <1>6, <1>7, <1>9, <1>10, <1>11 DEF Next

\* Where repeaters are only switched after a reset or such a configure, and an
\* output only off by the repeater that has it, two repeaters never drive one test
\* output, across restarts and reads that fail (TestOutputExclusive).
THEOREM TestOutputExclusiveHolds == ASSUME Orderly PROVE Spec => []TestOutputExclusive
<1>1. FullInv => TestOutputExclusive
  BY DEF FullInv
<1>2. FullInv /\ [Next]_vars => FullInv'
  BY FullStep
<1> QED BY FullInit, <1>1, <1>2, PTL DEF Spec

\* A program that uses conf_repeater alone never has the drivers of both sides on,
\* wherever it is stopped (DriversExclusive).
THEOREM DriversExclusiveHolds == ASSUME Orderly PROVE Spec => []DriversExclusive
<1>1. FullInv => DriversExclusive
  BY DEF FullInv
<1>2. FullInv /\ [Next]_vars => FullInv'
  BY FullStep
<1> QED BY FullInit, <1>1, <1>2, PTL DEF Spec
-----------------------------------------------------------------------------
\* What the program wrote for a channel is in the register that the channel uses.
WrittenKept == \A c \in Channels : wanted[c] # Unwritten => td[Channel(c)] = wanted[c]

WrittenInv == TypeOK /\ WrittenKept

LEMMA ChannelFacts ==
  /\ \A c \in Channels : Channel(c) \in Channels
  /\ \A c, d \in Channels : Channel(c) = Channel(d) => c = d
  /\ \A c \in Channels : Channel(c) = IF In(c) = "tdi1" THEN 1 ELSE 0
BY DEF Channels, Channel, StartChannel, In

LEMMA WrittenInit == ASSUME Init PROVE WrittenInv
<1>1. TypeOK
  BY CopyInit DEF CopyInv
<1>2. \A c \in Channels : wanted[c] = Unwritten
  BY DEF Init
<1> QED BY <1>1, <1>2 DEF WrittenInv, WrittenKept

LEMMA WrittenStep == ASSUME WrittenInv, TypeOK', [Next]_vars PROVE WrittenInv'
<1>1. loc' = loc /\ \A c : Channel(c)' = Channel(c)
  BY SameAddress DEF Channel
<1>2. ASSUME UNCHANGED <<td, wanted>> PROVE WrittenInv'
  BY <1>1, <1>2 DEF WrittenInv, WrittenKept
<1>3. ASSUME NEW c \in Channels, NEW d \in Data, tdata_write(c, d) PROVE WrittenInv'
  <2>1. td' = [td EXCEPT ![Channel(c)] = d] /\ wanted' = [wanted EXCEPT ![c] = d]
    BY <1>3 DEF tdata_write
  <2>2. td \in [Channels -> Data] /\ wanted \in [Channels -> Data \cup {Unwritten}]
    BY DEF WrittenInv, TypeOK
  <2>3. ASSUME NEW b \in Channels, wanted'[b] # Unwritten PROVE td'[Channel(b)] = wanted'[b]
    <3>1. CASE b = c
      BY <2>1, <2>2, <3>1, ChannelFacts
    <3>2. CASE b # c
      BY <2>1, <2>2, <2>3, <3>2, ChannelFacts DEF WrittenInv, WrittenKept
    <3> QED BY <3>1, <3>2
  <2> QED BY <1>1, <2>3 DEF WrittenInv, WrittenKept
<1>4. ASSUME NEW r \in Reps, NEW bit, NEW on \in BOOLEAN, Write(r, bit, on) PROVE td' = td
  BY <1>4 DEF Write
<1>5. ASSUME NEW r \in Reps, NEW on \in BOOLEAN,
             tout(r, on) \/ tin(r, on) \/ enable(r, on) \/ set_dir(r, on) \/ Nothing
      PROVE  td' = td
  BY <1>4, <1>5 DEF tout, tin, enable, set_dir, Nothing, chip
<1>6. ASSUME ConfStep PROVE UNCHANGED <<td, wanted>>
  <2>1. op.call \in {"conf", "spl1"} /\ wanted' = wanted
    BY <1>6 DEF ConfStep, history
  <2>2. op.rep \in Reps /\ op.on \in BOOLEAN /\ FALSE \in BOOLEAN
        /\ op.step \in 1 .. 4 /\ op.mode \in Modes
    BY <2>1, OpInProgress DEF WrittenInv
  <2>3. CASE op.step = 1
    <3>1. TestOut
      BY <1>6, <2>3 DEF ConfStep
    <3> QED BY <1>5, <2>1, <2>2, <3>1 DEF TestOut, Modes
  <2>4. CASE op.step = 2
    <3>1. TestIn
      BY <1>6, <2>4 DEF ConfStep
    <3> QED BY <1>5, <2>1, <2>2, <3>1 DEF TestIn, Modes
  <2>5. CASE op.step = 3
    <3>1. FirstDriver
      BY <1>6, <2>5 DEF ConfStep
    <3> QED BY <1>5, <2>1, <2>2, <3>1 DEF FirstDriver
  <2>6. CASE op.step = 4
    <3>1. SecondDriver
      BY <1>6, <2>6 DEF ConfStep
    <3> QED BY <1>5, <2>1, <2>2, <3>1 DEF SecondDriver
  <2> QED BY <2>2, <2>3, <2>4, <2>5, <2>6
<1>7. ASSUME NEW r \in Reps, NEW on \in BOOLEAN, SwitchBit(r, on) PROVE UNCHANGED <<td, wanted>>
  BY <1>5, <1>7 DEF SwitchBit, history
<1>8. ASSUME \/ ConfigureStep \/ ConfigureThrows \/ ResetStep \/ configure \/ reset \/ Restart \/ reset_dll
             \/ UNCHANGED vars
             \/ \E r \in Reps, on \in BOOLEAN, mode \in Modes, dir \in Directions :
                  conf_repeater(r, mode, dir, on) \/ conf_spl1_repeater(r, mode, dir, on)
             \/ \E bit \in StartBits, on \in BOOLEAN : StartStop(bit, on)
      PROVE  UNCHANGED <<td, wanted>>
  BY <1>8 DEF ConfigureStep, ConfigureThrows, ResetStep, configure, reset, Restart, reset_dll, conf_repeater,
              conf_spl1_repeater, Conf, StartStop, Start, chip, history, vars
<1>9. \A c \in Channels : In(c) \in StartBits /\ Out(c) \in StartBits
  BY DEF In, Out, StartBits
<1> QED BY <1>2, <1>3, <1>6, <1>7, <1>8, <1>9 DEF Next

\* A channel that is started plays the data that was written for it, in the lower
\* repeaters too, where the chip swaps the channels, and across restarts of the
\* program (StartedHasItsData).
THEOREM StartedHasItsDataHolds == Spec => []StartedHasItsData
<1>1. WrittenInv => StartedHasItsData
  BY ChannelFacts DEF WrittenInv, WrittenKept, StartedHasItsData
<1>2. WrittenInv /\ TypeOK' /\ [Next]_vars => WrittenInv'
  BY WrittenStep
<1> QED BY WrittenInit, <1>1, <1>2, TypeCorrect, PTL DEF Spec
=============================================================================
