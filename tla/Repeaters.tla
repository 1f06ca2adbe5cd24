----------------------------- MODULE Repeaters -----------------------------
(***************************************************************************)
(* One block of layer 1 repeaters of a HICANN (version 2 and later) and    *)
(* the RepeaterControl object that keeps a copy of its registers           *)
(* (units/stage2_hal/source/repeater_control.cpp).                         *)
(*                                                                         *)
(* A call is a sequence of register writes, one step for each.  Two test   *)
(* outputs are shared by the repeaters, one by the even, one by the odd    *)
(* numbers; outputflag notes the repeater that uses each.  The start and   *)
(* reset bits of the block can be written but not read back.               *)
(*                                                                         *)
(* A read may fail: nothing checks what configure stores as the bits of a  *)
(* repeater, and an answer that comes late is taken for that of the next   *)
(* read (host_al_controller.cpp:809-830, s2comm.cpp:172-191).              *)
(***************************************************************************)
EXTENDS Integers

CONSTANTS Count,       \* number of repeaters, 32 or 64
          Locations,   \* blocks to consider
          Usages,      \* sets of calls that a program uses; "late": its reads may fail
          Data,        \* contents of a test data register
          Strays,      \* bits that the answer to an earlier read may hold
          MaxOwed,     \* bound on the answers still to come
          Orderly      \* repeaters are switched only on a copy read in full, the test
                       \* output only off by the repeater that has it

Reps  == 0 .. Count - 1
Free  == Count           \* 65 in the code
Ports == {"touten", "tinen", "recen", "dir"}
Modes == {"FORWARD", "TESTIN", "TESTOUT", "SPL1OUT"}
Directions == {"OUTWARDS", "INWARDS"}
Channels == 0 .. 1
StartBits == {"tdi0", "tdi1", "tdo0", "tdo1"}
ConfigBits == StartBits \cup {"drvresetb", "dllresetb"}

ASSUME RepeaterAssumption ==
  /\ Count \in Nat \ {0} /\ Orderly \in BOOLEAN
  /\ Locations \subseteq {"REPL", "REPR", "REPTL", "REPTR", "REPBL", "REPBR"}
  /\ Usages \subseteq SUBSET {"conf", "spl1", "tout", "bits", "start", "late"}
  /\ Strays \subseteq SUBSET Ports /\ MaxOwed \in Nat

VARIABLES
  loc, usage,
  sram,        \* chip: the bits of each repeater, by address
  rc_config,   \* chip: the register of start and reset bits
  td,          \* chip: test data of a channel
  config, outputflag, startconf,      \* the object
  op,          \* the call in progress
  owed,        \* answers to earlier reads that are still to come
  configured,  \* the copy was reset, or read with each answer its own
  known,       \* the object has written rc_config since it was made
  wanted       \* the test data the program wrote for a channel

chip    == <<sram, rc_config, td>>
object  == <<config, outputflag, startconf>>
history == <<configured, known, wanted>>
vars    == <<loc, usage, chip, object, op, owed, history>>

Idle == [call |-> "idle"]
Unwritten == "unwritten"

\* Mutant of repaddr: the right block starts at the other end.
repaddr_left(r) == IF loc = "REPR" THEN (Count - r) % (Count - 1) ELSE r
repaddr(r) ==
  CASE loc \in {"REPTL", "REPTR"} -> (r + 1) % Count
    [] loc = "REPR"               -> (Count - r) % Count
    [] OTHER                      -> r

\* The chip's bits of a repeater.
Sram(r) == sram[repaddr(r)]

\* The chip has been reset; the program has not set it up.  Sending repeaters
\* (is_spl1rep) are in the left block.
Init ==
  /\ loc \in Locations /\ usage \in Usages
  /\ "spl1" \in usage => loc = "REPL"
  /\ sram = [a \in Reps |-> {}] /\ rc_config = {} /\ td \in [Channels -> Data]
  /\ config = [r \in Reps |-> {}] /\ outputflag = [p \in 0 .. 1 |-> Free]
  /\ startconf = {} /\ op = Idle /\ owed = 0
  /\ configured = FALSE /\ known = FALSE
  /\ wanted = [c \in Channels |-> Unwritten]
-----------------------------------------------------------------------------
(* Single writes: each changes one bit of one repeater, on the chip and in  *)
(* the copy.                                                                *)

Switched(bits, bit, on) == IF on THEN bits \cup {bit} ELSE bits \ {bit}

Write(r, bit, on) ==
  /\ sram' = [sram EXCEPT ![repaddr(r)] = Switched(config[r], bit, on)]
  /\ config' = [config EXCEPT ![r] = Switched(@, bit, on)]
  /\ UNCHANGED <<rc_config, td, startconf>>

\* Mutant of Available: a repeater takes the test output from another.
AvailableAnyway(r) == TRUE
Available(r) == outputflag[r % 2] \in {Free, r}

\* An error is logged, and nothing done, where another repeater has the output.
tout(r, on) ==
  IF on /\ ~Available(r) THEN UNCHANGED <<chip, object>>
  ELSE /\ Write(r, "touten", on)
       /\ outputflag' = [outputflag EXCEPT ![r % 2] = IF on THEN r ELSE Free]

tin(r, on)     == Write(r, "tinen", on) /\ UNCHANGED outputflag
enable(r, on)  == Write(r, "recen", on) /\ UNCHANGED outputflag
set_dir(r, on) == Write(r, "dir", on) /\ UNCHANGED outputflag
Nothing        == UNCHANGED <<chip, object>>
-----------------------------------------------------------------------------
(* conf_repeater and conf_spl1_repeater: test output, test input, then the  *)
(* two drivers.                                                             *)

TestOut ==
  CASE op.mode = "TESTIN"                -> tout(op.rep, op.on)
    [] op.mode \in {"FORWARD", "SPL1OUT"} -> tout(op.rep, FALSE)
    [] op.mode = "TESTOUT"               -> Nothing

TestIn ==
  CASE op.mode \in {"TESTOUT", "SPL1OUT"} -> tin(op.rep, op.on)
    [] op.mode = "FORWARD"               -> tin(op.rep, FALSE)
    [] op.mode = "TESTIN"                -> Nothing

\* Mutant of FirstDriver: one driver is switched before the other is off.
SwitchFirst == IF op.dir = "OUTWARDS" THEN enable(op.rep, op.on) ELSE set_dir(op.rep, op.on)
FirstDriver ==
  IF op.call = "conf"
  THEN IF op.dir = "OUTWARDS" THEN set_dir(op.rep, FALSE) ELSE enable(op.rep, FALSE)
  ELSE IF op.dir = "OUTWARDS" THEN enable(op.rep, op.on) ELSE set_dir(op.rep, op.on)

SecondDriver ==
  IF op.call = "conf"
  THEN IF op.dir = "OUTWARDS" THEN enable(op.rep, op.on) ELSE set_dir(op.rep, op.on)
  ELSE IF op.dir = "OUTWARDS" THEN set_dir(op.rep, FALSE) ELSE enable(op.rep, FALSE)

ConfStep ==
  /\ op.call \in {"conf", "spl1"}
  /\ CASE op.step = 1 -> TestOut
       [] op.step = 2 -> TestIn
       [] op.step = 3 -> FirstDriver
       [] op.step = 4 -> SecondDriver
  /\ op' = IF op.step = 4 THEN Idle ELSE [op EXCEPT !.step = @ + 1]
  /\ UNCHANGED <<loc, usage, owed, history>>

\* Answers are left behind, and mixed up, only by configure and by a new object.
Ready == op.call = "idle" /\ UNCHANGED <<loc, usage, owed>>

\* What the test output of r may be switched off for.
MayFree(r) == Orderly => configured /\ Available(r)

Conf(call, r, mode, dir, on) ==
  /\ Ready /\ call \in usage
  /\ Orderly => configured
  /\ mode \in {"FORWARD", "SPL1OUT"} \/ (mode = "TESTIN" /\ ~on) => MayFree(r)
  /\ op' = [call |-> call, rep |-> r, mode |-> mode, dir |-> dir, on |-> on, step |-> 1]
  /\ UNCHANGED <<chip, object, history>>

conf_repeater(r, mode, dir, on)      == mode # "SPL1OUT" /\ Conf("conf", r, mode, dir, on)
conf_spl1_repeater(r, mode, dir, on) == mode # "TESTOUT" /\ Conf("spl1", r, mode, dir, on)

\* The calls that switch one bit.
SwitchBit(r, on) ==
  /\ Ready /\ (Orderly => configured)
  /\ \/ "tout" \in usage /\ (~on => MayFree(r)) /\ tout(r, on)
     \/ "bits" \in usage /\ (tin(r, on) \/ enable(r, on) \/ set_dir(r, on))
  /\ UNCHANGED <<op, history>>
-----------------------------------------------------------------------------
(* configure, reset and the life of the object.                            *)

\* A new object, or a program that starts again, while the chip goes on.
Restart ==
  /\ config' = [r \in Reps |-> {}] /\ outputflag' = [p \in 0 .. 1 |-> Free]
  /\ startconf' = {} /\ op' = Idle
  /\ configured' = FALSE /\ known' = FALSE
  /\ owed' \in {owed, 0}
  /\ UNCHANGED <<loc, usage, chip, wanted>>

configure ==
  /\ Ready
  /\ op' = [call |-> "configure", rep |-> 0, own |-> TRUE]
  /\ UNCHANGED <<chip, object, history>>

\* Mutant of Noted: configure leaves the flags alone.
NotNoted(r, bits) == outputflag
Noted(r, bits) == IF "touten" \in bits THEN [outputflag EXCEPT ![r % 2] = r] ELSE outputflag

\* What read_data gives for r: the answer to this read,
OwnAnswer(r, bits) == owed = 0 /\ bits = Sram(r) /\ UNCHANGED owed
\* or the oldest of those that are owed, so that its own is owed now,
LateAnswer(bits) == owed > 0 /\ bits \in Strays /\ UNCHANGED owed
\* or none in time: it comes later, or never; 0 is returned as data after a
\* timeout, 0xffffffff where there are no data.
Unanswered == "late" \in usage /\ owed' \in {owed, owed + 1} /\ owed' <= MaxOwed
NoAnswer(bits) == bits \in {{}, Ports} /\ Unanswered

ConfigureStep ==
  /\ op.call = "configure"
  /\ \E own \in BOOLEAN, bits \in SUBSET Ports :
       /\ IF own THEN OwnAnswer(op.rep, bits) ELSE LateAnswer(bits) \/ NoAnswer(bits)
       /\ config' = [config EXCEPT ![op.rep] = bits]
       /\ outputflag' = Noted(op.rep, bits)
       /\ IF op.rep = Count - 1 THEN op' = Idle /\ configured' = (op.own /\ own)
          ELSE /\ op' = [call |-> "configure", rep |-> op.rep + 1, own |-> op.own /\ own]
               /\ configured' = (configured /\ own)
  /\ UNCHANGED <<loc, usage, chip, startconf, known, wanted>>

\* recvData throws: configure ends where it is.
ConfigureThrows ==
  /\ op.call = "configure"
  /\ op' = Idle /\ Unanswered
  /\ UNCHANGED <<loc, usage, chip, object, history>>

reset ==
  /\ Ready
  /\ op' = [call |-> "reset", rep |-> 0]
  /\ UNCHANGED <<chip, object, history>>

\* The last step writes rc_config too; the flags are freed only then.
ResetStep ==
  /\ op.call = "reset"
  /\ IF op.rep < Count
     THEN /\ sram' = [sram EXCEPT ![repaddr(op.rep)] = {}]
          /\ config' = [config EXCEPT ![op.rep] = {}]
          /\ op' = [op EXCEPT !.rep = @ + 1]
          /\ UNCHANGED <<rc_config, startconf, outputflag, configured, known>>
     ELSE /\ startconf' = {"drvresetb"} /\ rc_config' = startconf'
          /\ outputflag' = [p \in 0 .. 1 |-> Free]
          /\ op' = Idle /\ configured' = TRUE /\ known' = TRUE
          /\ UNCHANGED <<sram, config>>
  /\ UNCHANGED <<loc, usage, td, owed, wanted>>
-----------------------------------------------------------------------------
(* The test circuits: start and reset bits, test data.                     *)

\* Bug of the chip: channels are swapped in lower repeaters.
Channel(c) == IF loc \in {"REPBL", "REPBR"} THEN 1 - c ELSE c

\* Mutant of StartChannel: the swap is left out.
Straight(c) == c
StartChannel(c) == Channel(c)
In(c)  == IF StartChannel(c) = 1 THEN "tdi1" ELSE "tdi0"
Out(c) == IF StartChannel(c) = 1 THEN "tdo1" ELSE "tdo0"

Start(bits) ==
  /\ Ready /\ "start" \in usage
  /\ rc_config' = bits /\ startconf' = bits
  /\ UNCHANGED <<sram, td, config, outputflag, op, configured, wanted>>

reset_dll == Start({"dllresetb", "drvresetb"}) /\ known' = TRUE

\* startin, startout, stopin and stopout.
StartStop(bit, on) ==
  /\ Orderly => known
  /\ Start(Switched(startconf, bit, on))
  /\ UNCHANGED known

tdata_write(c, d) ==
  /\ Ready /\ "start" \in usage
  /\ td' = [td EXCEPT ![Channel(c)] = d]
  /\ wanted' = [wanted EXCEPT ![c] = d]
  /\ UNCHANGED <<sram, rc_config, object, op, configured, known>>

Next ==
  \/ ConfStep \/ ConfigureStep \/ ConfigureThrows \/ ResetStep
  \/ \E r \in Reps, on \in BOOLEAN :
       \/ \E mode \in Modes, dir \in Directions :
            conf_repeater(r, mode, dir, on) \/ conf_spl1_repeater(r, mode, dir, on)
       \/ SwitchBit(r, on)
  \/ configure \/ reset \/ Restart \/ reset_dll
  \/ \E c \in Channels, on \in BOOLEAN : StartStop(In(c), on) \/ StartStop(Out(c), on)
  \/ \E c \in Channels, d \in Data : tdata_write(c, d)

Spec == Init /\ [][Next]_vars
-----------------------------------------------------------------------------
\* Types.
TypeOK ==
  /\ loc \in Locations /\ usage \in Usages
  /\ sram \in [Reps -> SUBSET Ports] /\ config \in [Reps -> SUBSET Ports]
  /\ rc_config \subseteq ConfigBits /\ startconf \subseteq ConfigBits
  /\ td \in [Channels -> Data] /\ wanted \in [Channels -> Data \cup {Unwritten}]
  /\ outputflag \in [0 .. 1 -> Reps \cup {Free}]
  /\ configured \in BOOLEAN /\ known \in BOOLEAN /\ owed \in 0 .. MaxOwed
  /\ op \in [call : {"idle"}]
       \cup [call : {"conf", "spl1"}, rep : Reps, mode : Modes, dir : Directions,
             on : BOOLEAN, step : 1 .. 4]
       \cup [call : {"configure"}, rep : Reps, own : BOOLEAN] \cup [call : {"reset"}, rep : 0 .. Count]

\* Once reset has run, or a configure whose reads all got their own answers, every
\* later write, which rewrites all bits of a repeater from the copy, is based on
\* what the chip has.  After a read that failed it may not be, and only the log
\* tells.  Every later start or stop of a channel, which must leave the drivers'
\* reset alone, is based on what the chip has once the object has written the
\* register, which cannot be read.
CopyIsCurrent ==
  /\ configured => \A r \in Reps : config[r] = Sram(r)
  /\ known => startconf = rc_config

\* A test output is driven by one repeater, across restarts and reads that fail,
\* where the program reads the block anew, or resets it, after such a read.
TestOutputExclusive ==
  \A r, s \in Reps : r # s /\ r % 2 = s % 2 => ~("touten" \in Sram(r) /\ "touten" \in Sram(s))

\* conf_repeater never has the drivers of both sides on, whatever a repeater was
\* before, and wherever the program is stopped.  conf_spl1_repeater does for a
\* moment, and for good if it is stopped then.
DriversExclusive ==
  usage \cap {"spl1", "bits"} = {} => \A r \in Reps : ~({"recen", "dir"} \subseteq Sram(r))

\* A started channel plays the test data written for it.
StartedHasItsData ==
  \A c \in Channels :
    In(c) \in rc_config /\ wanted[c] # Unwritten =>
      td[IF In(c) = "tdi1" THEN 1 ELSE 0] = wanted[c]
=============================================================================
