---------------------------- MODULE HardwareLock ----------------------------
(***************************************************************************)
(* Who may talk to an FPGA: the lock file that an HMFRunLog object (part   *)
(* of every CommAccess, units/stage2_hal/source/HMFRunLog.cpp) takes in    *)
(* its constructor and gives back in its destructor, and that the command  *)
(* line tool tools/s2ctrl.py takes and gives back on behalf of the shell   *)
(* it is started from.                                                     *)
(*                                                                         *)
(* One FPGA; a process is its pid.  A call of the lock file library is one *)
(* step, what the program does between two calls is not.                   *)
(***************************************************************************)
EXTENDS Naturals

CONSTANTS Program,     \* processes that create HMFRunLog objects
          Shell,       \* processes that run s2ctrl.py
          parent,      \* parent[p]: the process that started program p
          MaxConns,    \* bound: HMFRunLog objects of one process
          Mortal,      \* processes that may die at any time
          Unlocking    \* shells that call "s2ctrl.py unlock"

Process == Program \cup Shell
Nobody  == "nobody"
Init1   == "init"      \* the parent of every shell

ASSUME HardwareLockAssumption ==
  /\ Program \cap Shell = {}
  /\ Nobody \notin Process /\ Init1 \notin Process
  /\ parent \in [Program -> Shell]
  /\ MaxConns \in Nat
  /\ Mortal \subseteq Process
  /\ Unlocking \subseteq Shell

VARIABLES lockfile,    \* the pid in the lock file
          alive,       \* processes that run
          conns,       \* conns[p]: HMFRunLog objects p holds
          pc,          \* the next lock file call of a process
          seen         \* seen[s]: the pid an unlocking shell has read

vars == <<lockfile, alive, conns, pc, seen>>

ppid(p) == IF p \in Program THEN parent[p] ELSE Init1

\* lockfile_check with L_PID: the process in the file runs.
Valid == lockfile \in alive

Init ==
  /\ lockfile = Nobody
  /\ alive = Process
  /\ conns = [p \in Program |-> 0]
  /\ pc = [p \in Process |-> "idle"]
  /\ seen = [s \in Shell |-> Nobody]

Goto(p, label) == pc' = [pc EXCEPT ![p] = label]
-----------------------------------------------------------------------------
(* HMFRunLog::HMFRunLog                                                    *)

CheckLock(p) ==
  /\ p \in alive /\ pc[p] = "idle" /\ conns[p] < MaxConns
  /\ pc[parent[p]] \in {"idle", "dead"}
  /\ Goto(p, IF Valid THEN "readpid" ELSE "create")
  /\ UNCHANGED <<lockfile, alive, conns, seen>>

\* The lock is ours if we hold it, or our parent, or a child of our parent.
\* Mutant of OwnLock: a lock of any family will do.
OwnAnyLock(p) == lockfile # Nobody
OwnLock(p) ==
  /\ lockfile # Nobody
  /\ lockfile = p \/ lockfile = ppid(p) \/ ppid(lockfile) = ppid(p)

\* Anybody else's lock, or none any more, makes the constructor throw.
ReadLockPid(p) ==
  /\ pc[p] = "readpid"
  /\ conns' = [conns EXCEPT ![p] = IF OwnLock(p) THEN @ + 1 ELSE @]
  /\ Goto(p, "idle")
  /\ UNCHANGED <<lockfile, alive, seen>>

\* lockfile_create replaces a stale lock file and fails on a valid one; then
\* the constructor throws.
\* Mutant of MayCreate: the file is written whatever it holds by now.
MayAlwaysCreate == TRUE
MayCreate == ~Valid

CreateLock(p) ==
  /\ pc[p] = "create"
  /\ IF MayCreate
     THEN lockfile' = p /\ conns' = [conns EXCEPT ![p] = @ + 1]
     ELSE UNCHANGED <<lockfile, conns>>
  /\ Goto(p, "idle")
  /\ UNCHANGED <<alive, seen>>

(* HMFRunLog::~HMFRunLog                                                   *)

\* Mutant of RemovesLock: the lock is removed whoever holds it.
RemovesAnyLock(p) == lockfile # Nobody
RemovesLock(p) == lockfile = p

\* Only an object whose constructor did not throw is destroyed.
Constructed(p) == conns[p] > 0

Release(p) ==
  /\ p \in alive /\ pc[p] = "idle" /\ Constructed(p)
  /\ conns' = [conns EXCEPT ![p] = @ - 1]
  /\ Goto(p, IF RemovesLock(p) THEN "remove" ELSE "idle")
  /\ UNCHANGED <<lockfile, alive, seen>>

RemoveLock(p) ==
  /\ pc[p] = "remove"
  /\ lockfile' = Nobody
  /\ Goto(p, "idle")
  /\ UNCHANGED <<alive, conns, seen>>
-----------------------------------------------------------------------------
(* s2ctrl.py lock and unlock (modify_lock with L_PPID)                     *)

\* A shell takes and gives back the lock while none of its programs runs.
Waiting(s) ==
  /\ s \in alive /\ pc[s] = "idle"
  /\ \A p \in Program : parent[p] = s => pc[p] \in {"idle", "dead"} /\ conns[p] = 0

\* A lock the shell holds already is left as it is; else lockfile_create
\* takes it, or fails if there is a valid one.
ShellLock(s) ==
  /\ Waiting(s)
  /\ lockfile' = IF MayCreate THEN s ELSE lockfile
  /\ UNCHANGED <<alive, conns, pc, seen>>

\* The file is opened, then checked, then read and removed.
ShellOpen(s) ==
  /\ Waiting(s) /\ s \in Unlocking /\ lockfile # Nobody
  /\ seen' = [seen EXCEPT ![s] = lockfile]
  /\ Goto(s, "check")
  /\ UNCHANGED <<lockfile, alive, conns>>

ShellCheck(s) ==
  /\ pc[s] = "check"
  /\ Goto(s, IF ~Valid \/ seen[s] = s THEN "remove" ELSE "idle")
  /\ UNCHANGED <<lockfile, alive, conns, seen>>

\* A process that dies leaves the lock file behind: no signal handler removes
\* it (HMFRunLog::gracefulShutdown).
Die(p) ==
  /\ p \in alive \cap Mortal
  /\ alive' = alive \ {p}
  /\ Goto(p, "dead")
  /\ conns' = [q \in Program |-> IF q = p THEN 0 ELSE conns[q]]
  /\ UNCHANGED <<lockfile, seen>>

Next ==
  \/ \E p \in Program : CheckLock(p) \/ ReadLockPid(p) \/ CreateLock(p) \/ Release(p)
  \/ \E s \in Shell : ShellLock(s) \/ ShellOpen(s) \/ ShellCheck(s)
  \/ \E p \in Process : RemoveLock(p) \/ Die(p)

Spec == Init /\ [][Next]_vars
-----------------------------------------------------------------------------
\* Types of the lock file, the processes and their calls (HMFRunLog.cpp:99).
TypeOK ==
  /\ lockfile \in Process \cup {Nobody}
  /\ alive \subseteq Process
  /\ conns \in [Program -> 0 .. MaxConns]
  /\ pc \in [Process -> {"idle", "readpid", "create", "check", "remove", "dead"}]
  /\ seen \in [Shell -> Process \cup {Nobody}]

Uses(p) == conns[p] > 0
\* A program whose shell starts no other.
Single(p) == \A q \in Program : parent[q] = parent[p] => q = p
\* Nobody has called "s2ctrl.py unlock", and no shell has died with its lock.
Undisturbed == Shell \subseteq alive /\ \A s \in Shell : seen[s] = Nobody

\* "get lock before accessing hardware" (reticle_control.cpp:72): two single
\* programs never hold the FPGA at the same time, although the lock is checked,
\* read and created in separate calls, its holder may die, and families beside
\* them come and go.
ExclusiveAccess ==
  Undisturbed =>
    \A p, q \in Program : Single(p) /\ Single(q) /\ Uses(p) /\ Uses(q) => p = q

\* A single program that uses the FPGA is covered by a valid lock of its own or
\* its shell's, so that s2ctrl.py shows the hardware as taken
\* (s2ctrl.py:193-217).
UsersAreCovered ==
  Undisturbed =>
    \A p \in Program : Single(p) /\ Uses(p) => Valid /\ lockfile \in {p, parent[p]}

\* As long as nobody has called "s2ctrl.py unlock" a valid lock goes only with
\* its owner: not with a sibling that was let in by it, nor with a program that
\* found an older lock stale (HMFRunLog.cpp:185, 197).
ValidLockKept ==
  [][Valid /\ lockfile' # lockfile /\ (\A s \in Shell : seen[s] = Nobody)
       => pc[lockfile] = "remove"]_vars
=============================================================================
