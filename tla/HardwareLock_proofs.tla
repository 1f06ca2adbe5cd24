------------------------ MODULE HardwareLock_proofs ------------------------
(***************************************************************************)
(* What the FPGA lock guarantees for any number of processes that die at   *)
(* any time.  A valid lock is nobody's but its owner's to give back, until *)
(* a shell unlocks.  If moreover every process has one HMFRunLog object,   *)
(* programs that share their shell with no other exclude each other.       *)
(***************************************************************************)
EXTENDS HardwareLock, TLAPS

NobodyUnlocks == \A s \in Shell : seen[s] = Nobody

\* The constructor that is under way stays within the bound on objects; a
\* shell removes only a lock it has read; while nobody unlocks, a lock about
\* to be removed is still its remover's.
Room      == \A p \in Program : pc[p] \in {"readpid", "create"} => conns[p] < MaxConns
ReadFirst == \A s \in Shell : pc[s] \in {"check", "remove"} => seen[s] # Nobody
OwnRemoval ==
  NobodyUnlocks => \A p \in Process : pc[p] = "remove" => lockfile = p /\ p \in alive

KeepInv == TypeOK /\ Room /\ ReadFirst /\ OwnRemoval

LEMMA KeepInit == ASSUME Init PROVE KeepInv
<1>1. TypeOK
  BY HardwareLockAssumption DEF Init, TypeOK, Process
<1> QED BY <1>1 DEF Init, KeepInv, Room, ReadFirst, OwnRemoval, Process

\* A step that writes the lock file finds no lock about to be removed.
LEMMA StaleLockNoRemoval ==
  ASSUME KeepInv, ~Valid, NobodyUnlocks
  PROVE  \A p \in Process : pc[p] # "remove"
BY DEF KeepInv, OwnRemoval, Valid

LEMMA KeepStep == ASSUME KeepInv, [Next]_vars PROVE KeepInv'
<1> USE HardwareLockAssumption DEF Process
<1>0. TypeOK /\ Room /\ ReadFirst /\ OwnRemoval /\ (\A p \in Program : p \notin Shell)
  BY DEF KeepInv
<1>1. ASSUME NEW p \in Program, CheckLock(p) PROVE KeepInv'
  BY <1>0, <1>1
  DEF CheckLock, Goto, KeepInv, TypeOK, Room, ReadFirst, OwnRemoval, NobodyUnlocks
<1>2. ASSUME NEW p \in Program, ReadLockPid(p) PROVE KeepInv'
  <2>1. conns[p] + 1 \in 0 .. MaxConns
    BY <1>0, <1>2 DEF ReadLockPid, TypeOK, Room
  <2>2. conns' \in [Program -> 0 .. MaxConns]
        /\ \A q \in Program : q # p => conns'[q] = conns[q]
    BY <1>0, <1>2, <2>1 DEF ReadLockPid, TypeOK
  <2> QED BY <1>0, <1>2, <2>2
       DEF ReadLockPid, Goto, KeepInv, TypeOK, Room, ReadFirst, OwnRemoval, NobodyUnlocks
<1>3. ASSUME NEW p \in Program, CreateLock(p) PROVE KeepInv'
  <2>1. conns[p] + 1 \in 0 .. MaxConns
    BY <1>0, <1>3 DEF CreateLock, TypeOK, Room
  <2>2. conns' \in [Program -> 0 .. MaxConns]
        /\ \A q \in Program : q # p => conns'[q] = conns[q]
    BY <1>0, <1>3, <2>1 DEF CreateLock, TypeOK
  <2>3. TypeOK' /\ Room' /\ ReadFirst'
    BY <1>0, <1>3, <2>2 DEF CreateLock, Goto, TypeOK, Room, ReadFirst
  <2>4. OwnRemoval'
    BY <1>0, <1>3, StaleLockNoRemoval
    DEF CreateLock, MayCreate, Goto, TypeOK, OwnRemoval, NobodyUnlocks
  <2> QED BY <2>3, <2>4 DEF KeepInv
<1>4. ASSUME NEW p \in Program, Release(p) PROVE KeepInv'
  <2>1. conns[p] - 1 \in 0 .. MaxConns
    BY <1>0, <1>4 DEF Release, Constructed, TypeOK
  <2>2. conns' \in [Program -> 0 .. MaxConns]
        /\ \A q \in Program : q # p => conns'[q] = conns[q]
    BY <1>0, <1>4, <2>1 DEF Release, TypeOK
  <2> QED BY <1>0, <1>4, <2>2
       DEF Release, RemovesLock, Goto, KeepInv, TypeOK, Room, ReadFirst, OwnRemoval, NobodyUnlocks
<1>5. ASSUME NEW s \in Shell, ShellLock(s) PROVE KeepInv'
  BY <1>0, <1>5, StaleLockNoRemoval
  DEF ShellLock, MayCreate, KeepInv, TypeOK, Room, ReadFirst, OwnRemoval, NobodyUnlocks
<1>6. ASSUME NEW s \in Shell, ShellOpen(s) PROVE KeepInv'
  <2>1. TypeOK' /\ Room' /\ ReadFirst'
    BY <1>0, <1>6 DEF ShellOpen, Goto, TypeOK, Room, ReadFirst
  <2>2. ~NobodyUnlocks'
    BY <1>0, <1>6 DEF ShellOpen, TypeOK, NobodyUnlocks
  <2> QED BY <2>1, <2>2 DEF KeepInv, OwnRemoval
<1>7. ASSUME NEW s \in Shell, ShellCheck(s) PROVE KeepInv'
  <2>1. TypeOK' /\ Room' /\ ReadFirst'
    BY <1>0, <1>7 DEF ShellCheck, Goto, TypeOK, Room, ReadFirst
  <2>2. ~NobodyUnlocks'
    BY <1>0, <1>7 DEF ShellCheck, ReadFirst, NobodyUnlocks
  <2> QED BY <2>1, <2>2 DEF KeepInv, OwnRemoval
<1>8. ASSUME NEW p \in Process, RemoveLock(p) PROVE KeepInv'
  BY <1>0, <1>8
  DEF RemoveLock, Goto, KeepInv, TypeOK, Room, ReadFirst, OwnRemoval, NobodyUnlocks
<1>9. ASSUME NEW p \in Process, Die(p) PROVE KeepInv'
  <2>1. conns' \in [Program -> 0 .. MaxConns]
        /\ \A q \in Program : q # p => conns'[q] = conns[q]
    BY <1>0, <1>9 DEF Die, TypeOK
  <2> QED BY <1>0, <1>9, <2>1
       DEF Die, Goto, KeepInv, TypeOK, Room, ReadFirst, OwnRemoval, NobodyUnlocks
<1>10. CASE UNCHANGED vars
  BY <1>10 DEF vars, KeepInv, TypeOK, Room, ReadFirst, OwnRemoval, NobodyUnlocks
<1> QED BY <1>1, <1>2, <1>3, <1>4, <1>5, <1>6, <1>7, <1>8, <1>9, <1>10 DEF Next

\* A valid lock that nobody unlocks is removed only by its owner's own
\* destructor, for any number of objects, siblings and deaths
\* (HMFRunLog.cpp:185, 197).
THEOREM ValidLockKeptHolds == Spec => ValidLockKept
<1>1. Init => KeepInv
  BY KeepInit
<1>2. KeepInv /\ [Next]_vars => KeepInv'
  BY KeepStep
<1> DEFINE Kept == Valid /\ lockfile' # lockfile /\ (\A s \in Shell : seen[s] = Nobody)
                     => pc[lockfile] = "remove"
<1>3. KeepInv /\ [Next]_vars => [Kept]_vars
  <2> SUFFICES ASSUME KeepInv, Next, Valid, NobodyUnlocks, lockfile' # lockfile
               PROVE  pc[lockfile] = "remove"
    BY DEF NobodyUnlocks
  <2>1. PICK p \in Process : RemoveLock(p)
    BY DEF Next, CheckLock, ReadLockPid, CreateLock, Release, ShellLock, ShellOpen, ShellCheck,
           Die, MayCreate
  <2> QED BY <2>1 DEF RemoveLock, KeepInv, OwnRemoval
<1> QED BY <1>1, <1>2, <1>3, PTL DEF Spec, ValidLockKept

\* Pids, calls and counts stay in range: no constructor under way goes beyond
\* the bound on objects, which needs Room (HMFRunLog.cpp:99).
THEOREM TypeCorrect == Spec => []TypeOK
<1>1. Init => KeepInv
  BY KeepInit
<1>2. KeepInv /\ [Next]_vars => KeepInv'
  BY KeepStep
<1>3. KeepInv => TypeOK
  BY DEF KeepInv
<1> QED BY <1>1, <1>2, <1>3, PTL DEF Spec
-----------------------------------------------------------------------------
(* Exclusion.  Two objects in a process, or two programs of a shell, share *)
(* the lock file without counting its users, hence the conditions.         *)

OneObjectEach == MaxConns = 1

\* What a program is about to do it does while it lives; one about to remove
\* its lock uses nothing any more; a single user is covered by its own lock or
\* its shell's.
Living  == \A p \in Program : pc[p] \in {"readpid", "create"} => p \in alive
Leaving == \A p \in Program : pc[p] = "remove" => conns[p] = 0
Covered ==
  Undisturbed =>
    \A p \in Program : Single(p) /\ conns[p] > 0
                         => lockfile \in alive /\ lockfile \in {p, parent[p]}

LockInv == Living /\ Leaving /\ Covered

\* OwnLock tells a single program from all others: the lock is p's or its shell's.
LEMMA OwnLockIsOwn ==
  ASSUME TypeOK, NEW p \in Program, Single(p), OwnLock(p)
  PROVE  lockfile \in {p, parent[p]}
<1>1. lockfile \in Process /\ ppid(p) = parent[p] /\ parent[p] \in Shell
  BY HardwareLockAssumption DEF TypeOK, OwnLock, ppid
<1>2. CASE lockfile = p \/ lockfile = ppid(p)
  BY <1>1, <1>2
<1>3. CASE ppid(lockfile) = ppid(p)
  <2>1. CASE lockfile \in Program
    <3>1. parent[lockfile] = parent[p]
      BY <1>1, <1>3, <2>1 DEF ppid
    <3> QED BY <2>1, <3>1 DEF Single
  <2>2. CASE lockfile \in Shell
    <3>1. ppid(lockfile) = Init1 /\ Init1 \notin Shell
      BY <2>2, HardwareLockAssumption DEF ppid, Process
    <3> QED BY <1>1, <1>3, <3>1
  <2> QED BY <1>1, <2>1, <2>2 DEF Process
<1> QED BY <1>2, <1>3 DEF OwnLock

\* With one object a program that acquires the lock has none.
LEMMA AcquiringHasNone ==
  ASSUME OneObjectEach, KeepInv, NEW p \in Program, pc[p] \in {"readpid", "create"}
  PROVE  conns[p] = 0
BY DEF OneObjectEach, KeepInv, Room, TypeOK

LEMMA LockStep ==
  ASSUME OneObjectEach, KeepInv, LockInv, [Next]_vars
  PROVE  LockInv'
<1> USE HardwareLockAssumption DEF Process
<1>0. /\ TypeOK /\ ReadFirst /\ OwnRemoval /\ Living /\ Leaving /\ Covered
      /\ \A p \in Program : p \notin Shell
  BY DEF KeepInv, LockInv
<1>1. ASSUME NEW p \in Program, CheckLock(p) PROVE LockInv'
  BY <1>0, <1>1
  DEF CheckLock, Goto, TypeOK, LockInv, Living, Leaving, Covered, Undisturbed
<1>2. ASSUME NEW p \in Program, ReadLockPid(p) PROVE LockInv'
  <2>1. conns[p] = 0 /\ p \in alive
    BY <1>0, <1>2, AcquiringHasNone DEF ReadLockPid, Living
  <2>2. conns'[p] > 0 => OwnLock(p)
    BY <1>0, <1>2, <2>1 DEF ReadLockPid, TypeOK
  <2>3. \A q \in Program : q # p => conns'[q] = conns[q]
    BY <1>0, <1>2 DEF ReadLockPid, TypeOK
  <2>4. Undisturbed /\ Single(p) /\ OwnLock(p) => lockfile \in {p, parent[p]} /\ lockfile \in alive
    BY <1>0, <2>1, OwnLockIsOwn DEF Undisturbed
  <2>5. Covered'
    BY <1>0, <1>2, <2>2, <2>3, <2>4 DEF ReadLockPid, Covered, Undisturbed, Single
  <2>6. Living' /\ Leaving'
    BY <1>0, <1>2, <2>3 DEF ReadLockPid, Goto, TypeOK, Living, Leaving
  <2> QED BY <2>5, <2>6 DEF LockInv
<1>3. ASSUME NEW p \in Program, CreateLock(p) PROVE LockInv'
  <2>1. conns[p] = 0 /\ p \in alive
    BY <1>0, <1>3, AcquiringHasNone DEF CreateLock, Living
  <2>2. \A q \in Program : q # p => conns'[q] = conns[q]
    BY <1>0, <1>3 DEF CreateLock, TypeOK
  <2>3. Living' /\ Leaving'
    BY <1>0, <1>3, <2>2 DEF CreateLock, Goto, TypeOK, Living, Leaving
  <2>4. CASE MayCreate
    <3>1. Undisturbed => \A q \in Program : Single(q) => ~(conns[q] > 0)
      BY <1>0, <2>4 DEF MayCreate, Valid, Covered
    <3>2. lockfile' = p /\ alive' = alive /\ seen' = seen
      BY <1>3, <2>4 DEF CreateLock
    <3> QED BY <2>1, <2>2, <2>3, <3>1, <3>2 DEF LockInv, Covered, Undisturbed, Single
  <2>5. CASE ~MayCreate
    BY <1>0, <1>3, <2>3, <2>5 DEF CreateLock, LockInv, Covered, Undisturbed
  <2> QED BY <2>4, <2>5
<1>4. ASSUME NEW p \in Program, Release(p) PROVE LockInv'
  <2>0. conns[p] = 1
    BY <1>0, <1>4 DEF Release, Constructed, OneObjectEach, TypeOK
  <2>1. conns' = [conns EXCEPT ![p] = 0]
    BY <1>0, <1>4, <2>0 DEF Release, TypeOK
  <2> QED BY <1>0, <1>4, <2>1
       DEF Release, RemovesLock, Goto, TypeOK, LockInv, Living, Leaving, Covered, Undisturbed
<1>5. ASSUME NEW s \in Shell, ShellLock(s) PROVE LockInv'
  <2>1. Living' /\ Leaving'
    BY <1>0, <1>5 DEF ShellLock, Living, Leaving
  <2>2. CASE MayCreate
    <3>1. Undisturbed => \A q \in Program : Single(q) => ~(conns[q] > 0)
      BY <1>0, <2>2 DEF MayCreate, Valid, Covered
    <3> QED BY <1>5, <2>1, <3>1 DEF ShellLock, LockInv, Covered, Undisturbed
  <2>3. CASE ~MayCreate
    BY <1>0, <1>5, <2>1, <2>3 DEF ShellLock, LockInv, Covered, Undisturbed
  <2> QED BY <2>2, <2>3
<1>6. ASSUME NEW s \in Shell, ShellOpen(s) PROVE LockInv'
  <2>1. ~Undisturbed'
    BY <1>0, <1>6 DEF ShellOpen, TypeOK, Undisturbed
  <2> QED BY <1>0, <1>6, <2>1 DEF ShellOpen, Goto, TypeOK, LockInv, Living, Leaving, Covered
<1>7. ASSUME NEW s \in Shell, ShellCheck(s) PROVE LockInv'
  <2>1. ~Undisturbed'
    BY <1>0, <1>7 DEF ShellCheck, ReadFirst, Undisturbed
  <2> QED BY <1>0, <1>7, <2>1 DEF ShellCheck, Goto, TypeOK, LockInv, Living, Leaving, Covered
<1>8. ASSUME NEW p \in Process, RemoveLock(p) PROVE LockInv'
  <2>1. Undisturbed => p \in Program /\ lockfile = p /\ conns[p] = 0
    BY <1>0, <1>8 DEF RemoveLock, Undisturbed, ReadFirst, OwnRemoval, NobodyUnlocks, Leaving
  <2>2. Undisturbed => \A q \in Program : Single(q) => ~(conns[q] > 0)
    BY <1>0, <2>1 DEF Covered, TypeOK
  <2> QED BY <1>0, <1>8, <2>2
       DEF RemoveLock, Goto, TypeOK, LockInv, Living, Leaving, Covered, Undisturbed
<1>9. ASSUME NEW p \in Process, Die(p) PROVE LockInv'
  <2>1. Living' /\ Leaving'
    BY <1>0, <1>9 DEF Die, Goto, TypeOK, Living, Leaving
  <2>2. Undisturbed' => Undisturbed /\ p \in Program
    BY <1>0, <1>9 DEF Die, Undisturbed
  <2>3. \A q \in Program : conns'[q] > 0 => q # p /\ conns[q] > 0
    BY <1>0, <1>9 DEF Die, TypeOK
  <2> QED BY <1>0, <1>9, <2>1, <2>2, <2>3 DEF Die, LockInv, Covered, Single
<1>10. CASE UNCHANGED vars
  BY <1>0, <1>10 DEF vars, LockInv, Living, Leaving, Covered, Undisturbed
<1> QED BY <1>1, <1>2, <1>3, <1>4, <1>5, <1>6, <1>7, <1>8, <1>9, <1>10 DEF Next

\* The two invariants together are inductive.
LEMMA LockHolds == ASSUME OneObjectEach PROVE Spec => [](KeepInv /\ LockInv)
<1>1. Init => KeepInv /\ LockInv
  BY KeepInit, HardwareLockAssumption
  DEF Init, LockInv, Living, Leaving, Covered, Process
<1>2. KeepInv /\ LockInv /\ [Next]_vars => (KeepInv /\ LockInv)'
  BY KeepStep, LockStep
<1> QED BY <1>1, <1>2, PTL DEF Spec

\* Two programs that share their shell with no other never hold the FPGA
\* together (HMFRunLog.cpp:151-185).
THEOREM ExclusiveAccessHolds == ASSUME OneObjectEach PROVE Spec => []ExclusiveAccess
<1>1. KeepInv /\ LockInv => ExclusiveAccess
  <2> SUFFICES ASSUME LockInv, Undisturbed, NEW p \in Program, NEW q \in Program,
                      Single(p), Single(q), Uses(p), Uses(q)
               PROVE  p = q
    BY DEF ExclusiveAccess
  <2>1. lockfile \in {p, parent[p]} /\ lockfile \in {q, parent[q]}
    BY DEF LockInv, Covered, Uses
  <2>2. parent[p] \in Shell /\ parent[q] \in Shell /\ p \notin Shell /\ q \notin Shell
    BY HardwareLockAssumption
  <2> QED BY <2>1, <2>2 DEF Single
<1> QED BY <1>1, LockHolds, PTL

\* Such a program, while it uses the FPGA, is covered by a valid lock of its own
\* or of its shell.
THEOREM UsersAreCoveredHolds == ASSUME OneObjectEach PROVE Spec => []UsersAreCovered
<1>1. KeepInv /\ LockInv => UsersAreCovered
  BY DEF LockInv, Covered, UsersAreCovered, Uses, Valid
<1> QED BY <1>1, LockHolds, PTL
=============================================================================
