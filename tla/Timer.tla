------------------------------- MODULE Timer -------------------------------
(***************************************************************************)
(* The software timer of units/arq/source/timer.{h,cpp}.  A timer is a     *)
(* passive record: nothing happens to it unless its owner calls Tick.      *)
(* The operators below return the timer a method call leaves behind.       *)
(***************************************************************************)
EXTENDS Naturals

\* The members of class Timer.  `value` only means something while the timer
\* is enabled; the constructor leaves it uninitialised.
TimerType == [enabled : BOOLEAN, value : Nat, timeout : BOOLEAN, max : Nat]

\* Timer::Timer.  The uninitialised `value` may hold anything; every outcome a
\* later SetTimeoutVal can tell apart is among 0..m.
NewTimers(m) ==
  [enabled : {FALSE}, value : 0..m, timeout : {FALSE}, max : {m}]

SetTimeoutVal(t, m) ==
  [t EXCEPT !.value = IF @ > m THEN m ELSE @, !.max = m]

\* A timeout that was not processed yet survives a restart.
Start(t) == [t EXCEPT !.value = t.max, !.enabled = TRUE]

Continue(t) == IF t.enabled THEN t ELSE Start(t)

Stop(t) == [t EXCEPT !.timeout = FALSE, !.enabled = FALSE]

SetTimeout(t) == [t EXCEPT !.timeout = TRUE]

Ack(t) == [t EXCEPT !.timeout = FALSE]

Tick(t) ==
  IF ~t.enabled THEN t
  ELSE IF t.value = 0 THEN SetTimeout(Stop(t))
  ELSE [t EXCEPT !.value = @ - 1]

\* The timer is running, or ran out and nobody has processed it yet.
Armed(t) == t.enabled \/ t.timeout

=============================================================================
