------------------------------- MODULE Policy -------------------------------
(***************************************************************************)
(* The restart policy of one child (internal/process/restart.go): a budget *)
(* of automatic restarts, spent by OnExit and refilled by a clean exit, a  *)
(* manual restart, or a timer that fires after a run of ResetAfter.        *)
(* Every operation holds p.mu from its first to its last statement, so     *)
(* each is one action.  The timer callback is a goroutine of its own: once *)
(* fired it waits for p.mu, and Timer.Stop no longer reaches it.           *)
(***************************************************************************)
EXTENDS Integers

CONSTANTS
  Mode,         \* "never" or "on-failure"
  MaxAttempts,  \* settings.restart_max_attempts
  ResetAfter    \* settings.restart_reset_after_ms, 0 when no timer is armed

ASSUME PolicyAssumption ==
  /\ Mode \in {"never", "on-failure"}
  /\ MaxAttempts \in Nat
  /\ ResetAfter \in Nat

VARIABLES
  attempts,  \* p.attempts
  timer,     \* p.resetTimer: "none" (nil), "armed", or "fired" (non-nil, expired)
  firing     \* expired timers whose callback has not yet taken p.mu

policyVars == <<attempts, timer, firing>>

Decisions == {"none", "restart", "give-up"}

PolicyTypeOK ==
  /\ attempts \in 0 .. MaxAttempts
  /\ timer \in {"none", "armed", "fired"}
  /\ firing \in Nat

PolicyInit == attempts = 0 /\ timer = "none" /\ firing = 0

\* stopResetTimerLocked: an expired timer's callback is not called back.
StopResetTimer == timer' = "none"

\* OnStart stops the previous timer and arms a new one.
OnStart ==
  /\ timer' = IF ResetAfter > 0 THEN "armed" ELSE "none"
  /\ UNCHANGED <<attempts, firing>>

\* Mutant: the last attempt is not counted as the last.
DecisionOneMore(code) ==
  CASE code = 0 \/ Mode # "on-failure" -> "none"
    [] OTHER -> IF attempts > MaxAttempts THEN "give-up" ELSE "restart"

\* The decision OnExit takes for an exit code (0 is a clean exit; a signal
\* counts as a failure, code -1).
Decision(code) ==
  CASE code = 0 \/ Mode # "on-failure" -> "none"
    [] OTHER -> IF attempts >= MaxAttempts THEN "give-up" ELSE "restart"

\* Mutant: a restart costs nothing.
OnExitFree(code) ==
  /\ StopResetTimer
  /\ attempts' = IF code = 0 THEN 0 ELSE attempts
  /\ UNCHANGED firing

OnExit(code) ==
  /\ StopResetTimer
  /\ attempts' = IF code = 0 THEN 0
                 ELSE IF Decision(code) = "restart" THEN attempts + 1 ELSE attempts
  /\ UNCHANGED firing

ManualRestart ==
  /\ StopResetTimer
  /\ attempts' = 0
  /\ UNCHANGED firing

\* Mutant: an intentional stop refills the budget.
PolicyStopRefills == StopResetTimer /\ attempts' = 0 /\ UNCHANGED firing

PolicyStop == StopResetTimer /\ UNCHANGED <<attempts, firing>>

\* The runtime starts the AfterFunc goroutine.
TimerExpires ==
  /\ timer = "armed"
  /\ timer' = "fired"
  /\ firing' = firing + 1
  /\ UNCHANGED attempts

\* The AfterFunc body, once it has p.mu.
ResetAttempts ==
  /\ firing > 0
  /\ firing' = firing - 1
  /\ attempts' = 0
  /\ UNCHANGED timer
=============================================================================
