-------------------------- MODULE ChildProperties --------------------------
(***************************************************************************)
(* What one child promises: the properties of module Child.  Those that    *)
(* hold only of some environments (one client at a time, no Restart, no    *)
(* automatic restart) are checked in that environment, and the runs that   *)
(* widen it show how each of them is lost.                                 *)
(***************************************************************************)
EXTENDS Child

\* Processes that exist: started, and not yet waited for.
Unreaped == {i \in Inc : proc[i] \in {"alive", "dead"}}

\* Nobody is calling, and every run goroutine waits for a live process.
Quiet ==
  /\ ~panicked
  /\ \A c \in Callers : pc[c] = "ready"
  /\ \A i \in LiveRuns : pc[i] = "runRead" /\ proc[own[i]] = "alive"

\* Run goroutines that came back from a backoff and called Start.
Respawned == {i \in Inc : \/ pc[i] \in StartPcs
                          \/ pc[i] \in {"runRefused", "runCrashed", "runRespawned"}
                          \/ pc[i] = "done" /\ why[i] = "none"}

-----------------------------------------------------------------------------
(* Invariants *)

\* The WaitGroup that Manager.Close waits on counts the run goroutines exactly,
\* through respawns that Add for the next one before their own Done, refused
\* respawns, and the single deferred Done (child.go:151, 162-167, 315-320).
WgBalance == wg = Cardinality(LiveRuns)

\* A child never owns two processes at once (child.go:34 and the guard of
\* Start, child.go:110): Start is refused until the previous process is reaped.
SingleProcess == Cardinality(Unreaped) <= 1

\* No goroutine closes a closed waitDone channel or waits on a nil cmd
\* (child.go:169-170, 218-222): either would take the whole daemon down.
NoPanic == ~panicked

\* waitDone is closed only for a process that has been waited for, so that a
\* Stop which returns early did stop something (child.go:214-222,
\* signals.go:32-34).
ClosedMeansReaped == \A i \in closed : proc[i] = "reaped"

\* When all is quiet the PID the daemon publishes, and persists for orphan
\* detection, is that of the process that runs, or 0 when none does
\* (child.go:147, 238; server.go:225-236).
PidSettles ==
  Quiet => /\ Unreaped = {} => published.pid = 0
           /\ \A i \in Unreaped : published.pid = i

\* Without the stable-run timer, manual restarts or a clean exit, a child is
\* restarted at most MaxAttempts times in all: Stop, a refused Start and a new
\* Start do not refill the budget (restart.go:54-92).
RespawnBudget ==
  /\ ResetAfter = 0 /\ "Restart" \notin Ops
  /\ \A i \in Inc : proc[i] = "reaped" => code[i] # 0
  => Cardinality(Respawned) <= MaxAttempts

\* When all is quiet, what RuntimeStore shows (and a snapshot sends) is the
\* state the child is in (child.go:90-95; server.go:208-214).
MirrorSettles == Quiet => published.state = state

\* A child is left in "stopping" only while it has a process to stop
\* (child.go:240-248, 340).
StoppingEnds == Quiet /\ state = "stopping" => Unreaped # {}

\* A running process whose start is over has its stable-run timer armed, or
\* expired (restart.go:35-49, 104-108).
TimerArmed == Quiet /\ ResetAfter > 0 /\ Unreaped # {} => timer # "none"

-----------------------------------------------------------------------------
(* Action and liveness properties *)

\* Once a Stop has returned, and until somebody calls again, no process is
\* started: the stop suppresses the automatic restart (child.go:53, 240, 325).
StopSticks ==
  [][lastCall = "Stop" /\ (\A c \in Callers : pc[c] = "ready")
     => \A i \in Inc : proc[i] = "none" => proc'[i] = "none"]_vars

\* Stop returns, whatever the process does with SIGTERM and whatever the other
\* goroutines do with the child (signals.go:32-39).
StopReturned ==
  \A c \in Callers :
    pc[c] = "stopRead" ~> (pc[c] \in {"ready", "restartSleep"} \/ panicked)

\* A process that Stop signals is dead and waited for in the end, even when it
\* ignores SIGTERM (signals.go:29-39).
StopKills ==
  \A i \in Inc :
    (\E c \in Callers : pc[c] = "stopSignal" /\ held[c].cmd = i) ~> proc[i] = "reaped"

\* Both, under the same fairness.
StopEnds == StopReturned /\ StopKills

\* In a world where every process ends by itself, a child that nobody calls
\* any more comes to rest: a crash loop is not for ever (restart.go:76-79).
CrashLoopEnds == <>[](LiveRuns = {} \/ panicked)

ProcessesEnd == \A i \in Inc : WF_vars(ProcExits(i))
MortalSpec == FairSpec /\ ProcessesEnd
=============================================================================
