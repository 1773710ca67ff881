------------------------------- MODULE Child --------------------------------
(***************************************************************************)
(* One supervised child (internal/process/child.go): the goroutines that   *)
(* call Start, Stop and Restart on it, the run goroutine of each           *)
(* incarnation, the operating-system processes and the restart policy.     *)
(*                                                                         *)
(* Every command of a client is a goroutine of its own (Server.dispatch),  *)
(* so calls on one child interleave freely.  A step of the model is the    *)
(* code between two points where another goroutine can take the child's    *)
(* mutex, load stopRequested or receive from a channel.                    *)
(*                                                                         *)
(* An incarnation is one accepted Start: its number names the context, the *)
(* process, the waitDone channel and the run goroutine it creates.         *)
(*                                                                         *)
(* Abstracted: process output (line buffer, rings), the length of a        *)
(* backoff or a grace period (either may elapse at any time), the exit     *)
(* code (0 or 1) and a PTY that outlives its process in a grandchild,      *)
(* and the bounded event channel: published is what RuntimeStore holds     *)
(* once every event emitted so far has been applied.                       *)
(***************************************************************************)
EXTENDS Policy, FiniteSets

CONSTANTS
  Callers,     \* goroutines that call Start, Stop and Restart
  Ops,         \* the operations they call
  MaxSpawns,   \* bound: incarnations
  MaxCalls,    \* bound: calls
  Settles      \* TRUE: Restart's 50 ms sleep outlasts the child's run goroutines

ASSUME ChildAssumption ==
  /\ Ops \subseteq {"Start", "Stop", "Restart"}
  /\ MaxSpawns \in Nat /\ MaxCalls \in Nat
  /\ Settles \in BOOLEAN
  /\ Callers \cap Int = {}

Inc == 1 .. MaxSpawns
Threads == Callers \cup Inc

VARIABLES
  state,      \* c.state
  cmd,        \* c.cmd, c.ptmx and c.pid: the incarnation they belong to, 0 for nil
  waitDone,   \* c.waitDone: the incarnation whose channel it is, 0 for nil
  cancelFn,   \* c.cancelFn: the incarnation whose context it cancels, 0 for nil
  stopRequested, \* c.stopRequested
  closed,     \* waitDone channels that are closed
  cancelled,  \* contexts that are Done
  proc,       \* the process of each incarnation
  code,       \* its exit code, once it is dead
  killed,     \* processes that were sent SIGKILL
  wg,         \* the manager's childWg
  published,  \* the child's runtime record once all its events are applied
  panicked,   \* a goroutine panicked: the daemon is gone
  pc,         \* where each goroutine is
  own,        \* the incarnation a goroutine starts, or that its run loop serves
  held,       \* the cmd and the cancel func a Stop has read
  why,        \* how a run goroutine's incarnation ended
  op,         \* the call a caller is making
  spawns, calls, lastCall  \* incarnations, calls so far, and the last call made

childVars == <<state, cmd, waitDone, cancelFn, stopRequested>>
osVars == <<proc, code, killed>>
localVars == <<own, held, why, op>>
countVars == <<spawns, calls, lastCall>>
vars == <<policyVars, childVars, osVars, localVars, countVars,
          closed, cancelled, wg, published, panicked, pc>>

States == {"idle", "starting", "running", "stopping", "crashed",
           "restarting", "giving-up"}

\* The state each ending leaves the child in.
FinalState == [stopped   |-> "idle",       clean     |-> "idle",
               failed    |-> "crashed",    exhausted |-> "giving-up",
               cancelled |-> "idle"]

CallerPcs == {"ready", "stopRead", "stopCancel", "stopSet", "stopSignal",
              "stopWait", "restartSleep", "restartIdle"}
StartPcs == {"startEnter", "startCtx", "startSpawn", "startPublish",
             "startRunning", "startLaunch", "startAbort"}
RunPcs == {"runEnter", "runRead", "runExited", "runPolicy", "runClear", "runSet",
           "runReturn", "runRestarting", "runAnnounce", "runBackoff",
           "runRespawn", "runRefused", "runCrashed", "runRespawned"}
Labels == CallerPcs \cup StartPcs \cup RunPcs \cup {"none", "done"}
Endings == {"stopped", "clean", "failed", "exhausted", "cancelled"}
Operations == {"Start", "Stop", "Restart"}

TypeOK ==
  /\ PolicyTypeOK
  /\ state \in States
  /\ cmd \in Inc \cup {0} /\ waitDone \in Inc \cup {0} /\ cancelFn \in Inc \cup {0}
  /\ stopRequested \in BOOLEAN
  /\ closed \subseteq Inc /\ cancelled \subseteq Inc /\ killed \subseteq Inc
  /\ proc \in [Inc -> {"none", "alive", "dead", "reaped"}]
  /\ code \in [Inc -> {0, 1}]
  /\ wg \in Int
  /\ published \in [state : States, pid : Inc \cup {0}]
  /\ panicked \in BOOLEAN
  /\ pc \in [Threads -> Labels]
  /\ own \in [Threads -> Inc \cup {0}]
  /\ held \in [Callers -> [cmd : Inc \cup {0}, cancel : Inc \cup {0}]]
  /\ why \in [Inc -> {"none"} \cup Endings]
  /\ op \in [Callers -> {"none"} \cup Operations]
  /\ spawns \in 0 .. MaxSpawns /\ calls \in 0 .. MaxCalls
  /\ lastCall \in {"none"} \cup Operations

Init ==
  /\ PolicyInit
  /\ state = "idle" /\ cmd = 0 /\ waitDone = 0 /\ cancelFn = 0
  /\ stopRequested = FALSE
  /\ closed = {} /\ cancelled = {} /\ killed = {}
  /\ proc = [i \in Inc |-> "none"] /\ code = [i \in Inc |-> 0]
  /\ wg = 0
  /\ published = [state |-> "idle", pid |-> 0]
  /\ panicked = FALSE
  /\ pc = [t \in Threads |-> IF t \in Callers THEN "ready" ELSE "none"]
  /\ own = [t \in Threads |-> 0]
  /\ held = [c \in Callers |-> [cmd |-> 0, cancel |-> 0]]
  /\ why = [i \in Inc |-> "none"]
  /\ op = [c \in Callers |-> "none"]
  /\ spawns = 0 /\ calls = 0 /\ lastCall = "none"

-----------------------------------------------------------------------------
\* The goroutine t is at label l, in a daemon that has not panicked.
At(t, l) == pc[t] = l /\ ~panicked
Goto(t, l) == pc' = [pc EXCEPT ![t] = l]

\* emit(StateChangedEvent{s}): the send never blocks.
Publish(s) == published' = [published EXCEPT !.state = s]

\* Mutant: no Exited event.
PublishExitNot == UNCHANGED published

\* emit(ExitedEvent): the record's PID becomes 0.
PublishExit == published' = [published EXCEPT !.pid = 0]

\* The call of c returns; its local variables go out of scope.
Return(c) ==
  /\ Goto(c, "ready")
  /\ op' = [op EXCEPT ![c] = "none"]
  /\ own' = [own EXCEPT ![c] = 0]
  /\ held' = [held EXCEPT ![c] = [cmd |-> 0, cancel |-> 0]]

\* The run goroutines between their go statement and their wg.Done.
LiveRuns == {i \in Inc : pc[i] \notin {"none", "done"}}

\* Mutant: a path out of run without wg.Done.
DoneUncounted(i) ==
  /\ cancelled' = cancelled \cup {i}
  /\ own' = [own EXCEPT ![i] = 0]
  /\ Goto(i, "done")
  /\ UNCHANGED wg

\* A run goroutine ends: the deferred cancel, and wg.Done.
Done(i) ==
  /\ cancelled' = cancelled \cup {i}
  /\ wg' = wg - 1
  /\ own' = [own EXCEPT ![i] = 0]
  /\ Goto(i, "done")

\* The incarnations already promised to goroutines about to Start.
Promised ==
  Cardinality({t \in Threads :
    \/ pc[t] = "startEnter"
    \/ /\ t \in Callers
       /\ op[t] = "Restart"
       /\ pc[t] \notin StartPcs})

-----------------------------------------------------------------------------
(* Start *)

\* Mutant: a stopping child may be started again.
CanStartStopping == state \in {"idle", "crashed", "stopping"}
CanStart == state \in {"idle", "crashed"}

\* The guard and, in the same critical section, the claim.
StartEnter(t) ==
  /\ At(t, "startEnter")
  /\ CanStart
  /\ spawns < MaxSpawns
  /\ state' = "starting" /\ stopRequested' = FALSE
  /\ spawns' = spawns + 1
  /\ own' = [own EXCEPT ![t] = spawns']
  /\ Goto(t, "startCtx")
  /\ UNCHANGED <<policyVars, osVars, cmd, waitDone, cancelFn, held, why, op,
                 calls, lastCall, closed, cancelled, wg, published, panicked>>

\* "already in state": the caller gets an error, a respawning run goroutine
\* goes on to setState(crashed).
StartRefused(t) ==
  /\ At(t, "startEnter")
  /\ ~CanStart
  /\ IF t \in Callers THEN Return(t) ELSE Goto(t, "runRefused") /\ UNCHANGED <<op, own, held>>
  /\ UNCHANGED <<policyVars, childVars, osVars, why, countVars,
                 closed, cancelled, wg, published, panicked>>

StartCtx(t) ==
  /\ At(t, "startCtx")
  /\ cancelFn' = own[t]
  /\ Goto(t, "startSpawn")
  /\ UNCHANGED <<policyVars, state, cmd, waitDone, stopRequested, osVars,
                 localVars, countVars, closed, cancelled, wg, published, panicked>>

StartSpawn(t) ==
  /\ At(t, "startSpawn")
  /\ proc' = [proc EXCEPT ![own[t]] = "alive"]
  /\ Goto(t, "startPublish")
  /\ UNCHANGED <<policyVars, childVars, code, killed, localVars, countVars,
                 closed, cancelled, wg, published, panicked>>

\* BuildEnv or startPTY fails (only the latter cancels the context).
StartSpawnFails(t) ==
  /\ At(t, "startSpawn")
  /\ \/ UNCHANGED cancelled
     \/ cancelled' = cancelled \cup {own[t]}
  /\ state' = "idle"
  /\ Goto(t, "startAbort")
  /\ UNCHANGED <<policyVars, cmd, waitDone, cancelFn, stopRequested, osVars,
                 localVars, countVars, closed, wg, published, panicked>>

StartAbort(t) ==
  /\ At(t, "startAbort")
  /\ Publish("idle")
  /\ IF t \in Callers THEN Return(t) ELSE Goto(t, "runRefused") /\ UNCHANGED <<op, own, held>>
  /\ UNCHANGED <<policyVars, childVars, osVars, why, countVars,
                 closed, cancelled, wg, panicked>>

StartPublish(t) ==
  /\ At(t, "startPublish")
  /\ cmd' = own[t] /\ waitDone' = own[t]
  /\ Goto(t, "startRunning")
  /\ UNCHANGED <<policyVars, state, cancelFn, stopRequested, osVars, localVars,
                 countVars, closed, cancelled, wg, published, panicked>>

StartRunning(t) ==
  /\ At(t, "startRunning")
  /\ state' = "running"
  /\ Goto(t, "startLaunch")
  /\ UNCHANGED <<policyVars, cmd, waitDone, cancelFn, stopRequested, osVars,
                 localVars, countVars, closed, cancelled, wg, published, panicked>>

\* Both events (StateChanged, Started) carry "running"; then wg.Add and go run.
StartLaunch(t) ==
  /\ At(t, "startLaunch")
  /\ published' = [state |-> "running", pid |-> own[t]]
  /\ OnStart
  /\ wg' = wg + 1
  /\ pc' = [pc EXCEPT ![t] = IF t \in Callers THEN "ready" ELSE "runRespawned",
                      ![own[t]] = "runEnter"]
  /\ own' = [own EXCEPT ![t] = 0]
  /\ op' = IF t \in Callers THEN [op EXCEPT ![t] = "none"] ELSE op
  /\ held' = IF t \in Callers
             THEN [held EXCEPT ![t] = [cmd |-> 0, cancel |-> 0]] ELSE held
  /\ UNCHANGED <<childVars, osVars, why, countVars, closed,
                 cancelled, panicked>>

-----------------------------------------------------------------------------
(* run: the goroutine of incarnation i *)

\* Reads c.ptmx and c.cmd without the lock: if another goroutine has cleared
\* them, cmd.Wait dereferences nil.
RunEnter(i) ==
  /\ At(i, "runEnter")
  /\ IF cmd = 0
     THEN panicked' = TRUE /\ UNCHANGED <<own, pc>>
     ELSE /\ own' = [own EXCEPT ![i] = cmd]
          /\ Goto(i, "runRead")
          /\ UNCHANGED panicked
  /\ UNCHANGED <<policyVars, childVars, osVars, held, why, op, countVars, closed,
                 cancelled, wg, published>>

\* The PTY is at its end and cmd.Wait returns; then close(c.waitDone), of
\* whatever channel is the child's by now.
RunReap(i) ==
  /\ At(i, "runRead")
  /\ proc[own[i]] \in {"dead", "reaped"}
  /\ proc' = [proc EXCEPT ![own[i]] = "reaped"]
  /\ IF waitDone \in closed
     THEN panicked' = TRUE /\ UNCHANGED <<closed, pc>>
     ELSE /\ closed' = closed \cup ({waitDone} \ {0})
          /\ Goto(i, "runExited")
          /\ UNCHANGED panicked
  /\ UNCHANGED <<policyVars, childVars, code, killed, localVars, countVars,
                 cancelled, wg, published>>

\* The Exited event, then the look at stopRequested.
RunExited(i) ==
  /\ At(i, "runExited")
  /\ PublishExit
  /\ IF stopRequested
     THEN why' = [why EXCEPT ![i] = "stopped"] /\ Goto(i, "runClear")
     ELSE Goto(i, "runPolicy") /\ UNCHANGED why
  /\ UNCHANGED <<policyVars, childVars, osVars, own, held, op, countVars, closed,
                 cancelled, wg, panicked>>

RunPolicy(i) ==
  /\ At(i, "runPolicy")
  /\ OnExit(code[own[i]])
  /\ LET d == Decision(code[own[i]]) IN
     IF d = "restart"
     THEN Goto(i, "runRestarting") /\ UNCHANGED why
     ELSE /\ why' = [why EXCEPT ![i] = CASE d = "give-up" -> "exhausted"
                                         [] code[own[i]] = 0 -> "clean"
                                         [] OTHER -> "failed"]
          /\ Goto(i, "runClear")
  /\ UNCHANGED <<childVars, osVars, own, held, op, countVars, closed, cancelled,
                 wg, published, panicked>>

RunClear(i) ==
  /\ At(i, "runClear")
  /\ cmd' = 0
  /\ Goto(i, "runSet")
  /\ UNCHANGED <<policyVars, state, waitDone, cancelFn, stopRequested, osVars,
                 localVars, countVars, closed, cancelled, wg, published, panicked>>

RunSet(i) ==
  /\ At(i, "runSet")
  /\ state' = FinalState[why[i]]
  /\ Goto(i, "runReturn")
  /\ UNCHANGED <<policyVars, cmd, waitDone, cancelFn, stopRequested, osVars,
                 localVars, countVars, closed, cancelled, wg, published, panicked>>

\* The event of that state, policy.Stop after a requested stop, and the
\* deferred cancel and wg.Done.
RunReturn(i) ==
  /\ At(i, "runReturn")
  /\ Publish(FinalState[why[i]])
  /\ IF why[i] = "stopped" THEN PolicyStop ELSE UNCHANGED policyVars
  /\ Done(i)
  /\ UNCHANGED <<childVars, osVars, held, why, op, countVars, closed, panicked>>

RunRestarting(i) ==
  /\ At(i, "runRestarting")
  /\ state' = "restarting"
  /\ Goto(i, "runAnnounce")
  /\ UNCHANGED <<policyVars, cmd, waitDone, cancelFn, stopRequested, osVars,
                 localVars, countVars, closed, cancelled, wg, published, panicked>>

\* StateChanged, and Restarting, which carries no state.
RunAnnounce(i) ==
  /\ At(i, "runAnnounce")
  /\ Publish("restarting")
  /\ Goto(i, "runBackoff")
  /\ UNCHANGED <<policyVars, childVars, osVars, localVars, countVars, closed,
                 cancelled, wg, panicked>>

\* Mutant: run does not come back from a backoff that was cancelled.
RunBackoffCancelledStays(i) == FALSE

\* The context is Done during the delay or at the check that follows it.
RunBackoffCancelled(i) ==
  /\ At(i, "runBackoff")
  /\ i \in cancelled
  /\ why' = [why EXCEPT ![i] = "cancelled"]
  /\ Goto(i, "runClear")
  /\ UNCHANGED <<policyVars, childVars, osVars, own, held, op, countVars, closed,
                 cancelled, wg, published, panicked>>

RunBackoffElapsed(i) ==
  /\ At(i, "runBackoff")
  /\ i \notin cancelled
  /\ spawns + Promised < MaxSpawns
  /\ Goto(i, "runRespawn")
  /\ UNCHANGED <<policyVars, childVars, osVars, localVars, countVars, closed,
                 cancelled, wg, published, panicked>>

\* Clears the child and makes it idle (no event), then calls Start.
RunRespawn(i) ==
  /\ At(i, "runRespawn")
  /\ cmd' = 0 /\ state' = "idle"
  /\ Goto(i, "startEnter")
  /\ UNCHANGED <<policyVars, waitDone, cancelFn, stopRequested, osVars, localVars,
                 countVars, closed, cancelled, wg, published, panicked>>

\* Start failed: setState(crashed).
RunRefused(i) ==
  /\ At(i, "runRefused")
  /\ state' = "crashed"
  /\ Goto(i, "runCrashed")
  /\ UNCHANGED <<policyVars, cmd, waitDone, cancelFn, stopRequested, osVars,
                 localVars, countVars, closed, cancelled, wg, published, panicked>>

\* wg.Done by hand, and the deferred cancel: restarting is set.
RunRespawned(i) ==
  /\ \/ At(i, "runRespawned") /\ UNCHANGED published
     \/ At(i, "runCrashed") /\ Publish("crashed")
  /\ Done(i)
  /\ UNCHANGED <<policyVars, childVars, osVars, held, why, op, countVars, closed,
                 panicked>>

-----------------------------------------------------------------------------
(* Calls, and Stop *)

CallStart(c) ==
  /\ At(c, "ready") /\ "Start" \in Ops
  /\ calls < MaxCalls /\ spawns + Promised < MaxSpawns
  /\ calls' = calls + 1 /\ lastCall' = "Start"
  /\ op' = [op EXCEPT ![c] = "Start"]
  /\ Goto(c, "startEnter")
  /\ UNCHANGED <<policyVars, childVars, osVars, own, held, why, spawns, closed,
                 cancelled, wg, published, panicked>>

\* Stop begins with stopRequested.Store(1), and Restart begins with Stop.
CallStop(c, o) ==
  /\ At(c, "ready") /\ o \in Ops
  /\ calls < MaxCalls /\ (o = "Restart" => spawns + Promised < MaxSpawns)
  /\ calls' = calls + 1 /\ lastCall' = o
  /\ op' = [op EXCEPT ![c] = o]
  /\ stopRequested' = TRUE
  /\ Goto(c, "stopRead")
  /\ UNCHANGED <<policyVars, state, cmd, waitDone, cancelFn, osVars, own, held, why,
                 spawns, closed, cancelled, wg, published, panicked>>

StopRead(c) ==
  /\ At(c, "stopRead")
  /\ held' = [held EXCEPT ![c] = [cmd |-> cmd, cancel |-> cancelFn]]
  /\ Goto(c, "stopCancel")
  /\ UNCHANGED <<policyVars, childVars, osVars, own, why, op, countVars, closed,
                 cancelled, wg, published, panicked>>

StopReturns(c) ==
  IF op[c] = "Restart" THEN Goto(c, "restartSleep") /\ UNCHANGED <<op, own, held>> ELSE Return(c)

\* cancel(), and nothing more if there was no process.
StopCancel(c) ==
  /\ At(c, "stopCancel")
  /\ cancelled' = cancelled \cup ({held[c].cancel} \ {0})
  /\ IF held[c].cmd = 0 THEN StopReturns(c) ELSE Goto(c, "stopSet") /\ UNCHANGED <<op, own, held>>
  /\ UNCHANGED <<policyVars, childVars, osVars, why, countVars, closed,
                 wg, published, panicked>>

StopSet(c) ==
  /\ At(c, "stopSet")
  /\ state' = "stopping"
  /\ Goto(c, "stopSignal")
  /\ UNCHANGED <<policyVars, cmd, waitDone, cancelFn, stopRequested, osVars,
                 localVars, countVars, closed, cancelled, wg, published, panicked>>

\* gracefulStop: SIGTERM to the group, unless Getpgid finds no such process.
StopSignal(c) ==
  /\ At(c, "stopSignal")
  /\ Publish("stopping")
  /\ IF proc[held[c].cmd] = "reaped"
     THEN StopReturns(c)
     ELSE Goto(c, "stopWait") /\ UNCHANGED <<op, own, held>>
  /\ UNCHANGED <<policyVars, childVars, osVars, why, countVars, closed,
                 cancelled, wg, panicked>>

StopDone(c) ==
  /\ At(c, "stopWait")
  /\ held[c].cmd \in closed
  /\ StopReturns(c)
  /\ UNCHANGED <<policyVars, childVars, osVars, why, countVars, closed,
                 cancelled, wg, published, panicked>>

\* Mutant: gracefulStop waits for done alone.
StopGraceNever(c) == FALSE

\* The grace period is over: SIGKILL, and Stop does not wait for its effect.
StopGrace(c) ==
  /\ At(c, "stopWait")
  /\ killed' = killed \cup {held[c].cmd}
  /\ StopReturns(c)
  /\ UNCHANGED <<policyVars, childVars, proc, code, why, countVars,
                 closed, cancelled, wg, published, panicked>>

-----------------------------------------------------------------------------
(* Restart, after its Stop *)

\* The sleep is over: stopRequested.Store(0) and policy.ManualRestart.
RestartReset(c) ==
  /\ At(c, "restartSleep")
  /\ Settles => LiveRuns = {}
  /\ stopRequested' = FALSE
  /\ ManualRestart
  /\ Goto(c, "restartIdle")
  /\ UNCHANGED <<state, cmd, waitDone, cancelFn, osVars, localVars, countVars,
                 closed, cancelled, wg, published, panicked>>

\* The state becomes idle whatever it was (no event), then Start.
RestartIdle(c) ==
  /\ At(c, "restartIdle")
  /\ state' = "idle"
  /\ Goto(c, "startEnter")
  /\ UNCHANGED <<policyVars, cmd, waitDone, cancelFn, stopRequested, osVars,
                 localVars, countVars, closed, cancelled, wg, published, panicked>>

-----------------------------------------------------------------------------
(* The operating system and the clock *)

\* A process ends when it likes; one that was sent SIGKILL ends with a signal.
ProcExits(i) ==
  /\ ~panicked /\ proc[i] = "alive"
  /\ proc' = [proc EXCEPT ![i] = "dead"]
  /\ \E x \in IF i \in killed THEN {1} ELSE {0, 1} : code' = [code EXCEPT ![i] = x]
  /\ UNCHANGED <<policyVars, childVars, killed, localVars, countVars, closed,
                 cancelled, wg, published, panicked, pc>>

ResetTimer ==
  /\ ~panicked
  /\ TimerExpires \/ ResetAttempts
  /\ UNCHANGED <<childVars, osVars, localVars, countVars, closed, cancelled, wg,
                 published, panicked, pc>>

-----------------------------------------------------------------------------
StartStep(t) ==
  \/ StartEnter(t) \/ StartRefused(t) \/ StartCtx(t) \/ StartSpawn(t)
  \/ StartSpawnFails(t) \/ StartAbort(t) \/ StartPublish(t)
  \/ StartRunning(t) \/ StartLaunch(t)

RunStep(i) ==
  \/ RunEnter(i) \/ RunReap(i) \/ RunExited(i) \/ RunPolicy(i) \/ RunClear(i)
  \/ RunSet(i) \/ RunReturn(i) \/ RunRestarting(i) \/ RunAnnounce(i)
  \/ RunBackoffCancelled(i) \/ RunBackoffElapsed(i) \/ RunRespawn(i)
  \/ RunRefused(i) \/ RunRespawned(i)

StopStep(c) ==
  \/ StopRead(c) \/ StopCancel(c) \/ StopSet(c) \/ StopSignal(c)
  \/ StopDone(c) \/ StopGrace(c) \/ RestartReset(c) \/ RestartIdle(c)

Call(c) == CallStart(c) \/ \E o \in {"Stop", "Restart"} : CallStop(c, o)

Next ==
  \/ \E t \in Threads : StartStep(t)
  \/ \E i \in Inc : RunStep(i)
  \/ \E c \in Callers : StopStep(c) \/ Call(c)
  \/ \E i \in Inc : ProcExits(i)
  \/ ResetTimer

Spec == Init /\ [][Next]_vars

\* Goroutines that can run do run, a grace period and a backoff end, SIGKILL
\* kills.  Nobody has to call anything and no process has to end by itself.
Fairness ==
  /\ \A t \in Threads : WF_vars(StartStep(t))
  /\ \A i \in Inc : WF_vars(RunStep(i)) /\ WF_vars(i \in killed /\ ProcExits(i))
  /\ \A c \in Callers : WF_vars(StopStep(c))

FairSpec == Spec /\ Fairness
=============================================================================
