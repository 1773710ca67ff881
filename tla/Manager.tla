------------------------------ MODULE Manager -------------------------------
(***************************************************************************)
(* The manager (internal/process/manager.go): the map of children, the     *)
(* commands that run on it, each in a goroutine of its own                 *)
(* (Server.dispatch), the children with their processes and run goroutines *)
(* (child.go), a reload of the configuration with the server's share of it *)
(* (Server.handleReload), the runtime store that the source goroutine      *)
(* brings up to date, and Close.                                           *)
(*                                                                         *)
(* A step is the code between two points where another goroutine can take  *)
(* m.mu, c.mu, s.cfgMu or the store's mutex.  Every project has the policy *)
(* "never" (restarts are in Child), so that what decides them is left out: *)
(* stopRequested, the contexts, the difference of crashed and idle.  A     *)
(* child is an object: a project may have an old one beside its new one.   *)
(* An incarnation is a process with its *exec.Cmd, waitDone and run        *)
(* goroutine; its number is its PID.                                       *)
(***************************************************************************)
EXTENDS Integers, FiniteSets, SequencesExt

CONSTANTS
  Projects,
  Configs,      \* configurations the file may hold: [projects, group]
  Cmds,         \* goroutines that run a command
  Ops,          \* the commands
  EventCap,     \* eventsBufSize less the events that carry no PID: 0, always full
  MaxChildren, MaxSpawns, MaxCommands,   \* bounds: objects, incarnations, commands (see Weight)
  (* What the environment does to the manager, not what the code sees to. *)
  Alone,        \* commands with no other one beside them, Close being the last
  Overlap,      \* a Restart may run beside another start of its project
  Settles,      \* the sleep of a Restart outlasts a run goroutine whose process is gone
  KeepsUp       \* the source goroutine never lets the channel fill up

Objects == 1 .. MaxChildren
Inc == 1 .. MaxSpawns

ASSUME ManagerAssumption ==
  /\ "none" \notin Projects
  /\ \A c \in Configs : DOMAIN c.projects \subseteq Projects /\ c.group \in Seq(Projects)
  /\ Ops \subseteq {"Start", "Stop", "Restart", "StartGroup", "StopAll", "Reload", "Close"}
  /\ MaxChildren \in Nat /\ MaxSpawns \in Nat /\ MaxCommands \in Nat
  /\ EventCap \in Nat
  /\ KeepsUp \in BOOLEAN /\ Overlap \in BOOLEAN /\ Settles \in BOOLEAN

VARIABLES
  cfg,       \* m.cfg
  srvCfg,    \* s.cfg
  children,  \* m.children: the object of a project, 0 for none
  child,     \* the objects: c.ID, c.cfg, c.state, c.cmd and c.waitDone
  proc,      \* the incarnations: object, process, run goroutine, waitDone closed
  closed,    \* m.closed
  events,    \* m.events: the events in it that carry a PID
  open,      \* that channel is not closed
  panicked,  \* the daemon has panicked
  rt,        \* the runtime store: the PID of a record, or Absent
  late,      \* projects last told of by the exit of a child that a reload had dropped
  cmd,       \* the commands under way
  begun      \* what the commands begun so far come to

objVars == <<children, child, proc>>
cfgVars == <<cfg, srvCfg>>
chanVars == <<events, panicked>>
vars == <<cfgVars, objVars, closed, chanVars, open, rt, late, cmd, begun>>

Absent == -1

Idle == [op |-> "none", pc |-> "ready", list |-> <<>>, obj |-> 0, inc |-> 0,
         todo |-> {}, found |-> {}, held |-> {}, waits |-> {}, gone |-> {},
         new |-> CHOOSE c \in Configs : TRUE, seed |-> {}, drop |-> {}]

NoChild == [id |-> "none", def |-> 0, state |-> "idle", cmd |-> 0, waitDone |-> 0]
NoProc == [obj |-> 0, os |-> "none", run |-> "none", serves |-> 0, done |-> FALSE]

Init ==
  /\ cfg \in Configs /\ srvCfg = cfg
  /\ children = [p \in Projects |-> 0]
  /\ child = [o \in Objects |-> NoChild]
  /\ proc = [i \in Inc |-> NoProc]
  /\ closed = FALSE /\ events = <<>> /\ open = TRUE /\ panicked = FALSE
  /\ rt = [p \in Projects |-> IF p \in DOMAIN cfg.projects THEN 0 ELSE Absent]
  /\ cmd = [g \in Cmds |-> Idle] /\ begun = 0 /\ late = {}

-----------------------------------------------------------------------------
(* Events *)

\* Child.emit, which drops the event if the channel is full (events without a
\* PID take room in it too) and panics if it is closed.
Emit(p, i) ==
  /\ panicked' = (panicked \/ ~open)
  /\ \/ /\ open /\ Len(events) < EventCap
        /\ events' = Append(events, [id |-> p, pid |-> i])
     \/ /\ ~open \/ ~KeepsUp
        /\ UNCHANGED events

\* The same for a StateChanged event, of which only the panic matters here.
Announce == panicked' = (panicked \/ ~open) /\ UNCHANGED events

\* The source goroutine applies an event; the store creates what it lacks.
SourceApplies ==
  /\ ~panicked /\ events # <<>>
  /\ rt' = [rt EXCEPT ![Head(events).id] = Head(events).pid]
  /\ events' = Tail(events)
  /\ UNCHANGED <<cfgVars, objVars, closed, panicked, open, late, cmd, begun>>

-----------------------------------------------------------------------------
(* A process and its run goroutine *)

\* The process ends, by itself or because it was told to.
ProcEnds(i) ==
  /\ ~panicked /\ proc[i].os \in {"alive", "killed"}
  /\ proc' = [proc EXCEPT ![i].os = "dead"]
  /\ UNCHANGED <<cfgVars, children, child, closed, chanVars, open, rt, late, cmd, begun>>

RunAt(i, l) == ~panicked /\ proc[i].run = l
Running(i) == proc[i].run \notin {"none", "done"}

\* Its process is gone, or SIGKILL is on its way: it has only to clean up.
Leaving(i) == Running(i) /\ proc[i].os # "alive"

\* Reads c.cmd without the lock; Wait on a nil one panics.
RunEnter(i) ==
  /\ RunAt(i, "enter")
  /\ LET c == child[proc[i].obj].cmd IN
     IF c = 0 THEN panicked' = TRUE /\ UNCHANGED proc
     ELSE proc' = [proc EXCEPT ![i].run = "read", ![i].serves = c] /\ UNCHANGED panicked
  /\ UNCHANGED <<cfgVars, children, child, closed, events, open, rt, late, cmd, begun>>

\* The PTY is at its end, cmd.Wait returns, and whatever channel c.waitDone is
\* by now is closed; to close it a second time panics.
RunReap(i) ==
  /\ RunAt(i, "read")
  /\ proc[proc[i].serves].os \in {"dead", "reaped"}
  /\ LET w == child[proc[i].obj].waitDone
         reaped == [proc EXCEPT ![proc[i].serves].os = "reaped"] IN
     IF proc[w].done THEN panicked' = TRUE /\ UNCHANGED proc
     ELSE /\ proc' = [reaped EXCEPT ![w].done = TRUE, ![i].run = "exited"]
          /\ UNCHANGED panicked
  /\ UNCHANGED <<cfgVars, children, child, closed, events, open, rt, late, cmd, begun>>

\* Mutant: run returns without its Exited event.
RunExitedSilent(i) ==
  /\ RunAt(i, "exited")
  /\ proc' = [proc EXCEPT ![i].run = "clear"]
  /\ UNCHANGED <<cfgVars, children, child, closed, chanVars, open, rt, late, cmd, begun>>

RunExited(i) ==
  /\ RunAt(i, "exited")
  /\ proc' = [proc EXCEPT ![i].run = "clear"]
  /\ LET p == child[proc[i].obj].id IN
     Emit(p, 0) /\ late' = IF children[p] \in {0, proc[i].obj} THEN late ELSE late \cup {p}
  /\ UNCHANGED <<cfgVars, children, child, closed, open, rt, cmd, begun>>

RunClear(i) ==
  /\ RunAt(i, "clear")
  /\ proc' = [proc EXCEPT ![i].run = "set"]
  /\ child' = [child EXCEPT ![proc[i].obj].cmd = 0]
  /\ UNCHANGED <<cfgVars, children, closed, chanVars, open, rt, late, cmd, begun>>

\* setState, idle or crashed: its assignment, ...
RunSet(i) ==
  /\ RunAt(i, "set")
  /\ proc' = [proc EXCEPT ![i].run = "return"]
  /\ child' = [child EXCEPT ![proc[i].obj].state = "idle"]
  /\ UNCHANGED <<cfgVars, children, closed, chanVars, open, rt, late, cmd, begun>>

\* ... its event, and wg.Done.
RunReturn(i) ==
  /\ RunAt(i, "return")
  /\ proc' = [proc EXCEPT ![i].run = "done"]
  /\ Announce
  /\ UNCHANGED <<cfgVars, children, child, closed, open, rt, late, cmd, begun>>

-----------------------------------------------------------------------------
(* Commands *)

At(g, l) == ~panicked /\ cmd[g].pc = l
Busy == {g \in Cmds : cmd[g].pc # "ready"}
Created == {o \in Objects : child[o].id # "none"}

\* A Restart and a start with a project in common.
Collide(o, l, h) ==
  /\ "Restart" \in {o, cmd[h].op} /\ ToSet(l) \cap ToSet(cmd[h].list) # {}

\* What a command counts for in the bound: the last one nothing, and a reload
\* half, so that a project can go and come back between two starts.
Weight(o) == IF o = "Close" THEN 0 ELSE IF o = "Reload" THEN 1 ELSE 2

Begin(g, o, r) ==
  /\ At(g, "ready") /\ o \in Ops /\ begun + Weight(o) <= MaxCommands
  /\ o \in Alone => Busy = {}
  /\ "Close" \in Alone => ~closed
  /\ \A h \in Busy : cmd[h].op \notin Alone /\ (Overlap \/ ~Collide(o, r.list, h))
  /\ cmd' = [cmd EXCEPT ![g] = [r EXCEPT !.op = o]]
  /\ begun' = begun + Weight(o)
  /\ UNCHANGED <<cfgVars, objVars, chanVars, open, rt, late>>

BeginStart(g, p) ==
  /\ \E o \in {"Start", "Restart"} : Begin(g, o, [Idle EXCEPT !.pc = "get", !.list = <<p>>])
  /\ UNCHANGED closed

\* The members are those of the configuration now.
BeginStartGroup(g) ==
  /\ Begin(g, "StartGroup", [Idle EXCEPT !.pc = "get", !.list = cfg.group])
  /\ cfg.group # <<>>
  /\ UNCHANGED closed

BeginStop(g, p) ==
  /\ Begin(g, "Stop", [Idle EXCEPT !.pc = "stop", !.todo = {p}])
  /\ UNCHANGED closed

BeginStopAll(g) == Begin(g, "StopAll", [Idle EXCEPT !.pc = "ids"]) /\ UNCHANGED closed

\* Once closed, the manager stays so; nothing else looks at the flag.
BeginClose(g) ==
  /\ ~closed /\ closed' = TRUE
  /\ Begin(g, "Close", [Idle EXCEPT !.pc = "ids"])

\* handleReload reads the file, which the user may have edited.
BeginReload(g) ==
  /\ \E c \in Configs : Begin(g, "Reload", [Idle EXCEPT !.pc = "swap", !.new = c])
  /\ UNCHANGED closed

-----------------------------------------------------------------------------
(* Start, StartGroup, Restart *)

\* getOrCreate: an existing child, with the definition it was made with, or a
\* new one, or an error, which ends the command.  Restart goes to its Stop.
GetOrCreate(g) ==
  /\ At(g, "get")
  /\ LET p == Head(cmd[g].list)
         fresh == Cardinality(Created) + 1
         o == IF children[p] # 0 THEN children[p] ELSE fresh IN
     IF children[p] = 0 /\ p \notin DOMAIN cfg.projects
     THEN cmd' = [cmd EXCEPT ![g] = Idle] /\ UNCHANGED objVars
     ELSE /\ o \in Objects
          /\ children' = [children EXCEPT ![p] = o]
          /\ child' = IF children[p] # 0 THEN child
                      ELSE [child EXCEPT ![o] = [NoChild EXCEPT !.id = p, !.def = cfg.projects[p]]]
          /\ cmd' = [cmd EXCEPT ![g] =
               IF @.op = "Restart" THEN [@ EXCEPT !.obj = o, !.pc = "stop", !.found = {o}]
                                   ELSE [@ EXCEPT !.obj = o, !.pc = "enter"]]
          /\ UNCHANGED proc
  /\ UNCHANGED <<cfgVars, closed, chanVars, open, rt, late, begun>>

\* The guard of Child.Start and, in the same critical section, its claim; a
\* refusal ends StartGroup too.
StartEnter(g) ==
  /\ At(g, "enter")
  /\ IF child[cmd[g].obj].state = "idle"
     THEN /\ child' = [child EXCEPT ![cmd[g].obj].state = "starting"]
          /\ cmd' = [cmd EXCEPT ![g].pc = "spawn"]
     ELSE cmd' = [cmd EXCEPT ![g] = Idle] /\ UNCHANGED child
  /\ UNCHANGED <<cfgVars, children, proc, closed, chanVars, open, rt, late, begun>>

\* startPTY, and c.cmd and c.waitDone; nobody knows the process before that.
StartSpawn(g) ==
  /\ At(g, "spawn")
  /\ \E i \in Inc :
       /\ proc[i].os = "none" /\ \A j \in 1 .. i - 1 : proc[j].os # "none"
       /\ proc' = [proc EXCEPT ![i] = [NoProc EXCEPT !.obj = cmd[g].obj, !.os = "alive"]]
       /\ child' = [child EXCEPT ![cmd[g].obj] = [@ EXCEPT !.cmd = i, !.waitDone = i]]
       /\ cmd' = [cmd EXCEPT ![g] = [@ EXCEPT !.inc = i, !.pc = "running"]]
  /\ UNCHANGED <<cfgVars, children, closed, chanVars, open, rt, late, begun>>

\* The environment cannot be built or startPTY fails: setState(idle), ...
StartFails(g) ==
  /\ At(g, "spawn")
  /\ child' = [child EXCEPT ![cmd[g].obj].state = "idle"]
  /\ cmd' = [cmd EXCEPT ![g].pc = "abort"]
  /\ UNCHANGED <<cfgVars, children, proc, closed, chanVars, open, rt, late, begun>>

\* ... its event, and the error, which ends the command.
StartAbort(g) ==
  /\ At(g, "abort")
  /\ Announce
  /\ cmd' = [cmd EXCEPT ![g] = Idle]
  /\ UNCHANGED <<cfgVars, objVars, closed, open, rt, late, begun>>

StartRunning(g) ==
  /\ At(g, "running")
  /\ child' = [child EXCEPT ![cmd[g].obj].state = "running"]
  /\ cmd' = [cmd EXCEPT ![g].pc = "launch"]
  /\ UNCHANGED <<cfgVars, children, proc, closed, chanVars, open, rt, late, begun>>

\* StateChanged and Started, wg.Add, go run; and StartGroup's next member.
StartLaunch(g) ==
  /\ At(g, "launch")
  /\ Emit(child[cmd[g].obj].id, cmd[g].inc)
  /\ late' = late \ {child[cmd[g].obj].id}
  /\ proc' = [proc EXCEPT ![cmd[g].inc].run = "enter"]
  /\ cmd' = IF Len(cmd[g].list) = 1 THEN [cmd EXCEPT ![g] = Idle]
            ELSE [cmd EXCEPT ![g].pc = "get", ![g].list = Tail(@), ![g].obj = 0, ![g].inc = 0]
  /\ UNCHANGED <<cfgVars, children, child, closed, open, rt, begun>>

\* Restart's sleep is over: the child is made idle, whatever it was.
RestartAgain(g) ==
  /\ At(g, "again")
  /\ Settles => \A i \in Inc : proc[i].obj = cmd[g].obj => ~Leaving(i)
  /\ child' = [child EXCEPT ![cmd[g].obj].state = "idle"]
  /\ cmd' = [cmd EXCEPT ![g].pc = "enter"]
  /\ UNCHANGED <<cfgVars, children, proc, closed, chanVars, open, rt, late, begun>>

-----------------------------------------------------------------------------
(* Child.Stop, once for Stop and Restart, in a goroutine per child for StopAll *)
(* and Close, in a loop for Reload.                                            *)

\* Mutant: the ids are taken before the lock.
StopIdsNone(g) ==
  /\ At(g, "ids")
  /\ cmd' = [cmd EXCEPT ![g].pc = "stop"]
  /\ UNCHANGED <<cfgVars, objVars, closed, chanVars, open, rt, late, begun>>

\* The ids, under the lock; each gets a goroutine.
StopIds(g) ==
  /\ At(g, "ids")
  /\ cmd' = [cmd EXCEPT ![g].pc = "stop", ![g].todo = {p \in Projects : children[p] # 0}]
  /\ UNCHANGED <<cfgVars, objVars, closed, chanVars, open, rt, late, begun>>

\* The child is looked up, if it is still in the map.  Reload takes the next
\* when it has dropped the entry of the last.
StopLookup(g, p) ==
  /\ At(g, "stop") /\ p \in cmd[g].todo
  /\ cmd[g].op = "Reload" =>
       cmd[g].found = {} /\ cmd[g].held = {} /\ cmd[g].waits = {} /\ cmd[g].gone = {}
  /\ cmd' = [cmd EXCEPT ![g].todo = @ \ {p}, ![g].found = @ \cup ({children[p]} \ {0})]
  /\ UNCHANGED <<cfgVars, objVars, closed, chanVars, open, rt, late, begun>>

\* What is left of a call of Stop on o once it has returned.
Gone(g, o) == IF cmd[g].op = "Reload" THEN {o} ELSE {}

\* c.cmd is read under the lock; no process, nothing to do.
StopRead(g, o) ==
  /\ At(g, "stop") /\ o \in cmd[g].found
  /\ LET i == child[o].cmd IN
     cmd' = IF i = 0 THEN [cmd EXCEPT ![g].found = @ \ {o}, ![g].gone = @ \cup Gone(g, o)]
                     ELSE [cmd EXCEPT ![g].found = @ \ {o}, ![g].held = @ \cup {i}]
  /\ UNCHANGED <<cfgVars, objVars, closed, chanVars, open, rt, late, begun>>

\* setState(stopping), whatever has become of the child since, and SIGTERM,
\* which the process may ignore; if there is none any more, Stop returns.
StopSet(g, i) ==
  /\ At(g, "stop") /\ i \in cmd[g].held
  /\ child' = [child EXCEPT ![proc[i].obj].state = "stopping"]
  /\ Announce
  /\ cmd' = IF proc[i].os = "reaped"
            THEN [cmd EXCEPT ![g].held = @ \ {i}, ![g].gone = @ \cup Gone(g, proc[i].obj)]
            ELSE [cmd EXCEPT ![g].held = @ \ {i}, ![g].waits = @ \cup {i}]
  /\ UNCHANGED <<cfgVars, children, proc, closed, open, rt, late, begun>>

\* The process has been reaped, or the grace period is over and SIGKILL sent.
StopReturns(g, i) ==
  /\ (At(g, "stop") \/ At(g, "wait")) /\ i \in cmd[g].waits
  /\ proc' = IF ~proc[i].done /\ proc[i].os = "alive"
             THEN [proc EXCEPT ![i].os = "killed"] ELSE proc
  /\ cmd' = [cmd EXCEPT ![g].waits = @ \ {i}, ![g].gone = @ \cup Gone(g, proc[i].obj)]
  /\ UNCHANGED <<cfgVars, children, child, closed, chanVars, open, rt, late, begun>>

\* Reload drops the entry of the child it has stopped.
DropEntry(g, o) ==
  /\ At(g, "stop") /\ o \in cmd[g].gone
  /\ children' = [children EXCEPT ![child[o].id] = 0]
  /\ cmd' = [cmd EXCEPT ![g].gone = {}]
  /\ UNCHANGED <<cfgVars, child, proc, closed, chanVars, open, rt, late, begun>>

\* All have returned; or, for Close, its ten seconds are over, long after every
\* goroutine has come to its wait.
Stopped(g) ==
  /\ At(g, "stop")
  /\ cmd[g].todo = {} /\ cmd[g].found = {} /\ cmd[g].held = {} /\ cmd[g].gone = {}
  /\ cmd[g].waits = {} \/ cmd[g].op = "Close"
  /\ cmd' = [cmd EXCEPT ![g] =
       CASE @.op \in {"Stop", "StopAll"} -> Idle
         [] @.op = "Restart" -> [@ EXCEPT !.pc = "again"]
         [] @.op = "Reload" -> [@ EXCEPT !.pc = "swapServer"]
         [] @.op = "Close" -> [@ EXCEPT !.pc = "wait"]]
  /\ UNCHANGED <<cfgVars, objVars, closed, chanVars, open, rt, late, begun>>

-----------------------------------------------------------------------------
(* Close *)

\* Mutant: Close does not wait for the run goroutines.
CloseWaitsNot(g) ==
  /\ At(g, "wait")
  /\ cmd' = [cmd EXCEPT ![g].pc = "close"]
  /\ UNCHANGED <<cfgVars, objVars, closed, chanVars, open, rt, late, begun>>

\* childWg.Wait.
CloseWaits(g) ==
  /\ At(g, "wait") /\ \A i \in Inc : ~Running(i)
  /\ cmd' = [cmd EXCEPT ![g].pc = "close"]
  /\ UNCHANGED <<cfgVars, objVars, closed, chanVars, open, rt, late, begun>>

CloseEvents(g) ==
  /\ At(g, "close")
  /\ open' = FALSE
  /\ cmd' = [cmd EXCEPT ![g] = Idle]
  /\ UNCHANGED <<cfgVars, objVars, closed, chanVars, rt, late, begun>>

-----------------------------------------------------------------------------
(* Reload *)

\* Mutant: the entries go with the configuration, their children run on.
SwapForgets(g) ==
  /\ At(g, "swap")
  /\ LET old == DOMAIN cfg.projects
         new == DOMAIN cmd[g].new.projects IN
     /\ cmd' = [cmd EXCEPT ![g].pc = "stop", ![g].seed = new \ old, ![g].drop = old \ new]
     /\ children' = [p \in Projects |-> IF p \in old \ new THEN 0 ELSE children[p]]
  /\ cfg' = cmd[g].new
  /\ UNCHANGED <<srvCfg, child, proc, closed, chanVars, open, rt, late, begun>>

\* Manager.Reload's first critical section, and the difference it computes.
Swap(g) ==
  /\ At(g, "swap")
  /\ LET old == DOMAIN cfg.projects
         new == DOMAIN cmd[g].new.projects IN
     cmd' = [cmd EXCEPT ![g].pc = "stop", ![g].seed = new \ old, ![g].drop = old \ new,
                        ![g].todo = {p \in old \ new : children[p] # 0}]
  /\ cfg' = cmd[g].new
  /\ UNCHANGED <<srvCfg, objVars, closed, chanVars, open, rt, late, begun>>

\* Mutant: the server keeps its configuration.
SwapServerNot(g) ==
  /\ At(g, "swapServer")
  /\ cmd' = [cmd EXCEPT ![g].pc = "seed"]
  /\ UNCHANGED <<cfg, srvCfg, objVars, closed, chanVars, open, rt, late, begun>>

SwapServer(g) ==
  /\ At(g, "swapServer")
  /\ srvCfg' = cmd[g].new
  /\ cmd' = [cmd EXCEPT ![g].pc = "seed"]
  /\ UNCHANGED <<cfg, objVars, closed, chanVars, open, rt, late, begun>>

\* rt.Seed leaves what is there; rt.Delete; then the result goes to the client.
SeedAndDelete(g) ==
  /\ At(g, "seed")
  /\ rt' = [p \in Projects |->
       CASE p \in cmd[g].drop -> Absent
         [] p \in cmd[g].seed /\ rt[p] = Absent -> 0
         [] OTHER -> rt[p]]
  /\ cmd' = [cmd EXCEPT ![g] = Idle]
  /\ UNCHANGED <<cfgVars, objVars, closed, chanVars, open, late, begun>>

-----------------------------------------------------------------------------
Step(g) ==
  \/ GetOrCreate(g) \/ StartEnter(g) \/ StartSpawn(g) \/ StartFails(g) \/ StartAbort(g)
  \/ StartRunning(g) \/ StartLaunch(g) \/ RestartAgain(g)
  \/ StopIds(g) \/ \E p \in Projects : StopLookup(g, p)
  \/ \E o \in Objects : StopRead(g, o) \/ DropEntry(g, o)
  \/ \E i \in Inc : StopSet(g, i) \/ StopReturns(g, i)
  \/ Stopped(g) \/ CloseWaits(g) \/ CloseEvents(g)
  \/ Swap(g) \/ SwapServer(g) \/ SeedAndDelete(g)

BeginCommand(g) ==
  \/ \E p \in Projects : BeginStart(g, p) \/ BeginStop(g, p)
  \/ BeginStartGroup(g) \/ BeginStopAll(g) \/ BeginClose(g) \/ BeginReload(g)

RunStep(i) ==
  RunEnter(i) \/ RunReap(i) \/ RunExited(i) \/ RunClear(i) \/ RunSet(i) \/ RunReturn(i)

Next ==
  \/ \E g \in Cmds : BeginCommand(g) \/ Step(g)
  \/ \E i \in Inc : ProcEnds(i) \/ RunStep(i)
  \/ SourceApplies

Spec == Init /\ [][Next]_vars
=============================================================================
