------------------------- MODULE ManagerProperties --------------------------
(***************************************************************************)
(* What the manager and a reload promise.                                  *)
(***************************************************************************)
EXTENDS Manager

\* The project of an incarnation, and its process unless SIGKILL is sent.
Of(i) == child[proc[i].obj].id
Alive(i) == proc[i].os = "alive"

\* No command, nobody cleans up after a process, every event is applied.
Quiet == Busy = {} /\ (\A i \in Inc : ~Leaving(i)) /\ events = <<>> /\ ~panicked

\* Every variable keeps to its kind, and nothing panics: nobody sends on the
\* event channel once it is closed (manager.go:138-140), no run goroutine waits
\* on a nil command, no waitDone is closed twice (child.go:167, 217-221).
TypeOK ==
  /\ ~panicked
  /\ cfg \in Configs /\ srvCfg \in Configs
  /\ children \in [Projects -> Objects \cup {0}]
  /\ \A o \in Objects :
       /\ child[o].id \in Projects \cup {"none"}
       /\ child[o].state \in {"idle", "starting", "running", "stopping"}
       /\ child[o].cmd \in Inc \cup {0} /\ child[o].waitDone \in Inc \cup {0}
  /\ \A i \in Inc :
       /\ proc[i].obj \in Objects \cup {0} /\ proc[i].serves \in Inc \cup {0}
       /\ proc[i].os \in {"none", "alive", "killed", "dead", "reaped"}
       /\ proc[i].run \in {"none", "enter", "read", "exited", "clear", "set", "return", "done"}
  /\ Len(events) <= EventCap
  /\ rt \in [Projects -> Inc \cup {0, Absent}]
  /\ begun \in 0 .. MaxCommands

-----------------------------------------------------------------------------
(* Invariants *)

\* A process that has not been sent SIGKILL can be found by Stop and StopAll:
\* the map holds its child, and that child's cmd is it (manager.go:54-63,
\* 94-112, 238-241; child.go:325-341).  So a project has one at a time, also
\* across a Restart and reloads that take the project away and bring it back.
Stoppable ==
  \A i \in Inc : Alive(i) => children[Of(i)] = proc[i].obj /\ child[proc[i].obj].cmd = i

\* When no command is under way, manager and server hold one configuration, and
\* nothing runs that is not in it, beyond what SIGKILL is about to end
\* (manager.go:195-243; server.go:308-312).
Reconciled ==
  Busy = {} => /\ srvCfg = cfg
               /\ \A i \in Inc : Alive(i) => Of(i) \in DOMAIN cfg.projects

\* When nothing is under way the store shows no process but those there are, and
\* each of them, through reloads that delete and seed its records beside the
\* source goroutine (server.go:314-320; runtime.go:51-130), unless a child that
\* a reload dropped has reported its exit since: the event names only the project.
StoreSettles ==
  Quiet => \A p \in DOMAIN cfg.projects : \A i \in Inc :
             /\ rt[p] = i => Alive(i) /\ Of(i) = p
             /\ Alive(i) /\ Of(i) = p => rt[p] = i \/ p \in late

\* The same without that exception.
StoreFollows ==
  Quiet => \A p \in DOMAIN cfg.projects : \A i \in Inc :
             Alive(i) /\ Of(i) = p => rt[p] = i

\* When Close waits for the run goroutines, each process still to end is one that
\* it has told to and will kill (manager.go:124-139).
CloseFinds == \A g \in Cmds : cmd[g].pc = "wait" => \A i \in Inc : Alive(i) => i \in cmd[g].waits

-----------------------------------------------------------------------------
(* An action property *)

\* A process is started with the definition that the configuration in force
\* gives its project: the user restarts to apply a change (manager.go:185-189).
StartsAsConfigured ==
  [][\A i \in Inc : ~Alive(i) /\ Alive(i)' =>
       LET c == child[proc'[i].obj] IN
       c.id \in DOMAIN cfg.projects /\ c.def = cfg.projects[c.id]]_vars
=============================================================================
