------------------------------- MODULE Launch -------------------------------
(***************************************************************************)
(* Daemons, the commands that look for one, and the files they share: the  *)
(* pidfile and its lock, the socket and the children record                *)
(* (cmd/procs/daemon_run.go, launch.go, subcommands.go;                    *)
(* internal/daemon/orphans.go; internal/ipc/paths.go), for one config.     *)
(*                                                                         *)
(* A file is what its path names now; a process that opened the pidfile    *)
(* keeps its inode, and the lock is on the inode.  The socket is named by  *)
(* the daemon that bound it.  Every daemon has at most one child, and the  *)
(* child is named by its daemon.                                           *)
(*                                                                         *)
(* Abstracted: the config, the log file, the contents of the pidfile (read *)
(* by nobody), the supervision of the child (module Child) and the client  *)
(* connection (module Server).                                             *)
(***************************************************************************)
EXTENDS Integers, FiniteSets

CONSTANTS
  Users,       \* processes that run procs, procs kill and procs kill --orphans
  MaxDaemons,  \* bound: daemons spawned
  MaxCommands, \* bound: commands
  MaxCrashes,  \* bound: daemons killed by SIGKILL or a panic
  Orderly      \* TRUE: one command at a time, and its timeouts are long enough

ASSUME LaunchAssumption ==
  /\ MaxDaemons \in Nat /\ MaxCommands \in Nat /\ MaxCrashes \in Nat
  /\ Orderly \in BOOLEAN
  /\ Users \cap Int = {}

Daemons == 1 .. MaxDaemons
Procs == Users \cup Daemons

VARIABLES
  pidFile,   \* inode the pidfile's path names, 0 for none
  inodes,    \* inodes made so far
  fd,        \* the pidfile inode a process has open, 0 for none
  locked,    \* the processes that hold the lock on it
  sockFile,  \* the daemon that bound the socket its path names, 0 for none
  record,    \* the children file: its children, {} also for no file
  alive,     \* children that live
  unsaved,   \* daemons whose child started or exited since they wrote the record
  asked,     \* daemons that were sent OpShutdown
  pc,        \* where each process is
  target,    \* the daemon a kill waits for
  orphans,   \* users whose kill has --orphans
  recs,      \* the live children a kill --orphans has read
  warned,    \* children that warnOrphans has told a user of
  commands, spawned, crashes

fileVars == <<pidFile, inodes, fd, locked>>
childVars == <<alive, record, unsaved>>
userVars == <<target, orphans, recs, warned, commands>>
vars == <<fileVars, childVars, userVars, sockFile, asked, pc, spawned, crashes>>

Init ==
  /\ pidFile = 0 /\ inodes = 0 /\ fd = [p \in Procs |-> 0] /\ locked = {}
  /\ sockFile = 0 /\ record = {} /\ alive = {} /\ unsaved = {} /\ asked = {}
  /\ pc = [p \in Procs |-> IF p \in Users THEN "idle" ELSE "none"]
  /\ target = [u \in Users |-> 0] /\ orphans = {} /\ warned = {}
  /\ recs = [u \in Users |-> {}]
  /\ commands = 0 /\ spawned = 0 /\ crashes = 0

Goto(p, l) == pc' = [pc EXCEPT ![p] = l]

\* A connection to the socket is accepted: the path is there, and so is its
\* daemon (a dead daemon's socket refuses).
Accepting == sockFile # 0 /\ pc[sockFile] = "serving"

\* Mutant: OpenFile(O_CREATE | O_EXCL), the pidfile as the lock.
OpenPidFileExcl(p) ==
  /\ pidFile = 0
  /\ pidFile' = inodes + 1 /\ inodes' = inodes + 1
  /\ fd' = [fd EXCEPT ![p] = pidFile']

\* OpenFile(O_CREATE) of the pidfile.
OpenPidFile(p) ==
  /\ pidFile' = IF pidFile = 0 THEN inodes + 1 ELSE pidFile
  /\ inodes' = IF pidFile = 0 THEN inodes + 1 ELSE inodes
  /\ fd' = [fd EXCEPT ![p] = pidFile']

\* Flock(LOCK_EX | LOCK_NB) by p would succeed.
LockFree(p) == \A q \in locked : fd[q] # fd[p]

Starting == {d \in Daemons : pc[d] \in {"open", "lock", "removeStale", "listen"}}

-----------------------------------------------------------------------------
(* procs: runAttach and ensureDaemon *)

Launching == {u \in Users : pc[u] \in {"dial", "probeOpen", "probeLock", "probeUnlock",
                                       "clean", "spawn"}}

\* A command is typed.
MayBegin(u) ==
  /\ pc[u] = "idle" /\ commands < MaxCommands
  /\ Orderly => \A v \in Users : pc[v] \in {"idle", "attached"}

LaunchBegins(u) ==
  /\ MayBegin(u)
  /\ spawned + Cardinality(Launching) < MaxDaemons
  /\ commands' = commands + 1
  /\ Goto(u, "dial")
  /\ UNCHANGED <<fileVars, childVars, target, orphans, recs, warned, sockFile,
                 asked, spawned, crashes>>

LaunchDial(u) ==
  /\ pc[u] = "dial"
  /\ Goto(u, IF Accepting THEN "connect" ELSE "probeOpen")
  /\ UNCHANGED <<fileVars, childVars, userVars, sockFile, asked, spawned, crashes>>

\* daemonLockFree opens the pidfile, making it if need be,
ProbeOpen(u) ==
  /\ pc[u] = "probeOpen"
  /\ OpenPidFile(u)
  /\ Goto(u, "probeLock")
  /\ UNCHANGED <<locked, childVars, userVars, sockFile, asked, spawned, crashes>>

\* takes the lock if it is free; if not, a daemon is there to wait for;
ProbeLock(u) ==
  /\ pc[u] = "probeLock"
  /\ IF LockFree(u)
     THEN locked' = locked \cup {u} /\ Goto(u, "probeUnlock") /\ UNCHANGED fd
     ELSE fd' = [fd EXCEPT ![u] = 0] /\ Goto(u, "wait") /\ UNCHANGED locked
  /\ UNCHANGED <<pidFile, inodes, childVars, userVars, sockFile, asked, spawned, crashes>>

\* and gives it back.  Then warnOrphans.
ProbeUnlock(u) ==
  /\ pc[u] = "probeUnlock"
  /\ locked' = locked \ {u} /\ fd' = [fd EXCEPT ![u] = 0]
  /\ warned' = warned \cup (record \cap alive)
  /\ Goto(u, "clean")
  /\ UNCHANGED <<pidFile, inodes, childVars, target, orphans, recs, commands,
                 sockFile, asked, spawned, crashes>>

\* RemoveStaleSocket.
LaunchClean(u) ==
  /\ pc[u] = "clean"
  /\ sockFile' = 0
  /\ Goto(u, "spawn")
  /\ UNCHANGED <<fileVars, childVars, userVars, asked, spawned, crashes>>

LaunchSpawn(u) ==
  /\ pc[u] = "spawn"
  /\ spawned' = spawned + 1
  /\ pc' = [pc EXCEPT ![u] = "wait", ![spawned'] = "open"]
  /\ UNCHANGED <<fileVars, childVars, userVars, sockFile, asked, crashes>>

\* Mutant: no deadline.
LaunchWaitForever(u) ==
  /\ pc[u] = "wait" /\ Accepting
  /\ Goto(u, "connect")
  /\ UNCHANGED <<fileVars, childVars, userVars, sockFile, asked, spawned, crashes>>

\* waitForSocket: accepted, or five seconds have passed.
LaunchWait(u) ==
  /\ pc[u] = "wait"
  /\ \/ Accepting /\ Goto(u, "connect")
     \/ ~Accepting /\ (Orderly => Starting = {}) /\ Goto(u, "idle")
  /\ UNCHANGED <<fileVars, childVars, userVars, sockFile, asked, spawned, crashes>>

\* client.Dial.
LaunchConnect(u) ==
  /\ pc[u] = "connect"
  /\ Goto(u, IF Accepting THEN "attached" ELSE "idle")
  /\ UNCHANGED <<fileVars, childVars, userVars, sockFile, asked, spawned, crashes>>

\* The TUI ends: it detaches, or goes on to shut the daemon down.
Detach(u) ==
  /\ pc[u] = "attached"
  /\ Goto(u, "idle")
  /\ UNCHANGED <<fileVars, childVars, userVars, sockFile, asked, spawned, crashes>>

QuitAndShutdown(u) ==
  /\ pc[u] = "attached"
  /\ Orderly => \A v \in Users : pc[v] \in {"idle", "attached"}
  /\ Goto(u, "killDial")
  /\ UNCHANGED <<fileVars, childVars, userVars, sockFile, asked, spawned, crashes>>

-----------------------------------------------------------------------------
(* procs kill: runKill, requestDaemonShutdown, killOrphans *)

KillBegins(u) ==
  /\ MayBegin(u)
  /\ commands' = commands + 1
  /\ orphans' \in {orphans, orphans \cup {u}}
  /\ Goto(u, "killDial")
  /\ UNCHANGED <<fileVars, childVars, target, recs, warned, sockFile, asked,
                 spawned, crashes>>

AfterShutdown(u) == Goto(u, IF u \in orphans THEN "killRead" ELSE "idle")

KillDial(u) ==
  /\ pc[u] = "killDial"
  /\ IF Accepting
     THEN /\ asked' = asked \cup {sockFile}
          /\ target' = [target EXCEPT ![u] = sockFile]
          /\ Goto(u, "killWait")
     ELSE AfterShutdown(u) /\ UNCHANGED <<asked, target>>
  /\ UNCHANGED <<fileVars, childVars, orphans, recs, warned, commands, sockFile,
                 spawned, crashes>>

\* The connection is at its end once the source goroutine is; it may also be
\* taken over by another client, or ten seconds pass.
KillWait(u) ==
  /\ pc[u] = "killWait"
  /\ Orderly => pc[target[u]] \notin {"serving", "closing"}
  /\ target' = [target EXCEPT ![u] = 0]
  /\ AfterShutdown(u)
  /\ UNCHANGED <<fileVars, childVars, orphans, recs, warned, commands, sockFile,
                 asked, spawned, crashes>>

KillRead(u) ==
  /\ pc[u] = "killRead"
  /\ recs' = [recs EXCEPT ![u] = record \cap alive]
  /\ Goto(u, "killTerm")
  /\ UNCHANGED <<fileVars, childVars, target, orphans, warned, commands, sockFile,
                 asked, spawned, crashes>>

\* SIGTERM to each, and the record is removed; nothing if there were none.
KillTerm(u) ==
  /\ pc[u] = "killTerm"
  /\ alive' = alive \ recs[u]
  /\ record' = IF recs[u] = {} THEN record ELSE {}
  /\ recs' = [recs EXCEPT ![u] = {}]
  /\ orphans' = orphans \ {u}
  /\ Goto(u, "idle")
  /\ UNCHANGED <<fileVars, unsaved, target, warned, commands, sockFile, asked,
                 spawned, crashes>>

-----------------------------------------------------------------------------
(* procs daemon: runDaemon *)

\* acquireDaemonLock opens the pidfile
DaemonOpen(d) ==
  /\ pc[d] = "open"
  /\ OpenPidFile(d)
  /\ Goto(d, "lock")
  /\ UNCHANGED <<locked, childVars, userVars, sockFile, asked, spawned, crashes>>

\* and takes its lock, or the daemon gives up.
DaemonLock(d) ==
  /\ pc[d] = "lock"
  /\ IF LockFree(d)
     THEN locked' = locked \cup {d} /\ Goto(d, "removeStale") /\ UNCHANGED fd
     ELSE fd' = [fd EXCEPT ![d] = 0] /\ Goto(d, "dead") /\ UNCHANGED locked
  /\ UNCHANGED <<pidFile, inodes, childVars, userVars, sockFile, asked, spawned, crashes>>

DaemonRemoveStale(d) ==
  /\ pc[d] = "removeStale"
  /\ sockFile' = 0
  /\ Goto(d, "listen")
  /\ UNCHANGED <<fileVars, childVars, userVars, asked, spawned, crashes>>

\* ListenAndServe: the bind fails if something is at the path.
DaemonListen(d) ==
  /\ pc[d] = "listen"
  /\ IF sockFile = 0
     THEN sockFile' = d /\ Goto(d, "serving")
     ELSE Goto(d, "removeChildren") /\ UNCHANGED sockFile
  /\ UNCHANGED <<fileVars, childVars, userVars, asked, spawned, crashes>>

\* The listener's Close unlinks the path.
DaemonCloses(d) ==
  /\ pc[d] = "serving" /\ d \in asked
  /\ sockFile' = 0
  /\ Goto(d, "closing")
  /\ UNCHANGED <<fileVars, childVars, userVars, asked, spawned, crashes>>

\* mgr.Close returns, and the source has applied the last events.
DaemonDrained(d) ==
  /\ pc[d] = "closing"
  /\ alive' = alive \ {d}
  /\ record' = IF d \in alive \cup unsaved THEN {} ELSE record
  /\ unsaved' = unsaved \ {d}
  /\ Goto(d, "removeChildren")
  /\ UNCHANGED <<fileVars, userVars, sockFile, asked, spawned, crashes>>

\* Mutant: the pidfile is removed before the socket.
DaemonRemoveChildrenPid(d) ==
  /\ pc[d] = "removeChildren"
  /\ record' = {} /\ pidFile' = 0
  /\ Goto(d, "removeSocket")
  /\ UNCHANGED <<inodes, fd, locked, alive, unsaved, userVars, sockFile, asked, spawned, crashes>>

\* The deferred calls, last first: the children file, the socket, ...
DaemonRemoveChildren(d) ==
  /\ pc[d] = "removeChildren"
  /\ record' = {}
  /\ Goto(d, "removeSocket")
  /\ UNCHANGED <<fileVars, alive, unsaved, userVars, sockFile, asked, spawned, crashes>>

DaemonRemoveSocket(d) ==
  /\ pc[d] = "removeSocket"
  /\ sockFile' = 0
  /\ Goto(d, "removePid")
  /\ UNCHANGED <<fileVars, childVars, userVars, asked, spawned, crashes>>

\* ... the pidfile, and its lock.
DaemonRemovePid(d) ==
  /\ pc[d] = "removePid"
  /\ pidFile' = 0
  /\ Goto(d, "unlock")
  /\ UNCHANGED <<inodes, fd, locked, childVars, userVars, sockFile, asked, spawned, crashes>>

Released(d) == locked' = locked \ {d} /\ fd' = [fd EXCEPT ![d] = 0]

DaemonUnlock(d) ==
  /\ pc[d] = "unlock"
  /\ Released(d)
  /\ Goto(d, "dead")
  /\ UNCHANGED <<pidFile, inodes, childVars, userVars, sockFile, asked, spawned, crashes>>

\* The kernel releases the lock; the files stay, and so does the child.
DaemonCrash(d) ==
  /\ pc[d] \notin {"none", "dead"} /\ crashes < MaxCrashes
  /\ crashes' = crashes + 1
  /\ Released(d)
  /\ unsaved' = unsaved \ {d}
  /\ Goto(d, "dead")
  /\ UNCHANGED <<pidFile, inodes, alive, record, userVars, sockFile, asked, spawned>>

-----------------------------------------------------------------------------
(* The child of a daemon *)

ChildStarts(d) ==
  /\ pc[d] = "serving" /\ d \notin alive \cup unsaved \cup record
  /\ alive' = alive \cup {d} /\ unsaved' = unsaved \cup {d}
  /\ UNCHANGED <<fileVars, record, userVars, sockFile, asked, pc, spawned, crashes>>

\* Mutant: the record is not written on an exit.
ChildExitsUnsaved(d) ==
  /\ d \in alive
  /\ alive' = alive \ {d}
  /\ UNCHANGED <<fileVars, record, unsaved, userVars, sockFile, asked, pc, spawned, crashes>>

ChildExits(d) ==
  /\ d \in alive
  /\ alive' = alive \ {d}
  /\ unsaved' = IF pc[d] \in {"serving", "closing"} THEN unsaved \cup {d} ELSE unsaved
  /\ UNCHANGED <<fileVars, record, userVars, sockFile, asked, pc, spawned, crashes>>

\* persistChildren, when the source goroutine comes to the event: the record
\* holds the children of this daemon.
PersistChildren(d) ==
  /\ d \in unsaved
  /\ record' = alive \cap {d}
  /\ unsaved' = unsaved \ {d}
  /\ UNCHANGED <<fileVars, alive, userVars, sockFile, asked, pc, spawned, crashes>>

-----------------------------------------------------------------------------
UserStep(u) ==
  \/ LaunchDial(u) \/ ProbeOpen(u) \/ ProbeLock(u) \/ ProbeUnlock(u) \/ LaunchClean(u)
  \/ LaunchSpawn(u) \/ LaunchWait(u) \/ LaunchConnect(u)
  \/ KillDial(u) \/ KillWait(u) \/ KillRead(u) \/ KillTerm(u)

DaemonStep(d) ==
  \/ DaemonOpen(d) \/ DaemonLock(d) \/ DaemonRemoveStale(d) \/ DaemonListen(d)
  \/ DaemonCloses(d) \/ DaemonDrained(d) \/ DaemonRemoveChildren(d)
  \/ DaemonRemoveSocket(d) \/ DaemonRemovePid(d) \/ DaemonUnlock(d)

Next ==
  \/ \E u \in Users : UserStep(u) \/ LaunchBegins(u) \/ KillBegins(u)
                      \/ Detach(u) \/ QuitAndShutdown(u)
  \/ \E d \in Daemons : DaemonStep(d) \/ DaemonCrash(d)
  \/ \E d \in Daemons : ChildStarts(d) \/ ChildExits(d) \/ PersistChildren(d)

Spec == Init /\ [][Next]_vars

\* Processes that can run do run, and timeouts elapse.
Fairness == /\ \A u \in Users : WF_vars(UserStep(u))
            /\ \A d \in Daemons : WF_vars(DaemonStep(d)) /\ WF_vars(PersistChildren(d))

FairSpec == Spec /\ Fairness
=============================================================================
